----------------------------- MODULE AgentWorkProofs -----------------------------
(***************************************************************************)
(* An agent at work, for any turns, budgets, histories, caps, lessons,     *)
(* tools and failures.                                                     *)
(*                                                                         *)
(* Turns: two turns of one thread store what they have while the other     *)
(* reads, and each message may be stored late or not at all.  The          *)
(* invariant says that what is stored, what the interceptor still has to   *)
(* store and what the model was told stay in one order: calls first, then  *)
(* at most one answer to each.  Cutting keeps that order, and the context  *)
(* is cut by its calls.                                                    *)
(*                                                                         *)
(* Lessons: a task that is to write "active" has the support, or read a    *)
(* lesson that the user activated.                                         *)
(*                                                                         *)
(* Policies: the tools that a task knew and those it found are old when it *)
(* commits.  The invariant says what holds of them all the same: a         *)
(* transaction gives a policy to whatever it thinks new, takes the         *)
(* policies of whatever it thinks gone, and touches no other.              *)
(***************************************************************************)
EXTENDS MCAgentWork, TLAPS, FiniteSetTheorems, WellFoundedInduction, SequenceTheorems

(***************************************************************************)
(* Sequences that keep some of the elements of another.                    *)
(***************************************************************************)

\* A set of numbers that is not empty has a least one.
LEMMA Least ==
  ASSUME NEW S \in SUBSET Nat, S # {}
  PROVE  \E m \in S : \A n \in S : m <= n
PROOF
<1>1. PICK m \in S : \A n \in S : <<n, m>> \notin OpToRel(<, Nat)
  BY NatLessThanWellFounded, WFMin
<1>2. \A n \in S : ~(n < m)
  BY <1>1 DEF OpToRel
<1> QED BY <1>2

\* The rank of a position among the kept ones counts them.
LEMMA Ranks ==
  ASSUME NEW n \in Nat, NEW S \in SUBSET (1 .. n)
  PROVE  /\ IsFiniteSet(S) /\ Cardinality(S) \in Nat /\ Cardinality(S) <= n
         /\ \A i \in S : Rank(S, i) \in 1 .. Cardinality(S) /\ Rank(S, i) <= i
         /\ \A i, j \in S : i < j => Rank(S, i) < Rank(S, j)
PROOF
<1>0. IsFiniteSet(1 .. n) /\ Cardinality(1 .. n) = n
  BY 1 \in Int, n \in Int, FS_Interval
<1>. \A i \in S : i \in Nat /\ 1 <= i
  OBVIOUS
<1>1. IsFiniteSet(S) /\ Cardinality(S) \in Nat /\ Cardinality(S) <= n
  BY <1>0, FS_Subset, FS_CardinalityType
<1>2. ASSUME NEW i \in S
      PROVE  /\ IsFiniteSet({j \in S : j <= i}) /\ Rank(S, i) \in 1 .. Cardinality(S) /\ Rank(S, i) <= i
  <2>1. /\ IsFiniteSet({j \in S : j <= i}) /\ Rank(S, i) <= Cardinality(S)
    BY <1>1, FS_Subset, {j \in S : j <= i} \in SUBSET S DEF Rank
  <2>2. Rank(S, i) # 0 /\ Rank(S, i) \in Nat
    BY <2>1, FS_EmptySet, FS_CardinalityType, i \in {j \in S : j <= i} DEF Rank
  <2>3. Rank(S, i) <= i
    <3>1. {j \in S : j <= i} \in SUBSET (1 .. i)
      <4>1. \A j \in S : j <= i => j \in 1 .. i
        OBVIOUS
      <4> QED BY <4>1
    <3>2. IsFiniteSet(1 .. i) /\ Cardinality(1 .. i) = i
      BY FS_Interval
    <3> QED BY <3>1, <3>2, FS_Subset DEF Rank
  <2> QED BY <2>1, <2>2, <2>3, <1>1
<1>3. ASSUME NEW i \in S, NEW j \in S, i < j
      PROVE  Rank(S, i) < Rank(S, j)
  <2> i \in Nat /\ j \in Nat
    OBVIOUS
  <2> DEFINE A == {k \in S : k <= i}
             B == {k \in S : k <= j}
  <2>1. A \in SUBSET B /\ j \in B /\ j \notin A
    <3>1. \A k \in S : k <= i => k <= j
      BY <1>3
    <3>2. j \in B /\ j \notin A
      BY <1>3
    <3> QED BY <3>1, <3>2
  <2>2. IsFiniteSet(B) /\ IsFiniteSet(A) /\ Cardinality(A) \in Nat /\ Cardinality(B) \in Nat
    BY <1>2, FS_CardinalityType
  <2>3. Cardinality(A) <= Cardinality(B) /\ Cardinality(A) # Cardinality(B)
    BY <2>1, <2>2, FS_Subset
  <2> QED BY <2>2, <2>3 DEF Rank
<1> QED BY <1>1, <1>2, <1>3

\* Every rank is taken.
LEMMA RanksReached ==
  ASSUME NEW n \in Nat, NEW S \in SUBSET (1 .. n), NEW k \in 1 .. Cardinality(S)
  PROVE  \E i \in S : Rank(S, i) = k
PROOF
<1> DEFINE R == [i \in S |-> Rank(S, i)]
           T == 1 .. Cardinality(S)
<1>1. IsFiniteSet(S) /\ Cardinality(S) \in Nat
  BY Ranks
<1>2. IsFiniteSet(T) /\ Cardinality(T) = Cardinality(S)
  BY <1>1, FS_Interval
<1>3. R \in [S -> T]
  BY Ranks
<1>4. \A i, j \in S : R[i] = R[j] => i = j
  <2> SUFFICES ASSUME NEW i \in S, NEW j \in S, R[i] = R[j], i # j PROVE FALSE
    OBVIOUS
  <2>1. i < j \/ j < i
    BY i \in Nat, j \in Nat
  <2>2. Rank(S, i) = Rank(S, j) /\ Rank(S, i) \in Nat
    BY Ranks
  <2>3. (i < j => Rank(S, i) < Rank(S, j)) /\ (j < i => Rank(S, j) < Rank(S, i))
    BY Ranks
  <2> QED BY <2>1, <2>2, <2>3
<1>5. R \in Injection(S, T)
  BY <1>3, <1>4 DEF Injection, IsInjective
<1>6. R \in Surjection(S, T)
  BY <1>2, <1>5, FS_Injection
<1> QED BY <1>6 DEF Surjection

\* An enumeration of S that respects the order.
Lists(e, S) ==
  /\ e \in [1 .. Cardinality(S) -> S]
  /\ \A k, l \in 1 .. Cardinality(S) : k < l => e[k] < e[l]
  /\ \A k \in 1 .. Cardinality(S) : k <= e[k]
  /\ \A i \in S : \E k \in 1 .. Cardinality(S) : e[k] = i

\* What Keep keeps.
LEMMA Kept ==
  ASSUME NEW Set_, NEW s \in Seq(Set_), NEW S \in SUBSET (DOMAIN s)
  PROVE  /\ Cardinality(S) \in Nat /\ Cardinality(S) <= Len(s)
         /\ Keep(s, S) \in Seq(Set_)
         /\ Len(Keep(s, S)) = Cardinality(S)
         /\ DOMAIN Keep(s, S) = 1 .. Cardinality(S)
         /\ \E e : Lists(e, S) /\ \A k \in 1 .. Cardinality(S) : Keep(s, S)[k] = s[e[k]]
PROOF
<1> DEFINE e == [k \in 1 .. Cardinality(S) |-> CHOOSE i \in S : Rank(S, i) = k]
<1>1. Len(s) \in Nat /\ DOMAIN s = 1 .. Len(s) /\ S \in SUBSET (1 .. Len(s))
  OBVIOUS
<1>2. Cardinality(S) \in Nat /\ Cardinality(S) <= Len(s)
  BY <1>1, Ranks
<1>3. \A k \in 1 .. Cardinality(S) : e[k] \in S /\ Rank(S, e[k]) = k
  BY <1>1, RanksReached
<1>4. \A i \in S : Rank(S, i) \in 1 .. Cardinality(S) /\ Rank(S, i) <= i
  BY <1>1, Ranks
<1>5. \A i, j \in S : i < j => Rank(S, i) < Rank(S, j)
  BY <1>1, Ranks
<1>6. e \in [1 .. Cardinality(S) -> S]
  BY <1>3
<1> HIDE DEF e
<1>7. \A k, l \in 1 .. Cardinality(S) : k < l => e[k] < e[l]
  <2> SUFFICES ASSUME NEW k \in 1 .. Cardinality(S), NEW l \in 1 .. Cardinality(S), k < l, ~(e[k] < e[l])
               PROVE  FALSE
    OBVIOUS
  <2>1. e[k] \in Nat /\ e[l] \in Nat /\ e[k] \in S /\ e[l] \in S
    BY <1>1, <1>6
  <2>2. e[l] = e[k] \/ e[l] < e[k]
    BY <2>1
  <2>3. l = k \/ l < k
    BY <2>1, <2>2, <1>3, <1>5
  <2> QED BY <2>3, <1>2
<1>8. \A k \in 1 .. Cardinality(S) : k <= e[k]
  BY <1>3, <1>4
<1>9. \A i \in S : \E k \in 1 .. Cardinality(S) : e[k] = i
  <2> SUFFICES ASSUME NEW i \in S PROVE \E k \in 1 .. Cardinality(S) : e[k] = i
    OBVIOUS
  <2>1. Rank(S, i) \in 1 .. Cardinality(S)
    BY <1>4
  <2>2. e[Rank(S, i)] \in S /\ Rank(S, e[Rank(S, i)]) = Rank(S, i)
    BY <2>1, <1>3
  <2>3. ~(e[Rank(S, i)] < i) /\ ~(i < e[Rank(S, i)])
    BY <2>1, <2>2, <1>2, <1>5
  <2> QED BY <2>1, <2>2, <2>3, <1>1
<1>10. Keep(s, S) = [k \in 1 .. Cardinality(S) |-> s[e[k]]]
  BY DEF Keep, e
<1>11. Keep(s, S) \in Seq(Set_) /\ Len(Keep(s, S)) = Cardinality(S)
  <2>1. \A k \in 1 .. Cardinality(S) : s[e[k]] \in Set_
    BY <1>1, <1>6
  <2>2. Keep(s, S) \in [1 .. Cardinality(S) -> Set_]
    BY <2>1, <1>10
  <2> QED BY <2>2, <1>2, <1>10
<1> QED BY <1>2, <1>6, <1>7, <1>8, <1>9, <1>10, <1>11 DEF Lists

(***************************************************************************)
(* Messages and the calls they carry.                                      *)
(***************************************************************************)

Calls == [by : Turns, n : Nat \ {0}, delegates : BOOLEAN]
Messages == {System, User, Reply} \cup {Calling(cs) : cs \in Seq(Calls)} \cup {Result(c) : c \in Calls}

Carried(s) == UNION {Ids(s[i]) : i \in DOMAIN s}

\* A call is made once, answered at most once, and answered after it was made.
Apart(m, n) == Ids(m) \cap Ids(n) # {} => m.kind = "calls" /\ n.kind = "result"
Ordered(s) == \A i, j \in DOMAIN s : i < j => Apart(s[i], s[j])
Before(s, u) == \A i \in DOMAIN s, j \in DOMAIN u : Apart(s[i], u[j])

Called(s) == \A j \in DOMAIN s : s[j].kind = "result" =>
                \E i \in DOMAIN s : i < j /\ s[i].kind = "calls" /\ Ids(s[j]) \subseteq Ids(s[i])
AnsweredBut(s, C) == \A i \in DOMAIN s : s[i].kind = "calls" => Ids(s[i]) \subseteq Answered(s) \cup C
Open(s, C) == \A i \in DOMAIN s : Ids(s[i]) \cap C # {} => s[i].kind = "calls"

\* What each form of message carries.
LEMMA Forms ==
  /\ Ids(System) = {} /\ System.kind = "system" /\ System \in Messages
  /\ Ids(User) = {} /\ User.kind = "user" /\ User \in Messages
  /\ Ids(Reply) = {} /\ Reply.kind = "reply" /\ Reply \in Messages
  /\ \A cs \in Seq(Calls) : Ids(Calling(cs)) = ToSet(cs) /\ Calling(cs).kind = "calls" /\ Calling(cs) \in Messages
  /\ \A c \in Calls : Ids(Result(c)) = {c} /\ Result(c).kind = "result" /\ Result(c) \in Messages
PROOF
<1>1. DOMAIN (<<>>) = {}
  OBVIOUS
<1>2. Ids(System) = {} /\ Ids(User) = {} /\ Ids(Reply) = {}
  BY <1>1 DEF Ids, ToSet, System, User, Reply
<1>3. \A cs \in Seq(Calls) : Ids(Calling(cs)) = ToSet(cs)
  BY DEF Ids, Calling
<1>4. ASSUME NEW c \in Calls PROVE Ids(Result(c)) = {c}
  <2>1. DOMAIN <<c>> = {1} /\ <<c>>[1] = c
    OBVIOUS
  <2>2. Ids(Result(c)) = ToSet(<<c>>)
    BY DEF Ids, Result
  <2> QED BY <2>1, <2>2 DEF ToSet
<1> QED BY <1>2, <1>3, <1>4 DEF Messages, System, User, Reply, Calling, Result

\* Every message is of one of five kinds; only calls and results carry ids, a result one.
LEMMA MessageForms ==
  ASSUME NEW m \in Messages
  PROVE  /\ Ids(m) \subseteq Calls
         /\ m.kind = "result" => \E c \in Calls : Ids(m) = {c}
         /\ m.kind \in {"system", "user", "reply", "calls", "result"}
         /\ m.kind \notin {"calls", "result"} => Ids(m) = {}
PROOF
<1>1. CASE m \in {System, User, Reply}
  BY <1>1, Forms
<1>2. CASE \E cs \in Seq(Calls) : m = Calling(cs)
  <2>1. PICK cs \in Seq(Calls) : m = Calling(cs)
    BY <1>2
  <2>2. Ids(m) = ToSet(cs) /\ m.kind = "calls"
    BY <2>1, Forms
  <2>3. ToSet(cs) \subseteq Calls
    BY DEF ToSet
  <2> QED BY <2>2, <2>3
<1>3. CASE \E c \in Calls : m = Result(c)
  BY <1>3, Forms
<1> QED BY <1>1, <1>2, <1>3 DEF Messages

\* Two sequences together carry what either carries.
LEMMA ConcatCarried ==
  ASSUME NEW s \in Seq(Messages), NEW u \in Seq(Messages)
  PROVE  Carried(s \o u) = Carried(s) \cup Carried(u)
PROOF
<1>1. /\ DOMAIN s = 1 .. Len(s) /\ DOMAIN u = 1 .. Len(u) /\ Len(s) \in Nat /\ Len(u) \in Nat
      /\ DOMAIN (s \o u) = 1 .. (Len(s) + Len(u))
      /\ \A i \in 1 .. Len(s) : (s \o u)[i] = s[i]
      /\ \A i \in 1 .. (Len(s) + Len(u)) : i > Len(s) => (s \o u)[i] = u[i - Len(s)]
  OBVIOUS
<1>2. ASSUME NEW i \in DOMAIN (s \o u)
      PROVE  Ids((s \o u)[i]) \subseteq Carried(s) \cup Carried(u)
  <2>1. CASE i <= Len(s)
    BY <1>1, <2>1 DEF Carried
  <2>2. CASE i > Len(s)
    <3>1. i - Len(s) \in DOMAIN u
      BY <1>1, <2>2
    <3> QED BY <1>1, <2>2, <3>1 DEF Carried
  <2> QED BY <1>1, <2>1, <2>2
<1>3. Carried(s) \subseteq Carried(s \o u)
  <2>1. ASSUME NEW i \in DOMAIN s PROVE Ids(s[i]) \subseteq Carried(s \o u)
    <3>1. i \in DOMAIN (s \o u)
      BY <1>1
    <3> QED BY <3>1, <1>1 DEF Carried
  <2> QED BY <2>1 DEF Carried
<1>4. Carried(u) \subseteq Carried(s \o u)
  <2>1. ASSUME NEW i \in DOMAIN u PROVE Ids(u[i]) \subseteq Carried(s \o u)
    <3>1. i + Len(s) \in DOMAIN (s \o u) /\ i + Len(s) > Len(s) /\ (i + Len(s)) - Len(s) = i
      BY <1>1
    <3>2. (s \o u)[i + Len(s)] = u[i]
      BY <1>1, <3>1
    <3> QED BY <3>1, <3>2 DEF Carried
  <2> QED BY <2>1 DEF Carried
<1> QED BY <1>2, <1>3, <1>4 DEF Carried

\* Ordered sequences stay ordered together when the first may come before the second.
LEMMA ConcatOrdered ==
  ASSUME NEW s \in Seq(Messages), NEW u \in Seq(Messages), Ordered(s), Ordered(u), Before(s, u)
  PROVE  Ordered(s \o u)
PROOF
<1>1. /\ DOMAIN s = 1 .. Len(s) /\ DOMAIN u = 1 .. Len(u) /\ Len(s) \in Nat /\ Len(u) \in Nat
      /\ DOMAIN (s \o u) = 1 .. (Len(s) + Len(u))
      /\ \A i \in 1 .. Len(s) : (s \o u)[i] = s[i]
      /\ \A i \in 1 .. (Len(s) + Len(u)) : i > Len(s) => (s \o u)[i] = u[i - Len(s)]
  OBVIOUS
<1> SUFFICES ASSUME NEW i \in DOMAIN (s \o u), NEW j \in DOMAIN (s \o u), i < j
             PROVE  Apart((s \o u)[i], (s \o u)[j])
  BY DEF Ordered
<1> i \in Nat /\ j \in Nat
  BY <1>1
<1>2. CASE j <= Len(s)
  BY <1>1, <1>2 DEF Ordered
<1>3. CASE i > Len(s)
  <2>1. i - Len(s) \in DOMAIN u /\ j - Len(s) \in DOMAIN u /\ i - Len(s) < j - Len(s)
    BY <1>1, <1>3
  <2> QED BY <1>1, <1>3, <2>1 DEF Ordered
<1>4. CASE i <= Len(s) /\ j > Len(s)
  <2>1. i \in DOMAIN s /\ j - Len(s) \in DOMAIN u
    BY <1>1, <1>4
  <2> QED BY <1>1, <1>4, <2>1 DEF Before
<1> QED BY <1>1, <1>2, <1>3, <1>4

\* What comes before both parts comes before the whole.
LEMMA ConcatBefore ==
  ASSUME NEW r \in Seq(Messages), NEW s \in Seq(Messages), NEW u \in Seq(Messages)
  PROVE  /\ Before(r, s) /\ Before(r, u) => Before(r, s \o u)
         /\ Before(r, u) /\ Before(s, u) => Before(r \o s, u)
PROOF
<1>1. ASSUME NEW x \in Seq(Messages), NEW y \in Seq(Messages), NEW i \in DOMAIN (x \o y)
      PROVE  \/ \E k \in DOMAIN x : (x \o y)[i] = x[k]
             \/ \E k \in DOMAIN y : (x \o y)[i] = y[k]
  <2>1. /\ DOMAIN x = 1 .. Len(x) /\ DOMAIN y = 1 .. Len(y) /\ Len(x) \in Nat /\ Len(y) \in Nat
        /\ DOMAIN (x \o y) = 1 .. (Len(x) + Len(y))
    OBVIOUS
  <2>2. CASE i <= Len(x)
    <3>1. i \in DOMAIN x /\ (x \o y)[i] = x[i]
      BY <2>1, <2>2
    <3> QED BY <3>1
  <2>3. CASE i > Len(x)
    <3>1. i - Len(x) \in DOMAIN y /\ (x \o y)[i] = y[i - Len(x)]
      BY <2>1, <2>3
    <3> QED BY <3>1
  <2> QED BY <2>1, <2>2, <2>3
<1> QED BY <1>1 DEF Before

\* Results that are appended have their calls in front of them.
LEMMA ConcatCalled ==
  ASSUME NEW s \in Seq(Messages), NEW u \in Seq(Messages), Called(s),
         \A j \in DOMAIN u : u[j].kind = "result" =>
            \/ \E i \in DOMAIN s : s[i].kind = "calls" /\ Ids(u[j]) \subseteq Ids(s[i])
            \/ \E i \in DOMAIN u : i < j /\ u[i].kind = "calls" /\ Ids(u[j]) \subseteq Ids(u[i])
  PROVE  Called(s \o u)
PROOF
<1>1. /\ DOMAIN s = 1 .. Len(s) /\ DOMAIN u = 1 .. Len(u) /\ Len(s) \in Nat /\ Len(u) \in Nat
      /\ DOMAIN (s \o u) = 1 .. (Len(s) + Len(u))
      /\ \A i \in 1 .. Len(s) : (s \o u)[i] = s[i]
      /\ \A i \in 1 .. (Len(s) + Len(u)) : i > Len(s) => (s \o u)[i] = u[i - Len(s)]
  OBVIOUS
<1> DEFINE w == s \o u
<1> HIDE DEF w
<1> SUFFICES ASSUME NEW j \in DOMAIN w, w[j].kind = "result"
             PROVE  \E i \in DOMAIN w : i < j /\ w[i].kind = "calls" /\ Ids(w[j]) \subseteq Ids(w[i])
  BY DEF Called, w
<1>2. CASE j <= Len(s)
  <2>1. j \in DOMAIN s /\ w[j] = s[j]
    BY <1>1, <1>2 DEF w
  <2>2. PICK i \in DOMAIN s : i < j /\ s[i].kind = "calls" /\ Ids(s[j]) \subseteq Ids(s[i])
    BY <2>1 DEF Called
  <2>3. i \in DOMAIN w /\ w[i] = s[i]
    BY <1>1 DEF w
  <2> QED BY <2>1, <2>2, <2>3
<1>3. CASE j > Len(s)
  <2>1. j - Len(s) \in DOMAIN u /\ w[j] = u[j - Len(s)] /\ j \in Nat
    BY <1>1, <1>3 DEF w
  <2>2. CASE \E i \in DOMAIN s : s[i].kind = "calls" /\ Ids(w[j]) \subseteq Ids(s[i])
    <3>1. PICK i \in DOMAIN s : s[i].kind = "calls" /\ Ids(w[j]) \subseteq Ids(s[i])
      BY <2>2
    <3>2. i \in DOMAIN w /\ w[i] = s[i] /\ i < j
      BY <1>1, <1>3 DEF w
    <3> QED BY <3>1, <3>2
  <2>3. CASE \E i \in DOMAIN u : i < j - Len(s) /\ u[i].kind = "calls" /\ Ids(w[j]) \subseteq Ids(u[i])
    <3>1. PICK i \in DOMAIN u : i < j - Len(s) /\ u[i].kind = "calls" /\ Ids(w[j]) \subseteq Ids(u[i])
      BY <2>3
    <3>2. i + Len(s) \in DOMAIN w /\ i + Len(s) < j /\ i + Len(s) > Len(s) /\ (i + Len(s)) - Len(s) = i
      BY <1>1, <2>1, <3>1 DEF w
    <3>3. w[i + Len(s)] = u[i]
      BY <1>1, <3>2 DEF w
    <3> QED BY <3>1, <3>2, <3>3
  <2> QED BY <2>1, <2>2, <2>3
<1>4. j <= Len(s) \/ j > Len(s)
  BY <1>1 DEF w
<1> QED BY <1>2, <1>3, <1>4

\* What is answered stays so, and what follows may answer more.
LEMMA ConcatAnswered ==
  ASSUME NEW s \in Seq(Messages), NEW u \in Seq(Messages)
  PROVE  Answered(s \o u) = Answered(s) \cup Answered(u)
PROOF
<1>1. /\ DOMAIN s = 1 .. Len(s) /\ DOMAIN u = 1 .. Len(u) /\ Len(s) \in Nat /\ Len(u) \in Nat
      /\ DOMAIN (s \o u) = 1 .. (Len(s) + Len(u))
      /\ \A i \in 1 .. Len(s) : (s \o u)[i] = s[i]
      /\ \A i \in 1 .. (Len(s) + Len(u)) : i > Len(s) => (s \o u)[i] = u[i - Len(s)]
  OBVIOUS
<1> DEFINE w == s \o u
<1> HIDE DEF w
<1>2. ASSUME NEW i \in DOMAIN w, w[i].kind = "result"
      PROVE  Ids(w[i]) \subseteq Answered(s) \cup Answered(u)
  <2>1. CASE i <= Len(s)
    <3>1. i \in DOMAIN s /\ w[i] = s[i]
      BY <1>1, <2>1 DEF w
    <3> QED BY <3>1, <1>2 DEF Answered
  <2>2. CASE i > Len(s)
    <3>1. i - Len(s) \in DOMAIN u /\ w[i] = u[i - Len(s)]
      BY <1>1, <2>2 DEF w
    <3> QED BY <3>1, <1>2 DEF Answered
  <2> QED BY <1>1, <2>1, <2>2 DEF w
<1>3. ASSUME NEW i \in DOMAIN s, s[i].kind = "result" PROVE Ids(s[i]) \subseteq Answered(w)
  <2>1. i \in DOMAIN w /\ w[i] = s[i]
    BY <1>1 DEF w
  <2> QED BY <2>1, <1>3 DEF Answered
<1>4. ASSUME NEW i \in DOMAIN u, u[i].kind = "result" PROVE Ids(u[i]) \subseteq Answered(w)
  <2>1. i + Len(s) \in DOMAIN w /\ i + Len(s) > Len(s) /\ (i + Len(s)) - Len(s) = i
    BY <1>1 DEF w
  <2>2. w[i + Len(s)] = u[i]
    BY <1>1, <2>1 DEF w
  <2> QED BY <2>1, <2>2, <1>4 DEF Answered
<1>5. Answered(w) \subseteq Answered(s) \cup Answered(u)
  BY <1>2 DEF Answered
<1>6. Answered(s) \subseteq Answered(w)
  BY <1>3 DEF Answered
<1>7. Answered(u) \subseteq Answered(w)
  BY <1>4 DEF Answered
<1> QED BY <1>5, <1>6, <1>7 DEF w

\* Results that are appended answer calls that waited.
LEMMA ConcatAnsweredBut ==
  ASSUME NEW s \in Seq(Messages), NEW u \in Seq(Messages), NEW C, NEW D,
         AnsweredBut(s, C), C \subseteq Answered(u) \cup D,
         \A i \in DOMAIN u : u[i].kind = "calls" => Ids(u[i]) \subseteq Answered(u) \cup D
  PROVE  AnsweredBut(s \o u, D)
PROOF
<1>1. /\ DOMAIN s = 1 .. Len(s) /\ DOMAIN u = 1 .. Len(u) /\ Len(s) \in Nat /\ Len(u) \in Nat
      /\ DOMAIN (s \o u) = 1 .. (Len(s) + Len(u))
      /\ \A i \in 1 .. Len(s) : (s \o u)[i] = s[i]
      /\ \A i \in 1 .. (Len(s) + Len(u)) : i > Len(s) => (s \o u)[i] = u[i - Len(s)]
  OBVIOUS
<1> DEFINE w == s \o u
<1>2. Answered(w) = Answered(s) \cup Answered(u)
  BY ConcatAnswered
<1> HIDE DEF w
<1> SUFFICES ASSUME NEW i \in DOMAIN w, w[i].kind = "calls"
             PROVE  Ids(w[i]) \subseteq Answered(w) \cup D
  BY DEF AnsweredBut, w
<1>3. CASE i <= Len(s)
  <2>1. i \in DOMAIN s /\ w[i] = s[i]
    BY <1>1, <1>3 DEF w
  <2> QED BY <2>1, <1>2 DEF AnsweredBut
<1>4. CASE i > Len(s)
  <2>1. i - Len(s) \in DOMAIN u /\ w[i] = u[i - Len(s)]
    BY <1>1, <1>4 DEF w
  <2> QED BY <2>1, <1>2
<1> QED BY <1>1, <1>3, <1>4 DEF w

\* Calls nobody has answered in either part.
LEMMA ConcatOpen ==
  ASSUME NEW s \in Seq(Messages), NEW u \in Seq(Messages), NEW C, Open(s, C), Open(u, C)
  PROVE  Open(s \o u, C)
PROOF
<1>1. /\ DOMAIN s = 1 .. Len(s) /\ DOMAIN u = 1 .. Len(u) /\ Len(s) \in Nat /\ Len(u) \in Nat
      /\ DOMAIN (s \o u) = 1 .. (Len(s) + Len(u))
      /\ \A i \in 1 .. Len(s) : (s \o u)[i] = s[i]
      /\ \A i \in 1 .. (Len(s) + Len(u)) : i > Len(s) => (s \o u)[i] = u[i - Len(s)]
  OBVIOUS
<1> DEFINE w == s \o u
<1> HIDE DEF w
<1> SUFFICES ASSUME NEW i \in DOMAIN w, Ids(w[i]) \cap C # {}
             PROVE  w[i].kind = "calls"
  BY DEF Open, w
<1>3. CASE i <= Len(s)
  <2>1. i \in DOMAIN s /\ w[i] = s[i]
    BY <1>1, <1>3 DEF w
  <2> QED BY <2>1 DEF Open
<1>4. CASE i > Len(s)
  <2>1. i - Len(s) \in DOMAIN u /\ w[i] = u[i - Len(s)]
    BY <1>1, <1>4 DEF w
  <2> QED BY <2>1 DEF Open
<1> QED BY <1>1, <1>3, <1>4 DEF w

\* Messages with no id in common may come in any order, and so may the results of open calls
\* after everything else.
LEMMA BeforeByIds ==
  ASSUME NEW s \in Seq(Messages), NEW u \in Seq(Messages)
  PROVE  /\ Carried(s) \cap Carried(u) = {} => Before(s, u)
         /\ Open(s, Carried(u)) /\ (\A j \in DOMAIN u : u[j].kind = "result") => Before(s, u)
PROOF
<1>1. ASSUME NEW i \in DOMAIN s, NEW j \in DOMAIN u
      PROVE  Ids(s[i]) \subseteq Carried(s) /\ Ids(u[j]) \subseteq Carried(u)
  BY DEF Carried
<1> QED BY <1>1 DEF Before, Apart, Open

(***************************************************************************)
(* What the context keeps of a history.                                    *)
(***************************************************************************)

\* Some of the elements of u, in their order.
Sub(s, u) ==
  \E e \in [DOMAIN s -> DOMAIN u] :
    /\ \A k, l \in DOMAIN s : k < l => e[k] < e[l]
    /\ \A k \in DOMAIN s : s[k] = u[e[k]]

\* What is kept of a sequence is in the order of the sequence.
LEMMA KeptSub ==
  ASSUME NEW Set_, NEW s \in Seq(Set_), NEW S \in SUBSET (DOMAIN s)
  PROVE  Sub(Keep(s, S), s)
PROOF
<1>1. PICK e : Lists(e, S) /\ \A k \in 1 .. Cardinality(S) : Keep(s, S)[k] = s[e[k]]
  BY Kept
<1>2. DOMAIN Keep(s, S) = 1 .. Cardinality(S)
  BY Kept
<1>3. e \in [DOMAIN Keep(s, S) -> DOMAIN s]
  BY <1>1, <1>2 DEF Lists
<1> QED BY <1>1, <1>2, <1>3 DEF Sub, Lists

\* Some messages of an ordered sequence are ordered.
LEMMA SubOrdered ==
  ASSUME NEW s \in Seq(Messages), NEW u \in Seq(Messages), Sub(s, u), Ordered(u)
  PROVE  Ordered(s)
PROOF
<1>1. PICK e \in [DOMAIN s -> DOMAIN u] :
        /\ \A k, l \in DOMAIN s : k < l => e[k] < e[l]
        /\ \A k \in DOMAIN s : s[k] = u[e[k]]
  BY DEF Sub
<1> SUFFICES ASSUME NEW k \in DOMAIN s, NEW l \in DOMAIN s, k < l PROVE Apart(s[k], s[l])
  BY DEF Ordered
<1>2. e[k] \in DOMAIN u /\ e[l] \in DOMAIN u /\ e[k] < e[l]
  BY <1>1
<1>3. Apart(u[e[k]], u[e[l]])
  BY <1>2 DEF Ordered
<1> QED BY <1>1, <1>3

\* Some messages of a sequence carry some of its ids.
LEMMA SubCarried ==
  ASSUME NEW s, NEW u, Sub(s, u)
  PROVE  Carried(s) \subseteq Carried(u)
PROOF
<1>1. PICK e \in [DOMAIN s -> DOMAIN u] : \A k \in DOMAIN s : s[k] = u[e[k]]
  BY DEF Sub
<1>2. ASSUME NEW k \in DOMAIN s PROVE Ids(s[k]) \subseteq Carried(u)
  <2>1. e[k] \in DOMAIN u /\ s[k] = u[e[k]]
    BY <1>1
  <2> QED BY <2>1 DEF Carried
<1> QED BY <1>2 DEF Carried

-----------------------------------------------------------------------------
\* What the second pass over the history leaves is whole.
LEMMA Sanitized ==
  ASSUME NEW ms \in Seq(Messages), Ordered(ms)
  PROVE  /\ Sanitize(ms) \in Seq(Messages) /\ Sub(Sanitize(ms), ms)
         /\ Called(Sanitize(ms)) /\ AnsweredBut(Sanitize(ms), {})
PROOF
<1> DEFINE whole == {i \in DOMAIN ms : ms[i].kind = "calls" /\ Ids(ms[i]) \subseteq Answered(ms)}
           S == {i \in DOMAIN ms :
                    /\ ms[i].kind = "calls" => i \in whole
                    /\ ms[i].kind = "result" => \E j \in whole : j < i /\ Ids(ms[i]) \subseteq Ids(ms[j])}
           out == Sanitize(ms)
<1>1. out = Keep(ms, S) /\ S \in SUBSET (DOMAIN ms)
  BY DEF Sanitize
<1>0. \A i \in DOMAIN ms :
         i \in S <=> ( /\ (ms[i].kind = "calls" => i \in whole)
                      /\ (ms[i].kind = "result" => \E j \in whole : j < i /\ Ids(ms[i]) \subseteq Ids(ms[j])) )
  OBVIOUS
<1> HIDE DEF S, out
<1>2. DOMAIN ms = 1 .. Len(ms) /\ Len(ms) \in Nat
  OBVIOUS
<1>3. out \in Seq(Messages) /\ DOMAIN out = 1 .. Cardinality(S) /\ Cardinality(S) \in Nat
  BY <1>1, Kept
<1>4. PICK e : Lists(e, S) /\ \A k \in 1 .. Cardinality(S) : out[k] = ms[e[k]]
  BY <1>1, Kept
<1>5. \A k \in DOMAIN out : e[k] \in S /\ e[k] \in DOMAIN ms /\ out[k] = ms[e[k]]
  BY <1>1, <1>3, <1>4 DEF Lists
<1>6. ASSUME NEW i \in S PROVE \E k \in DOMAIN out : e[k] = i /\ out[k] = ms[i]
  BY <1>3, <1>4 DEF Lists
<1>7. \A k, l \in DOMAIN out : e[k] < e[l] => k < l
  <2> SUFFICES ASSUME NEW k \in DOMAIN out, NEW l \in DOMAIN out, e[k] < e[l], ~(k < l) PROVE FALSE
    OBVIOUS
  <2>1. k = l \/ l < k
    BY <1>3
  <2>2. l < k => e[l] < e[k]
    BY <1>3, <1>4 DEF Lists
  <2>3. e[k] \in Nat /\ e[l] \in Nat
    BY <1>2, <1>5
  <2> QED BY <2>1, <2>2, <2>3
<1>8. \A i \in whole : i \in S
  BY <1>0
<1>9. Called(out)
  <2> SUFFICES ASSUME NEW l \in DOMAIN out, out[l].kind = "result"
               PROVE  \E k \in DOMAIN out : k < l /\ out[k].kind = "calls" /\ Ids(out[l]) \subseteq Ids(out[k])
    BY DEF Called
  <2>1. PICK j \in whole : j < e[l] /\ Ids(ms[e[l]]) \subseteq Ids(ms[j])
    BY <1>5, <1>0
  <2>2. PICK k \in DOMAIN out : e[k] = j /\ out[k] = ms[j]
    BY <1>6, <1>8
  <2> QED BY <1>5, <1>7, <2>1, <2>2
<1>10. AnsweredBut(out, {})
  <2> SUFFICES ASSUME NEW k \in DOMAIN out, out[k].kind = "calls", NEW c \in Ids(out[k])
               PROVE  c \in Answered(out)
    BY DEF AnsweredBut
  <2>1. e[k] \in whole /\ e[k] \in DOMAIN ms /\ out[k] = ms[e[k]]
    BY <1>5, <1>0
  <2>2. PICK j \in DOMAIN ms : ms[j].kind = "result" /\ c \in Ids(ms[j])
    BY <2>1 DEF Answered
  <2>3. e[k] < j
    <3>1. e[k] # j
      BY <2>1, <2>2
    <3>2. ~(j < e[k])
      <4> SUFFICES ASSUME j < e[k] PROVE FALSE
        OBVIOUS
      <4>1. Apart(ms[j], ms[e[k]])
        BY <2>1 DEF Ordered
      <4> QED BY <4>1, <2>1, <2>2 DEF Apart
    <3> QED BY <3>1, <3>2, <2>1, <1>2
  <2>4. Ids(ms[j]) = {c}
    <3>1. ms[j] \in Messages
      BY <1>2
    <3> QED BY <3>1, <2>2, MessageForms
  <2>5. j \in S
    BY <2>1, <2>2, <2>3, <2>4, <1>0
  <2>6. PICK l \in DOMAIN out : out[l] = ms[j]
    BY <2>5, <1>6
  <2> QED BY <2>2, <2>6 DEF Answered
<1>11. Sub(out, ms)
  BY <1>1, KeptSub
<1> QED BY <1>3, <1>9, <1>10, <1>11 DEF out

-----------------------------------------------------------------------------
\* What trimming leaves is as whole as it was, and nothing moves back.
LEMMA Trimmed ==
  ASSUME NEW ms \in Seq(Messages), Ordered(ms), Called(ms), AnsweredBut(ms, {})
  PROVE  /\ Trim(ms) \in Seq(Messages) /\ Sub(Trim(ms), ms)
         /\ Called(Trim(ms)) /\ AnsweredBut(Trim(ms), {})
         /\ \E e \in [DOMAIN Trim(ms) -> DOMAIN ms] :
               /\ \A k, l \in DOMAIN Trim(ms) : k < l => e[k] < e[l]
               /\ \A k \in DOMAIN Trim(ms) : k <= e[k] /\ Trim(ms)[k] = ms[e[k]]
PROOF
<1> DEFINE Head_(k) == /\ \A i \in 1 .. k : ms[i].kind = "system"
                       /\ k = Len(ms) \/ ms[k + 1].kind # "system"
           front == CHOOSE k \in 0 .. Len(ms) : Head_(k)
           over  == IF Len(ms) > Budget THEN Len(ms) - Budget ELSE 0
           last  == IF front + over > Len(ms) THEN Len(ms) ELSE front + over
           gone  == UNION {Ids(ms[i]) : i \in {j \in (front + 1) .. last : ms[j].kind = "calls"}}
           S == {i \in DOMAIN ms :
                    \/ i <= front
                    \/ i > last /\ ~(ms[i].kind = "result" /\ Ids(ms[i]) \subseteq gone)}
           out == Trim(ms)
<1>1. out = Keep(ms, S) /\ S \in SUBSET (DOMAIN ms)
  BY DEF Trim
<1>0. \A i \in DOMAIN ms :
         i \in S <=> (i <= front \/ (i > last /\ ~(ms[i].kind = "result" /\ Ids(ms[i]) \subseteq gone)))
  OBVIOUS
<1> HIDE DEF S, out
<1>2. DOMAIN ms = 1 .. Len(ms) /\ Len(ms) \in Nat
  OBVIOUS
<1>3. \E k \in 0 .. Len(ms) : Head_(k)
  <2> DEFINE T == {k \in 0 .. Len(ms) : k = Len(ms) \/ ms[k + 1].kind # "system"}
  <2>1. T \in SUBSET Nat /\ Len(ms) \in T
    BY <1>2
  <2>0. \A k \in T : k \in 0 .. Len(ms) /\ (k = Len(ms) \/ ms[k + 1].kind # "system")
    OBVIOUS
  <2>4. \A k \in 0 .. Len(ms) : ms[k + 1].kind # "system" => k \in T
    OBVIOUS
  <2> HIDE DEF T
  <2>2. PICK k \in T : \A n \in T : k <= n
    BY <2>1, Least
  <2>3. \A i \in 1 .. k : ms[i].kind = "system"
    <3> SUFFICES ASSUME NEW i \in 1 .. k, ms[i].kind # "system" PROVE FALSE
      OBVIOUS
    <3>1. k \in 0 .. Len(ms)
      BY <2>0
    <3>2. i - 1 \in 0 .. Len(ms) /\ (i - 1) + 1 = i /\ i - 1 < k
      BY <1>2, <3>1
    <3>3. i - 1 \in T
      BY <3>2, <2>4
    <3> QED BY <2>2, <3>1, <3>2, <3>3
  <2> QED BY <2>0, <2>2, <2>3
<1>4. front \in 0 .. Len(ms) /\ \A i \in 1 .. front : ms[i].kind = "system"
  BY <1>3
<1> HIDE DEF front, Head_
<1>5. last \in front .. Len(ms)
  BY <1>2, <1>4, TurnAssumption
<1> HIDE DEF over, last
<1>6. out \in Seq(Messages) /\ DOMAIN out = 1 .. Cardinality(S) /\ Cardinality(S) \in Nat
  BY <1>1, Kept
<1>7. PICK e : Lists(e, S) /\ \A k \in 1 .. Cardinality(S) : out[k] = ms[e[k]]
  BY <1>1, Kept
<1>8. \A k \in DOMAIN out : e[k] \in S /\ e[k] \in DOMAIN ms /\ out[k] = ms[e[k]] /\ k <= e[k]
  BY <1>1, <1>6, <1>7 DEF Lists
<1>9. ASSUME NEW i \in S PROVE \E k \in DOMAIN out : e[k] = i /\ out[k] = ms[i]
  BY <1>6, <1>7 DEF Lists
<1>10. \A k, l \in DOMAIN out : (k < l => e[k] < e[l]) /\ (e[k] < e[l] => k < l)
  <2> SUFFICES ASSUME NEW k \in DOMAIN out, NEW l \in DOMAIN out
               PROVE  (k < l => e[k] < e[l]) /\ (e[k] < e[l] => k < l)
    OBVIOUS
  <2>1. (k < l => e[k] < e[l]) /\ (l < k => e[l] < e[k])
    BY <1>6, <1>7 DEF Lists
  <2>2. e[k] \in Nat /\ e[l] \in Nat /\ k \in Nat /\ l \in Nat
    BY <1>2, <1>6, <1>8
  <2> QED BY <2>1, <2>2
\* A call that stays was after the cut, and one that went takes its answers along.
<1>11. \A i \in S : ms[i].kind # "system" => i > last /\ ~(ms[i].kind = "result" /\ Ids(ms[i]) \subseteq gone)
  BY <1>0, <1>1, <1>2, <1>4
<1>12. \A i \in DOMAIN ms : i <= last /\ ms[i].kind = "calls" => Ids(ms[i]) \subseteq gone
  <2> SUFFICES ASSUME NEW i \in DOMAIN ms, i <= last, ms[i].kind = "calls" PROVE Ids(ms[i]) \subseteq gone
    OBVIOUS
  <2>1. ~(i \in 1 .. front)
    BY <1>4
  <2>2. i \in (front + 1) .. last
    BY <2>1, <1>2, <1>4, <1>5
  <2> QED BY <2>2
<1>13. Called(out)
  <2> SUFFICES ASSUME NEW l \in DOMAIN out, out[l].kind = "result"
               PROVE  \E k \in DOMAIN out : k < l /\ out[k].kind = "calls" /\ Ids(out[l]) \subseteq Ids(out[k])
    BY DEF Called
  <2>1. e[l] \in S /\ e[l] \in DOMAIN ms /\ out[l] = ms[e[l]] /\ ms[e[l]].kind = "result"
    BY <1>8
  <2>2. PICK j \in DOMAIN ms : j < e[l] /\ ms[j].kind = "calls" /\ Ids(ms[e[l]]) \subseteq Ids(ms[j])
    BY <2>1 DEF Called
  <2>3. ~(Ids(ms[e[l]]) \subseteq gone)
    BY <2>1, <1>11
  <2>4. j > last
    BY <2>2, <2>3, <1>2, <1>5, <1>12
  <2>5. j \in S
    BY <2>2, <2>4, <1>0
  <2>6. PICK k \in DOMAIN out : e[k] = j /\ out[k] = ms[j]
    BY <2>5, <1>9
  <2> QED BY <2>1, <2>2, <2>6, <1>10
<1>14. AnsweredBut(out, {})
  <2> SUFFICES ASSUME NEW k \in DOMAIN out, out[k].kind = "calls", NEW c \in Ids(out[k])
               PROVE  c \in Answered(out)
    BY DEF AnsweredBut
  <2>1. e[k] \in S /\ e[k] \in DOMAIN ms /\ out[k] = ms[e[k]] /\ ms[e[k]].kind = "calls"
    BY <1>8
  <2>2. PICK j \in DOMAIN ms : ms[j].kind = "result" /\ c \in Ids(ms[j])
    BY <2>1 DEF AnsweredBut, Answered
  <2>3. e[k] < j
    <3>1. e[k] # j
      BY <2>1, <2>2
    <3>2. ~(j < e[k])
      <4> SUFFICES ASSUME j < e[k] PROVE FALSE
        OBVIOUS
      <4>1. Apart(ms[j], ms[e[k]])
        BY <2>1 DEF Ordered
      <4> QED BY <4>1, <2>1, <2>2 DEF Apart
    <3> QED BY <3>1, <3>2, <2>1, <1>2
  <2>4. c \notin gone
    <3> SUFFICES ASSUME NEW i \in (front + 1) .. last, ms[i].kind = "calls", c \in Ids(ms[i]) PROVE FALSE
      OBVIOUS
    <3>1. i \in DOMAIN ms /\ i < e[k]
      BY <1>2, <1>4, <1>5, <1>11, <2>1
    <3>2. Apart(ms[i], ms[e[k]])
      BY <3>1, <2>1 DEF Ordered
    <3> QED BY <3>2, <2>1 DEF Apart
  <2>5. j > last
    BY <2>1, <2>3, <1>2, <1>5, <1>11
  <2>6. j \in S
    BY <2>2, <2>4, <2>5, <1>0
  <2>7. PICK l \in DOMAIN out : out[l] = ms[j]
    BY <2>6, <1>9
  <2> QED BY <2>2, <2>7 DEF Answered
<1>15. Sub(out, ms)
  BY <1>1, KeptSub
<1>16. e \in [DOMAIN out -> DOMAIN ms]
  BY <1>1, <1>6, <1>7 DEF Lists
<1> QED BY <1>6, <1>8, <1>10, <1>13, <1>14, <1>15, <1>16 DEF out

(***************************************************************************)
(* What is stored, and the calls of one answer.                            *)
(***************************************************************************)

StoredRows == [m : Messages, by : Turns, compacted : BOOLEAN]
MessagesOf(rs) == [i \in DOMAIN rs |-> rs[i].m]
Stored == MessagesOf(rows)

\* The messages of rows are a sequence as long.
LEMMA StoredTyped ==
  ASSUME NEW rs \in Seq(StoredRows)
  PROVE  MessagesOf(rs) \in Seq(Messages) /\ Len(MessagesOf(rs)) = Len(rs)
PROOF
<1>1. Len(rs) \in Nat /\ DOMAIN rs = 1 .. Len(rs) /\ \A i \in DOMAIN rs : rs[i] \in StoredRows
  OBVIOUS
<1>2. \A i \in DOMAIN rs : rs[i].m \in Messages
  BY <1>1 DEF StoredRows
<1>3. MessagesOf(rs) = [i \in 1 .. Len(rs) |-> rs[i].m]
  BY <1>1 DEF MessagesOf
<1>4. MessagesOf(rs) \in [1 .. Len(rs) -> Messages]
  BY <1>1, <1>2, <1>3
<1> QED BY <1>1, <1>3, <1>4

\* The history of a thread is some of what is stored, in the order it was stored.
LEMMA HistoryRead ==
  ASSUME rows \in Seq(StoredRows)
  PROVE  History \in Seq(Messages) /\ Sub(History, Stored)
PROOF
<1> DEFINE S == {i \in DOMAIN rows : ~rows[i].compacted}
           live == Keep(rows, S)
           first == IF Len(live) > HistoryLimit THEN Len(live) - HistoryLimit + 1 ELSE 1
           n == Len(live) - first + 1
<1>1. S \in SUBSET (DOMAIN rows)
  OBVIOUS
<1>2. History = [i \in 1 .. n |-> live[first + i - 1].m]
  BY DEF History
<1> HIDE DEF S
<1>3. /\ live \in Seq(StoredRows) /\ Len(live) \in Nat /\ DOMAIN live = 1 .. Len(live)
      /\ Sub(live, rows)
  BY <1>1, Kept, KeptSub
<1>4. PICK e \in [DOMAIN live -> DOMAIN rows] :
        /\ \A k, l \in DOMAIN live : k < l => e[k] < e[l]
        /\ \A k \in DOMAIN live : live[k] = rows[e[k]]
  BY <1>3 DEF Sub
<1> HIDE DEF live
<1>5. n \in Nat /\ first \in Nat \ {0}
  BY <1>3, TurnAssumption
<1>6. ASSUME NEW i \in 1 .. n PROVE first + i - 1 \in DOMAIN live
  BY <1>3, <1>5
<1> HIDE DEF first, n
<1>14. \A k \in DOMAIN live : live[k] \in StoredRows
  BY <1>3
<1>15. \A k \in DOMAIN live : live[k].m \in Messages
  BY <1>14 DEF StoredRows
<1>7. \A i \in 1 .. n : live[first + i - 1].m \in Messages /\ History[i] = live[first + i - 1].m
  BY <1>2, <1>6, <1>15
<1>8. History \in [1 .. n -> Messages] /\ DOMAIN History = 1 .. n
  BY <1>2, <1>7
<1>9. History \in Seq(Messages)
  BY <1>5, <1>8
<1> DEFINE d == [i \in 1 .. n |-> e[first + i - 1]]
<1>10. d \in [DOMAIN History -> DOMAIN Stored]
  BY <1>4, <1>6, <1>8 DEF Stored, MessagesOf
<1>11. \A k, l \in 1 .. n : k < l => d[k] < d[l]
  <2> SUFFICES ASSUME NEW k \in 1 .. n, NEW l \in 1 .. n, k < l PROVE d[k] < d[l]
    OBVIOUS
  <2>1. first + k - 1 \in DOMAIN live /\ first + l - 1 \in DOMAIN live
    BY <1>6
  <2>2. first + k - 1 < first + l - 1
    <3>1. k \in Nat /\ l \in Nat /\ first \in Nat
      BY <1>5
    <3> QED BY <3>1
  <2> QED BY <2>1, <2>2, <1>4
<1>12. \A k \in 1 .. n : History[k] = Stored[d[k]]
  BY <1>4, <1>6, <1>7 DEF Stored, MessagesOf
<1> HIDE DEF d
<1> QED BY <1>8, <1>9, <1>10, <1>11, <1>12 DEF Sub

-----------------------------------------------------------------------------
Distinct(cs) == \A i, j \in DOMAIN cs : cs[i] = cs[j] => i = j

\* Some calls of a batch, in its order, and only once each.
LEMMA AmongCalls ==
  ASSUME NEW cs \in Seq(Calls), Distinct(cs), NEW C
  PROVE  Among(cs, C) \in Seq(Calls) /\ Distinct(Among(cs, C)) /\ ToSet(Among(cs, C)) = ToSet(cs) \cap C
PROOF
<1> DEFINE S == {i \in DOMAIN cs : cs[i] \in C}
           out == Among(cs, C)
<1>1. out = Keep(cs, S) /\ S \in SUBSET (DOMAIN cs)
  BY DEF Among
<1>2. \A i \in DOMAIN cs : i \in S <=> cs[i] \in C
  OBVIOUS
<1> HIDE DEF S, out
<1>3. out \in Seq(Calls) /\ DOMAIN out = 1 .. Cardinality(S) /\ Cardinality(S) \in Nat
  BY <1>1, Kept
<1>4. PICK e : Lists(e, S) /\ \A k \in 1 .. Cardinality(S) : out[k] = cs[e[k]]
  BY <1>1, Kept
<1>5. \A k \in DOMAIN out : e[k] \in S /\ e[k] \in DOMAIN cs /\ out[k] = cs[e[k]]
  BY <1>1, <1>3, <1>4 DEF Lists
<1>6. \A i \in S : \E k \in DOMAIN out : out[k] = cs[i]
  BY <1>3, <1>4 DEF Lists
<1>7. Distinct(out)
  <2> SUFFICES ASSUME NEW k \in DOMAIN out, NEW l \in DOMAIN out, out[k] = out[l], k # l PROVE FALSE
    BY DEF Distinct
  <2>1. e[k] = e[l]
    BY <1>5 DEF Distinct
  <2>2. k < l \/ l < k
    BY <1>3
  <2>3. (k < l => e[k] < e[l]) /\ (l < k => e[l] < e[k])
    BY <1>3, <1>4 DEF Lists
  <2>4. e[k] \in Nat
    <3>1. e[k] \in 1 .. Len(cs)
      BY <1>5
    <3> QED BY <3>1
  <2> QED BY <2>1, <2>2, <2>3, <2>4
<1>8. ToSet(out) = ToSet(cs) \cap C
  <2>1. \A k \in DOMAIN out : out[k] \in ToSet(cs) \cap C
    BY <1>2, <1>5 DEF ToSet
  <2>2. \A i \in DOMAIN cs : cs[i] \in C => \E k \in DOMAIN out : out[k] = cs[i]
    BY <1>2, <1>6
  <2> QED BY <2>1, <2>2 DEF ToSet
<1> QED BY <1>3, <1>7, <1>8 DEF out

\* One result to each call.
LEMMA ResultsOf ==
  ASSUME NEW cs \in Seq(Calls), Distinct(cs)
  PROVE  /\ Results(cs) \in Seq(Messages) /\ DOMAIN Results(cs) = DOMAIN cs
         /\ \A i \in DOMAIN cs : Results(cs)[i].kind = "result" /\ Ids(Results(cs)[i]) = {cs[i]}
         /\ Carried(Results(cs)) = ToSet(cs) /\ Answered(Results(cs)) = ToSet(cs)
         /\ Ordered(Results(cs))
PROOF
<1> DEFINE out == Results(cs)
<1>1. Len(cs) \in Nat /\ DOMAIN cs = 1 .. Len(cs) /\ \A i \in DOMAIN cs : cs[i] \in Calls
  OBVIOUS
<1>2. out = [i \in 1 .. Len(cs) |-> Result(cs[i])]
  BY <1>1 DEF Results
<1>3. \A i \in DOMAIN cs : Result(cs[i]) \in Messages /\ Result(cs[i]).kind = "result" /\ Ids(Result(cs[i])) = {cs[i]}
  BY <1>1, Forms
<1>4. out \in [1 .. Len(cs) -> Messages]
  BY <1>1, <1>2, <1>3
<1>5. out \in Seq(Messages) /\ DOMAIN out = DOMAIN cs
  BY <1>1, <1>2, <1>4
<1>6. \A i \in DOMAIN out : out[i].kind = "result" /\ Ids(out[i]) = {cs[i]}
  BY <1>1, <1>2, <1>3
<1> HIDE DEF out
<1>7. Carried(out) = ToSet(cs) /\ Answered(out) = ToSet(cs)
  BY <1>5, <1>6 DEF Carried, Answered, ToSet
<1>8. Ordered(out)
  <2> SUFFICES ASSUME NEW i \in DOMAIN out, NEW j \in DOMAIN out, i < j PROVE Apart(out[i], out[j])
    BY DEF Ordered
  <2>1. cs[i] # cs[j]
    BY <1>1, <1>5 DEF Distinct
  <2> QED BY <2>1, <1>6 DEF Apart
<1> QED BY <1>5, <1>6, <1>7, <1>8 DEF out

\* The message of some calls with the answers to those that were malformed.
LEMMA Told ==
  ASSUME NEW cs \in Seq(Calls), Distinct(cs), NEW inv \in Seq(Calls), Distinct(inv), ToSet(inv) \subseteq ToSet(cs)
  PROVE  LET new == <<Calling(cs)>> \o Results(inv)
         IN  /\ new \in Seq(Messages) /\ DOMAIN new = 1 .. (Len(inv) + 1) /\ Len(inv) \in Nat
             /\ new[1] = Calling(cs)
             /\ \A i \in DOMAIN new : i # 1 => new[i].kind = "result" /\ Ids(new[i]) \subseteq ToSet(cs)
             /\ Carried(new) = ToSet(cs) /\ Answered(new) = ToSet(inv)
             /\ Ordered(new)
PROOF
<1> DEFINE one == <<Calling(cs)>>
           out == Results(inv)
           new == one \o out
<1>1. /\ out \in Seq(Messages) /\ DOMAIN out = DOMAIN inv /\ Len(inv) \in Nat /\ DOMAIN inv = 1 .. Len(inv)
      /\ \A i \in DOMAIN inv : out[i].kind = "result" /\ Ids(out[i]) = {inv[i]}
      /\ Carried(out) = ToSet(inv) /\ Answered(out) = ToSet(inv) /\ Ordered(out)
  <2>1. Len(inv) \in Nat /\ DOMAIN inv = 1 .. Len(inv)
    OBVIOUS
  <2> QED BY <2>1, ResultsOf
<1>2. Calling(cs) \in Messages /\ Calling(cs).kind = "calls" /\ Ids(Calling(cs)) = ToSet(cs)
  BY Forms
<1>3. one \in Seq(Messages) /\ Len(one) = 1 /\ DOMAIN one = {1} /\ one[1] = Calling(cs)
  BY <1>2
<1>4. Len(out) = Len(inv)
  BY <1>1
<1> HIDE DEF out, one
<1>13. one \in Seq(Messages) /\ out \in Seq(Messages)
  BY <1>1, <1>3
<1>5. new \in Seq(Messages) /\ Len(new) = Len(inv) + 1 /\ DOMAIN new = 1 .. (Len(inv) + 1)
  <2>1. new \in Seq(Messages) /\ Len(new) = Len(one) + Len(out) /\ DOMAIN new = 1 .. (Len(one) + Len(out))
    BY <1>13
  <2> QED BY <2>1, <1>1, <1>3, <1>4
<1>14. \A i \in 1 .. (Len(inv) + 1) : new[i] = IF i <= 1 THEN one[i] ELSE out[i - 1]
  <2>1. \A i \in 1 .. (Len(one) + Len(out)) : new[i] = IF i <= Len(one) THEN one[i] ELSE out[i - Len(one)]
    BY <1>13
  <2> HIDE DEF new
  <2> QED BY <2>1, <1>1, <1>3, <1>4
<1> HIDE DEF new
<1>6. new[1] = Calling(cs)
  BY <1>1, <1>3, <1>14
<1>7. \A i \in DOMAIN new : i # 1 => i - 1 \in DOMAIN inv /\ new[i] = out[i - 1]
  BY <1>1, <1>5, <1>14
<1>8. \A i \in DOMAIN inv : inv[i] \in ToSet(cs)
  BY DEF ToSet
<1>9. Carried(one) = ToSet(cs) /\ Answered(one) = {} /\ Ordered(one)
  BY <1>2, <1>3 DEF Carried, Answered, Ordered
<1>10. Before(one, out)
  BY <1>1, <1>2, <1>3 DEF Before, Apart
<1>11. Carried(new) = ToSet(cs) /\ Answered(new) = ToSet(inv) /\ Ordered(new)
  <2>1. Carried(new) = Carried(one) \cup Carried(out)
    BY <1>13, ConcatCarried DEF new
  <2>2. Answered(new) = Answered(one) \cup Answered(out)
    BY <1>13, ConcatAnswered DEF new
  <2>3. Ordered(new)
    BY <1>1, <1>9, <1>10, <1>13, ConcatOrdered DEF new
  <2> QED BY <2>1, <2>2, <2>3, <1>1, <1>9
<1>12. \A i \in DOMAIN new : i # 1 => new[i].kind = "result" /\ Ids(new[i]) \subseteq ToSet(cs)
  BY <1>1, <1>7, <1>8
<1> QED BY <1>1, <1>5, <1>6, <1>11, <1>12 DEF new, one, out

-----------------------------------------------------------------------------
\* The messages of a turn's own that call tools.
OwnCalls(ms, t) == {i \in DOMAIN ms : \E c \in Ids(ms[i]) : ms[i].kind = "calls" /\ c.by = t}

\* A turn has finitely many calling messages of its own.
LEMMA OwnFinite ==
  ASSUME NEW ms \in Seq(Messages), NEW t
  PROVE  IsFiniteSet(OwnCalls(ms, t)) /\ Cardinality(OwnCalls(ms, t)) \in Nat
PROOF
<1>1. IsFiniteSet(1 .. Len(ms))
  BY FS_Interval, 1 \in Int, Len(ms) \in Int
<1>2. OwnCalls(ms, t) \in SUBSET (1 .. Len(ms))
  BY DEF OwnCalls
<1> QED BY <1>1, <1>2, FS_Subset, FS_CardinalityType

\* Cutting a conversation adds no call to it.
LEMMA OwnSub ==
  ASSUME NEW s \in Seq(Messages), NEW u \in Seq(Messages), NEW t, Sub(s, u)
  PROVE  Cardinality(OwnCalls(s, t)) <= Cardinality(OwnCalls(u, t))
PROOF
<1>1. PICK e \in [DOMAIN s -> DOMAIN u] :
        /\ \A k, l \in DOMAIN s : k < l => e[k] < e[l]
        /\ \A k \in DOMAIN s : s[k] = u[e[k]]
  BY DEF Sub
<1> DEFINE A == OwnCalls(s, t)
           B == OwnCalls(u, t)
           f == [k \in A |-> e[k]]
<1>2. f \in [A -> B]
  BY <1>1 DEF OwnCalls
<1>3. \A k, l \in A : f[k] = f[l] => k = l
  <2> SUFFICES ASSUME NEW k \in A, NEW l \in A, e[k] = e[l], k # l PROVE FALSE
    OBVIOUS
  <2>1. k \in DOMAIN s /\ l \in DOMAIN s /\ k \in Nat /\ l \in Nat
    BY DEF OwnCalls
  <2>2. k < l \/ l < k
    BY <2>1
  <2>3. e[k] \in DOMAIN u /\ DOMAIN u = 1 .. Len(u)
    BY <1>1, <2>1
  <2>4. e[k] \in Nat
    BY <2>3
  <2> QED BY <1>1, <2>1, <2>2, <2>4
<1>4. f \in Injection(A, B)
  BY <1>2, <1>3 DEF Injection, IsInjective
<1> QED BY <1>4, OwnFinite, FS_Injection

\* One answer of the model adds at most one calling message.
LEMMA OwnConcat ==
  ASSUME NEW s \in Seq(Messages), NEW u \in Seq(Messages), NEW t
  PROVE  /\ (\A i \in DOMAIN u : u[i].kind # "calls") => OwnCalls(s \o u, t) = OwnCalls(s, t)
         /\ (\A i \in DOMAIN u : i # 1 => u[i].kind # "calls") =>
               Cardinality(OwnCalls(s \o u, t)) <= Cardinality(OwnCalls(s, t)) + 1
PROOF
<1>1. /\ DOMAIN s = 1 .. Len(s) /\ DOMAIN u = 1 .. Len(u) /\ Len(s) \in Nat /\ Len(u) \in Nat
      /\ DOMAIN (s \o u) = 1 .. (Len(s) + Len(u))
      /\ \A i \in 1 .. Len(s) : (s \o u)[i] = s[i]
      /\ \A i \in 1 .. (Len(s) + Len(u)) : i > Len(s) => (s \o u)[i] = u[i - Len(s)]
      /\ s \o u \in Seq(Messages)
  OBVIOUS
<1> DEFINE w == s \o u
<1> HIDE DEF w
<1>2. \A i \in DOMAIN s : i \in OwnCalls(w, t) <=> i \in OwnCalls(s, t)
  BY <1>1 DEF OwnCalls, w
<1>3. \A i \in DOMAIN w : i \notin DOMAIN s => i - Len(s) \in DOMAIN u /\ w[i] = u[i - Len(s)]
  BY <1>1 DEF w
<1>4. OwnCalls(s, t) \subseteq DOMAIN s /\ OwnCalls(w, t) \subseteq DOMAIN w
  BY DEF OwnCalls
<1>5. ASSUME \A i \in DOMAIN u : u[i].kind # "calls" PROVE OwnCalls(w, t) = OwnCalls(s, t)
  <2>1. \A i \in DOMAIN w : i \notin DOMAIN s => i \notin OwnCalls(w, t)
    BY <1>3, <1>5 DEF OwnCalls
  <2> QED BY <2>1, <1>2, <1>4
<1>6. ASSUME \A i \in DOMAIN u : i # 1 => u[i].kind # "calls"
      PROVE  Cardinality(OwnCalls(w, t)) <= Cardinality(OwnCalls(s, t)) + 1
  <2>1. \A i \in DOMAIN w : i \notin DOMAIN s /\ i # Len(s) + 1 => i \notin OwnCalls(w, t)
    <3> SUFFICES ASSUME NEW i \in DOMAIN w, i \notin DOMAIN s, i # Len(s) + 1 PROVE i \notin OwnCalls(w, t)
      OBVIOUS
    <3>1. i - Len(s) \in DOMAIN u /\ w[i] = u[i - Len(s)] /\ i - Len(s) # 1
      BY <1>1, <1>3 DEF w
    <3> QED BY <3>1, <1>6 DEF OwnCalls
  <2>2. OwnCalls(w, t) \in SUBSET (OwnCalls(s, t) \cup {Len(s) + 1})
    BY <2>1, <1>2, <1>4
  <2>3. /\ IsFiniteSet(OwnCalls(s, t) \cup {Len(s) + 1}) /\ Cardinality(OwnCalls(s, t)) \in Nat
        /\ Cardinality(OwnCalls(s, t) \cup {Len(s) + 1}) <= Cardinality(OwnCalls(s, t)) + 1
    <3>1. IsFiniteSet(OwnCalls(s, t)) /\ Cardinality(OwnCalls(s, t)) \in Nat
      BY OwnFinite
    <3>2. \A S : IsFiniteSet(S) => \A x : IsFiniteSet(S \cup {x}) /\ (Cardinality(S \cup {x}) = Cardinality(S) \/ Cardinality(S \cup {x}) = Cardinality(S) + 1)
      BY FS_AddElement
    <3> DEFINE O == OwnCalls(s, t)
    <3> HIDE DEF O
    <3>3. IsFiniteSet(O \cup {Len(s) + 1}) /\ (Cardinality(O \cup {Len(s) + 1}) = Cardinality(O) \/ Cardinality(O \cup {Len(s) + 1}) = Cardinality(O) + 1)
      BY <3>1, <3>2 DEF O
    <3> QED BY <3>1, <3>3 DEF O
  <2>4. Cardinality(OwnCalls(w, t)) <= Cardinality(OwnCalls(s, t) \cup {Len(s) + 1})
    BY <2>2, <2>3, FS_Subset
  <2>5. Cardinality(OwnCalls(w, t)) \in Nat /\ Cardinality(OwnCalls(s, t) \cup {Len(s) + 1}) \in Nat
    BY <1>1, <2>3, OwnFinite, FS_CardinalityType DEF w
  <2> QED BY <2>3, <2>4, <2>5
<1> QED BY <1>5, <1>6 DEF w

(***************************************************************************)
(* The inductive invariant of the turns.                                   *)
(***************************************************************************)

Places == {"idle", "routed", "context", "iterate", "chat", "fallback", "dispatch", "ask", "persist"} \cup Ended

TurnStates ==
  [pc : Places, kind : {"top", "delegated"}, parent : SUBSET Turns, ms : Seq(Messages), start : Nat, iter : Nat,
   batch : Seq(Calls), terminal : BOOLEAN, out : Seq(Messages), sent : Seq(Messages), ids : Seq(Nat)]

By(s, t) == \A c \in Carried(s) : c.by = t

\* The answers of a turn that called tools, the one under way included.
Rounds(r) == IF r.pc \in {"dispatch", "ask"} THEN r.iter + 1 ELSE r.iter
Numbered(s, t, k) == \A c \in Carried(s) : c.by = t => c.n <= k * MaxCalls

\* What the model was shown or told is in order.
Paired(r) == Ordered(r.ms) /\ Called(r.ms)

\* What is still to be stored is the turn's own, and follows what is stored.  Without a
\* thread nothing of a turn is stored before its loop has ended.
Sending(t, r, st) ==
  /\ Ordered(r.sent) /\ Before(st, r.sent) /\ By(r.sent, t)
  /\ ~threaded /\ r.pc \notin Ended \cup {"persist"} => r.sent = <<>> /\ \A c \in Carried(st) : c.by # t

\* Behind the history, everything is the turn's own.
OwnAfter(t, r) == \A i \in DOMAIN r.ms : i > r.start => \A c \in Ids(r.ms[i]) : c.by = t

Counts(t, r, st) ==
  r.pc \notin Ended \cup {"persist"} =>
    /\ Numbered(st, t, Rounds(r)) /\ Numbered(r.sent, t, Rounds(r)) /\ Numbered(r.ms, t, Rounds(r))
    /\ Cardinality(OwnCalls(r.ms, t)) <= Rounds(r)

\* Only the calls of the batch wait for their answer, unless the turn ends with them.
Whole(r) ==
  /\ r.pc \in {"iterate", "chat", "fallback"} => AnsweredBut(r.ms, {})
  /\ r.pc \in {"dispatch", "ask"} /\ ~r.terminal => AnsweredBut(r.ms, ToSet(r.batch))
  /\ r.terminal => r.pc \in {"ask", "persist"}

\* Nobody has answered them, and they were asked.
Waiting(t, r, st) ==
  r.pc \in {"dispatch", "ask"} =>
    /\ Distinct(r.batch)
    /\ \A c \in ToSet(r.batch) : c.by = t /\ \E i \in DOMAIN r.ms : r.ms[i].kind = "calls" /\ c \in Ids(r.ms[i])
    /\ Open(st, ToSet(r.batch)) /\ Open(r.sent, ToSet(r.batch)) /\ Open(r.ms, ToSet(r.batch))

Phases(t, r) ==
  /\ r.pc \in {"idle", "routed", "context"} => r.ms = <<>> /\ r.sent = <<>> /\ r.iter = 0
  /\ r.pc \in {"chat", "fallback"} /\ MaxIterations > 0 => r.iter < MaxIterations
  /\ r.pc = "persist" => Ordered(r.out) /\ By(r.out, t)

TurnInv(t, r, st) ==
  /\ Paired(r) /\ Sending(t, r, st) /\ OwnAfter(t, r) /\ Counts(t, r, st) /\ Whole(r) /\ Waiting(t, r, st) /\ Phases(t, r)

TurnsInv ==
  /\ threaded \in BOOLEAN
  /\ rows \in Seq(StoredRows) /\ Ordered(Stored)
  /\ turn \in [Turns -> TurnStates]
  /\ \A t \in Turns : TurnInv(t, turn[t], Stored)

(***************************************************************************)
(* The start of a turn.                                                    *)
(***************************************************************************)

\* The ids of one answer follow those of the answers before.
LEMMA RoundsTimes ==
  ASSUME NEW k \in Nat
  PROVE  k * MaxCalls \in Nat /\ (k + 1) * MaxCalls = k * MaxCalls + MaxCalls /\ MaxCalls \in Nat
PROOF
  BY TurnAssumption

\* A turn at rest.
LEMMA IdleTyped ==
  /\ Idle \in TurnStates
  /\ Idle.pc = "idle" /\ Idle.ms = <<>> /\ Idle.sent = <<>> /\ Idle.iter = 0 /\ Idle.terminal = FALSE
PROOF
  BY DEF Idle, TurnStates, Places, Ended

\* Everything holds of no messages.
LEMMA Nothing ==
  /\ Ordered(<<>>) /\ Called(<<>>) /\ AnsweredBut(<<>>, {}) /\ Carried(<<>>) = {}
  /\ \A s : Before(s, <<>>)
  /\ \A C : Open(<<>>, C)
  /\ \A t : OwnCalls(<<>>, t) = {}
  /\ ToSet(<<>>) = {}
PROOF
<1>1. DOMAIN (<<>>) = {}
  OBVIOUS
<1> QED BY <1>1 DEF Ordered, Called, AnsweredBut, Carried, Before, Open, OwnCalls, ToSet

-----------------------------------------------------------------------------
\* A step that only moves one turn.
LEMMA TurnMoves ==
  ASSUME TurnsInv, NEW t \in Turns, NEW r \in TurnStates, TurnInv(t, r, Stored),
         turn' = [turn EXCEPT ![t] = r], rows' = rows, threaded' = threaded
  PROVE  TurnsInv'
PROOF
<1>1. Stored' = Stored
  BY DEF Stored
<1>2. turn' \in [Turns -> TurnStates] /\ turn'[t] = r /\ \A u \in Turns \ {t} : turn'[u] = turn[u]
  BY DEF TurnsInv
<1>3. ASSUME NEW u \in Turns PROVE TurnInv(u, turn'[u], Stored)
  BY <1>2 DEF TurnsInv
<1>4. \A u \in Turns : TurnInv(u, turn[u], Stored)'
  BY <1>1, <1>3 DEF TurnInv, Sending
<1> QED BY <1>1, <1>2, <1>4 DEF TurnsInv

\* What another turn stores is none of a turn's own.
LEMMA OthersStore ==
  ASSUME NEW t \in Turns, NEW r \in TurnStates, NEW st \in Seq(Messages), TurnInv(t, r, st),
         NEW new \in Seq(Messages), \A c \in Carried(new) : c.by # t
  PROVE  TurnInv(t, r, st \o new)
PROOF
<1>1. Carried(st \o new) = Carried(st) \cup Carried(new)
  BY ConcatCarried
<1>2. r.sent \in Seq(Messages) /\ r.batch \in Seq(Calls)
  BY DEF TurnStates
<1>3. Sending(t, r, st \o new)
  <2>1. Carried(new) \cap Carried(r.sent) = {}
    BY DEF TurnInv, Sending, By
  <2>2. Before(new, r.sent)
    BY <2>1, <1>2, BeforeByIds
  <2>3. Before(st \o new, r.sent)
    BY <2>2, <1>2, ConcatBefore DEF TurnInv, Sending
  <2> QED BY <2>3, <1>1 DEF TurnInv, Sending
<1>4. Counts(t, r, st \o new)
  BY <1>1 DEF TurnInv, Counts, Numbered
<1>5. Waiting(t, r, st \o new)
  <2> SUFFICES ASSUME r.pc \in {"dispatch", "ask"} PROVE Open(st \o new, ToSet(r.batch))
    BY DEF TurnInv, Waiting
  <2>1. Open(st, ToSet(r.batch)) /\ \A c \in ToSet(r.batch) : c.by = t
    BY DEF TurnInv, Waiting
  <2>2. \A i \in DOMAIN new : Ids(new[i]) \subseteq Carried(new)
    BY DEF Carried
  <2>3. Open(new, ToSet(r.batch))
    BY <2>1, <2>2 DEF Open
  <2> QED BY <2>1, <2>3, ConcatOpen
<1> QED BY <1>3, <1>4, <1>5 DEF TurnInv

\* A step that stores messages of one turn.
LEMMA TurnStores ==
  ASSUME TurnsInv, NEW t \in Turns, NEW r \in TurnStates, NEW new \in Seq(Messages),
         TurnInv(t, r, Stored \o new), Ordered(new), Before(Stored, new), By(new, t),
         turn' = [turn EXCEPT ![t] = r], rows' \in Seq(StoredRows), Stored' = Stored \o new, threaded' = threaded
  PROVE  TurnsInv'
PROOF
<1>1. Stored \in Seq(Messages) /\ Ordered(Stored)
  BY StoredTyped DEF Stored, TurnsInv
<1>2. Ordered(Stored')
  BY <1>1, ConcatOrdered
<1>3. turn' \in [Turns -> TurnStates] /\ turn'[t] = r /\ \A u \in Turns \ {t} : turn'[u] = turn[u]
  BY DEF TurnsInv
<1>4. ASSUME NEW u \in Turns \ {t} PROVE TurnInv(u, turn'[u], Stored \o new)
  <2>1. TurnInv(u, turn[u], Stored) /\ turn[u] \in TurnStates
    BY DEF TurnsInv
  <2>2. \A c \in Carried(new) : c.by # u
    BY DEF By
  <2> QED BY <1>1, <1>3, <2>1, <2>2, OthersStore
<1>5. \A u \in Turns : TurnInv(u, turn'[u], Stored \o new)
  BY <1>3, <1>4
<1>6. \A u \in Turns : TurnInv(u, turn[u], Stored)'
  BY <1>5 DEF TurnInv, Sending
<1> QED BY <1>2, <1>3, <1>6 DEF TurnsInv

\* A turn that is over keeps what its interceptor has to store.
LEMMA OverHolds ==
  ASSUME NEW t \in Turns, NEW r \in TurnStates, NEW st \in Seq(Messages), TurnInv(t, r, st), NEW how \in Ended
  PROVE  Over(r, how) \in TurnStates /\ TurnInv(t, Over(r, how), st)
PROOF
<1> DEFINE o == Over(r, how)
<1>1. /\ o \in TurnStates
      /\ o.pc = how /\ o.ms = <<>> /\ o.sent = r.sent /\ o.terminal = FALSE
  <2>1. r.kind \in {"top", "delegated"} /\ r.sent \in Seq(Messages)
    BY DEF TurnStates
  <2>2. how \in Places
    BY DEF Places
  <2> QED BY <2>1, <2>2, IdleTyped DEF Over, TurnStates
<1> HIDE DEF o
<1>2. how \in Ended
  OBVIOUS
<1>3. Paired(o) /\ OwnAfter(t, o)
  BY <1>1, Nothing DEF Paired, OwnAfter
<1>4. Sending(t, o, st)
  BY <1>1 DEF TurnInv, Sending
<1>5. Counts(t, o, st) /\ Whole(o) /\ Waiting(t, o, st) /\ Phases(t, o)
  BY <1>1 DEF Counts, Whole, Waiting, Phases, Ended
<1> QED BY <1>1, <1>3, <1>4, <1>5 DEF TurnInv, o

-----------------------------------------------------------------------------
\* The invariant holds at the start.
LEMMA InitHolds == ASSUME Init PROVE TurnsInv
PROOF
<1>1. rows = <<>> /\ rows \in Seq(StoredRows)
  BY DEF Init
<1>2. Stored = <<>>
  BY <1>1 DEF Stored, MessagesOf
<1>3. ASSUME NEW t \in Turns PROVE TurnInv(t, Idle, <<>>)
  <2>1. /\ Idle.pc = "idle" /\ Idle.ms = <<>> /\ Idle.sent = <<>> /\ Idle.iter = 0 /\ Idle.terminal = FALSE
        /\ Idle.batch = <<>>
    BY DEF Idle
  <2>2. Paired(Idle) /\ OwnAfter(t, Idle) /\ Sending(t, Idle, <<>>)
    BY <2>1, Nothing DEF Paired, OwnAfter, Sending, By
  <2>3. Cardinality({}) = 0
    BY FS_EmptySet
  <2>4. Counts(t, Idle, <<>>)
    BY <2>1, <2>3, Nothing DEF Counts, Numbered, Rounds
  <2>5. Whole(Idle) /\ Waiting(t, Idle, <<>>) /\ Phases(t, Idle)
    BY <2>1, Nothing DEF Whole, Waiting, Phases
  <2> QED BY <2>2, <2>4, <2>5 DEF TurnInv
<1>4. \A t \in Turns : turn[t] = Idle
  BY DEF Init
<1>5. turn \in [Turns -> TurnStates]
  BY IdleTyped DEF Init
<1> QED BY <1>1, <1>2, <1>3, <1>4, <1>5, Nothing DEF TurnsInv, Init

\* The moves before a turn has read its history.
LEMMA Starts ==
  ASSUME NEW t \in Turns, NEW st \in Seq(Messages), NEW r \in TurnStates, TurnInv(t, r, st),
         r.pc \in {"idle", "routed", "context"},
         NEW o \in TurnStates, o.pc \in {"routed", "context", "failed"}, o.ms = <<>>, o.sent = <<>>, o.iter = 0,
         o.terminal = FALSE
  PROVE  TurnInv(t, o, st)
PROOF
<1>1. r.pc \notin Ended \cup {"persist"} /\ Rounds(r) = r.iter /\ r.iter = 0
  BY DEF Ended, Rounds, TurnInv, Phases
<1>2. Numbered(st, t, 0) /\ (~threaded => \A c \in Carried(st) : c.by # t)
  BY <1>1 DEF TurnInv, Counts, Sending
<1>3. Paired(o) /\ OwnAfter(t, o) /\ Sending(t, o, st)
  BY <1>2, Nothing DEF Paired, OwnAfter, Sending, By
<1>4. Cardinality({}) = 0
  BY FS_EmptySet
<1>5. Rounds(o) = 0
  BY DEF Rounds
<1>6. Counts(t, o, st)
  <2>1. Numbered(<<>>, t, 0) /\ OwnCalls(<<>>, t) = {}
    BY Nothing DEF Numbered
  <2>2. Cardinality(OwnCalls(o.ms, t)) = 0
    BY <1>4, <2>1
  <2>3. Numbered(o.ms, t, 0) /\ Numbered(o.sent, t, 0)
    BY <2>1
  <2> QED BY <1>2, <1>5, <2>2, <2>3 DEF Counts
<1>7. Whole(o) /\ Waiting(t, o, st) /\ Phases(t, o)
  BY Nothing DEF Whole, Waiting, Phases
<1> QED BY <1>3, <1>6, <1>7 DEF TurnInv

\* A turn is routed, or fails.
LEMMA RouteHolds == ASSUME TurnsInv, NEW t \in Turns, Route(t) PROVE TurnsInv'
PROOF
<1>1. PICK pc \in {"routed", "failed"} : turn' = [turn EXCEPT ![t] = [Idle EXCEPT !.pc = pc]]
  BY DEF Route, Set
<1> DEFINE o == [Idle EXCEPT !.pc = pc]
<1>2. o \in TurnStates /\ o.pc = pc /\ o.ms = <<>> /\ o.sent = <<>> /\ o.iter = 0 /\ o.terminal = FALSE
  BY IdleTyped DEF TurnStates, Places, Ended
<1> HIDE DEF o
<1>3. turn[t] \in TurnStates /\ TurnInv(t, turn[t], Stored) /\ turn[t].pc = "idle" /\ Stored \in Seq(Messages)
  BY StoredTyped DEF Stored, TurnsInv, Route
<1>4. TurnInv(t, o, Stored)
  BY <1>2, <1>3, Starts
<1>5. turn' = [turn EXCEPT ![t] = o] /\ rows' = rows /\ threaded' = threaded
  BY <1>1 DEF Route, o
<1> QED BY <1>2, <1>4, <1>5, TurnMoves

\* A delegated turn begins while its parent waits.
LEMMA BeginDelegatedHolds == ASSUME TurnsInv, NEW t \in Turns, BeginDelegated(t) PROVE TurnsInv'
PROOF
<1>1. PICK p \in Turns :
        turn' = [turn EXCEPT ![t] = [Idle EXCEPT !.pc = "context", !.kind = "delegated", !.parent = {p}]]
  BY DEF BeginDelegated, Set
<1> DEFINE o == [Idle EXCEPT !.pc = "context", !.kind = "delegated", !.parent = {p}]
<1>2. o \in TurnStates /\ o.pc = "context" /\ o.ms = <<>> /\ o.sent = <<>> /\ o.iter = 0 /\ o.terminal = FALSE
  BY IdleTyped DEF TurnStates, Places, Ended
<1> HIDE DEF o
<1>3. turn[t] \in TurnStates /\ TurnInv(t, turn[t], Stored) /\ turn[t].pc = "idle" /\ Stored \in Seq(Messages)
  BY StoredTyped DEF Stored, TurnsInv, BeginDelegated
<1>4. TurnInv(t, o, Stored)
  BY <1>2, <1>3, Starts
<1>5. turn' = [turn EXCEPT ![t] = o] /\ rows' = rows /\ threaded' = threaded
  BY <1>1 DEF BeginDelegated, o
<1> QED BY <1>2, <1>4, <1>5, TurnMoves

\* A turn without a provider fails.
LEMMA NoProviderHolds == ASSUME TurnsInv, NEW t \in Turns, NoProvider(t) PROVE TurnsInv'
PROOF
<1> DEFINE r == turn[t]
           o == [r EXCEPT !.pc = "failed"]
<1>1. r \in TurnStates /\ TurnInv(t, r, Stored) /\ r.pc = "context" /\ Stored \in Seq(Messages)
  BY StoredTyped DEF Stored, TurnsInv, NoProvider
<1>2. r.ms = <<>> /\ r.sent = <<>> /\ r.iter = 0 /\ r.terminal = FALSE
  BY <1>1 DEF TurnInv, Phases, Whole, TurnStates
<1>3. o \in TurnStates /\ o.pc = "failed" /\ o.ms = <<>> /\ o.sent = <<>> /\ o.iter = 0 /\ o.terminal = FALSE
  BY <1>1, <1>2 DEF TurnStates, Places, Ended
<1>4. turn' = [turn EXCEPT ![t] = o] /\ rows' = rows /\ threaded' = threaded
  BY DEF NoProvider, Set
<1> HIDE DEF r, o
<1>5. TurnInv(t, o, Stored)
  BY <1>1, <1>3, Starts
<1> QED BY <1>3, <1>4, <1>5, TurnMoves

\* A row that is appended adds its message.
LEMMA RowAdded ==
  ASSUME NEW rs \in Seq(StoredRows), NEW t \in Turns, NEW m \in Messages
  PROVE  /\ Append(rs, Row(t, m)) \in Seq(StoredRows)
         /\ MessagesOf(Append(rs, Row(t, m))) = MessagesOf(rs) \o <<m>>
PROOF
<1>1. Row(t, m) \in StoredRows /\ Row(t, m).m = m
  BY DEF Row, StoredRows
<1> DEFINE row == Row(t, m)
           qs == Append(rs, row)
<1> HIDE DEF row
<1>2. /\ qs \in Seq(StoredRows) /\ Len(qs) = Len(rs) + 1 /\ Len(rs) \in Nat
      /\ DOMAIN rs = 1 .. Len(rs) /\ DOMAIN qs = 1 .. (Len(rs) + 1)
      /\ \A i \in 1 .. Len(rs) : qs[i] = rs[i]
      /\ qs[Len(rs) + 1] = row
  BY <1>1 DEF row
<1> HIDE DEF qs
<1>3. /\ MessagesOf(qs) = [i \in 1 .. (Len(rs) + 1) |-> qs[i].m]
      /\ MessagesOf(rs) = [i \in 1 .. Len(rs) |-> rs[i].m]
  BY <1>2 DEF MessagesOf
<1>4. /\ MessagesOf(rs) \in Seq(Messages) /\ Len(MessagesOf(rs)) = Len(rs)
      /\ MessagesOf(qs) \in Seq(Messages) /\ Len(MessagesOf(qs)) = Len(rs) + 1
  BY <1>2, StoredTyped
<1> DEFINE ms == MessagesOf(rs)
<1> HIDE DEF ms
<1>5. /\ ms \o <<m>> \in Seq(Messages) /\ Len(ms \o <<m>>) = Len(rs) + 1
      /\ \A i \in 1 .. (Len(rs) + 1) : (ms \o <<m>>)[i] = IF i <= Len(rs) THEN ms[i] ELSE m
  BY <1>4 DEF ms
<1>6. \A i \in 1 .. (Len(rs) + 1) : MessagesOf(qs)[i] = (ms \o <<m>>)[i]
  BY <1>1, <1>2, <1>3, <1>5 DEF row, ms
<1>7. MessagesOf(qs) = ms \o <<m>>
  BY <1>4, <1>5, <1>6, SeqEqual
<1> QED BY <1>2, <1>7 DEF ms, qs, row

\* One message is ordered.
LEMMA OneMessage ==
  ASSUME NEW m \in Messages
  PROVE  /\ <<m>> \in Seq(Messages) /\ DOMAIN <<m>> = {1} /\ <<m>>[1] = m
         /\ Carried(<<m>>) = Ids(m) /\ Ordered(<<m>>)
PROOF
<1>1. <<m>> \in Seq(Messages) /\ DOMAIN <<m>> = {1} /\ <<m>>[1] = m
  OBVIOUS
<1> QED BY <1>1 DEF Carried, Ordered

\* The message of the user, stored or not, concerns no call.
LEMMA BeginHolds == ASSUME TurnsInv, NEW t \in Turns, Begin(t) PROVE TurnsInv'
PROOF
<1> DEFINE r == turn[t]
           o == [r EXCEPT !.pc = "context"]
<1>1. r \in TurnStates /\ TurnInv(t, r, Stored) /\ r.pc = "routed" /\ Stored \in Seq(Messages)
  BY StoredTyped DEF Stored, TurnsInv, Begin
<1>2. r.ms = <<>> /\ r.sent = <<>> /\ r.iter = 0 /\ r.terminal = FALSE
  BY <1>1 DEF TurnInv, Phases, Whole, TurnStates
<1>3. o \in TurnStates /\ o.pc = "context" /\ o.ms = <<>> /\ o.sent = <<>> /\ o.iter = 0 /\ o.terminal = FALSE
  BY <1>1, <1>2 DEF TurnStates, Places, Ended
<1>4. turn' = [turn EXCEPT ![t] = o] /\ threaded' = threaded /\ rows' \in {rows, Append(rows, Row(t, User))}
  BY DEF Begin, Set
<1> HIDE DEF r, o
<1>5. TurnInv(t, o, Stored)
  BY <1>1, <1>3, Starts
<1>6. CASE rows' = rows
  BY <1>3, <1>4, <1>5, <1>6, TurnMoves
<1>7. CASE rows' = Append(rows, Row(t, User))
  <2>1. rows' \in Seq(StoredRows) /\ Stored' = Stored \o <<User>>
    BY <1>7, Forms, RowAdded DEF TurnsInv, Stored
  <2>2. <<User>> \in Seq(Messages) /\ Carried(<<User>>) = {} /\ Ordered(<<User>>)
    BY Forms, OneMessage
  <2>3. Before(Stored, <<User>>) /\ By(<<User>>, t)
    BY <1>1, <2>2, BeforeByIds DEF By
  <2>4. TurnInv(t, o, Stored \o <<User>>)
    BY <1>1, <1>3, <1>5, <2>2, OthersStore
  <2> QED BY <1>3, <1>4, <2>1, <2>2, <2>3, <2>4, TurnStores
<1> QED BY <1>4, <1>6, <1>7

(***************************************************************************)
(* The context and the end of the loop.                                    *)
(***************************************************************************)

\* Two whole conversations, one after the other, are whole.
LEMMA ConcatWhole ==
  ASSUME NEW s \in Seq(Messages), NEW u \in Seq(Messages),
         Ordered(s), Called(s), AnsweredBut(s, {}), Ordered(u), Called(u), AnsweredBut(u, {}),
         Carried(s) \cap Carried(u) = {}
  PROVE  /\ s \o u \in Seq(Messages) /\ Ordered(s \o u) /\ Called(s \o u) /\ AnsweredBut(s \o u, {})
         /\ Carried(s \o u) = Carried(s) \cup Carried(u)
PROOF
<1>1. Ordered(s \o u)
  BY BeforeByIds, ConcatOrdered
<1>2. Called(s \o u)
  BY ConcatCalled DEF Called
<1>3. AnsweredBut(s \o u, {})
  <2>1. \A i \in DOMAIN u : u[i].kind = "calls" => Ids(u[i]) \subseteq Answered(u) \cup {}
    BY DEF AnsweredBut
  <2> QED BY <2>1, ConcatAnsweredBut
<1> QED BY <1>1, <1>2, <1>3, ConcatCarried

\* Messages without ids are whole.
LEMMA PlainWhole ==
  ASSUME NEW m \in {System, User}
  PROVE  <<m>> \in Seq(Messages) /\ Ordered(<<m>>) /\ Called(<<m>>) /\ AnsweredBut(<<m>>, {}) /\ Carried(<<m>>) = {}
PROOF
<1>1. m \in Messages /\ Ids(m) = {} /\ m.kind \notin {"calls", "result"}
  BY Forms
<1>2. <<m>> \in Seq(Messages) /\ DOMAIN <<m>> = {1} /\ <<m>>[1] = m /\ Carried(<<m>>) = Ids(m) /\ Ordered(<<m>>)
  BY <1>1, OneMessage
<1> QED BY <1>1, <1>2 DEF Called, AnsweredBut

\* A turn reads a history that others write: what it is shown is cut to whole exchanges.
LEMMA BuildContextHolds == ASSUME TurnsInv, NEW t \in Turns, BuildContext(t) PROVE TurnsInv'
PROOF
<1> DEFINE r == turn[t]
           asked == IF r.kind = "delegated" THEN <<User>> ELSE <<>>
           past == <<System>> \o Sanitize(History)
           all == past \o asked
           ms == Trim(all)
           o == [r EXCEPT !.pc = "iterate", !.ms = ms, !.start = Len(ms)]
<1>1. r \in TurnStates /\ TurnInv(t, r, Stored) /\ r.pc = "context" /\ Stored \in Seq(Messages)
  BY StoredTyped DEF Stored, TurnsInv, BuildContext
<1>2. turn' = [turn EXCEPT ![t] = o] /\ rows' = rows /\ threaded' = threaded
  BY DEF BuildContext, Set
<1>3. /\ Sanitize(History) \in Seq(Messages) /\ Ordered(Sanitize(History)) /\ Called(Sanitize(History))
      /\ AnsweredBut(Sanitize(History), {}) /\ Carried(Sanitize(History)) \subseteq Carried(Stored)
  <2>1. History \in Seq(Messages) /\ Sub(History, Stored)
    BY HistoryRead DEF TurnsInv
  <2>2. Ordered(History) /\ Carried(History) \subseteq Carried(Stored)
    BY <1>1, <2>1, SubOrdered, SubCarried DEF TurnsInv
  <2>3. /\ Sanitize(History) \in Seq(Messages) /\ Sub(Sanitize(History), History)
        /\ Called(Sanitize(History)) /\ AnsweredBut(Sanitize(History), {})
    BY <2>1, <2>2, Sanitized
  <2> QED BY <2>1, <2>2, <2>3, SubOrdered, SubCarried
<1>4. /\ past \in Seq(Messages) /\ Ordered(past) /\ Called(past) /\ AnsweredBut(past, {})
      /\ Carried(past) \subseteq Carried(Stored)
  <2> DEFINE s == <<System>>
             h == Sanitize(History)
  <2>1. s \in Seq(Messages) /\ Ordered(s) /\ Called(s) /\ AnsweredBut(s, {}) /\ Carried(s) = {}
    BY PlainWhole
  <2>2. h \in Seq(Messages) /\ Ordered(h) /\ Called(h) /\ AnsweredBut(h, {}) /\ Carried(h) \subseteq Carried(Stored)
    BY <1>3
  <2> HIDE DEF s, h
  <2>3. /\ s \o h \in Seq(Messages) /\ Ordered(s \o h) /\ Called(s \o h) /\ AnsweredBut(s \o h, {})
        /\ Carried(s \o h) = Carried(s) \cup Carried(h)
    BY <2>1, <2>2, ConcatWhole
  <2> QED BY <2>1, <2>2, <2>3 DEF s, h
<1>5. /\ asked \in Seq(Messages) /\ Ordered(asked) /\ Called(asked) /\ AnsweredBut(asked, {})
      /\ Carried(asked) = {}
  <2>1. <<>> \in Seq(Messages)
    OBVIOUS
  <2> QED BY <2>1, PlainWhole, Nothing
<1> HIDE DEF past, asked
<1>6. /\ all \in Seq(Messages) /\ Ordered(all) /\ Called(all) /\ AnsweredBut(all, {})
      /\ Carried(all) \subseteq Carried(Stored)
  BY <1>4, <1>5, ConcatWhole
<1> HIDE DEF all
<1>7. /\ ms \in Seq(Messages) /\ Ordered(ms) /\ Called(ms) /\ AnsweredBut(ms, {})
      /\ Carried(ms) \subseteq Carried(Stored)
  BY <1>6, Trimmed, SubOrdered, SubCarried
<1> HIDE DEF ms
<1>8. Len(ms) \in Nat /\ DOMAIN ms = 1 .. Len(ms)
  BY <1>7
<1>9. /\ o \in TurnStates /\ o.pc = "iterate" /\ o.ms = ms /\ o.start = Len(ms)
      /\ o.sent = r.sent /\ o.iter = r.iter /\ o.terminal = r.terminal
  BY <1>1, <1>7, <1>8 DEF TurnStates, Places
<1>10. r.sent = <<>> /\ r.iter = 0 /\ ~r.terminal /\ Rounds(r) = 0 /\ r.pc \notin Ended \cup {"persist"}
  BY <1>1 DEF TurnInv, Phases, Whole, Rounds, Ended
<1>11. \A c \in Carried(Stored) : c.by # t
  <2>1. Numbered(Stored, t, 0)
    BY <1>1, <1>10 DEF TurnInv, Counts
  <2>2. ASSUME NEW c \in Carried(Stored) PROVE c.n \in Nat /\ c.n # 0
    <3>1. \A i \in DOMAIN Stored : Stored[i] \in Messages
      BY <1>1
    <3>2. c \in Calls
      BY <3>1, MessageForms DEF Carried
    <3> QED BY <3>2 DEF Calls
  <2>3. 0 * MaxCalls = 0
    BY TurnAssumption
  <2> QED BY <2>1, <2>2, <2>3 DEF Numbered
<1> HIDE DEF r, o
<1>12. Paired(o) /\ OwnAfter(t, o) /\ Whole(o)
  BY <1>7, <1>8, <1>9, <1>10 DEF Paired, OwnAfter, Whole
<1>13. Sending(t, o, Stored)
  BY <1>9, <1>10, <1>11, Nothing DEF Sending, By
<1>14. Counts(t, o, Stored)
  <2>1. \A k : Numbered(Stored, t, k) /\ Numbered(ms, t, k) /\ Numbered(<<>>, t, k)
    BY <1>7, <1>11, Nothing DEF Numbered
  <2>2. OwnCalls(ms, t) = {}
    <3>1. \A i \in DOMAIN ms : Ids(ms[i]) \subseteq Carried(ms)
      BY DEF Carried
    <3> QED BY <3>1, <1>7, <1>11 DEF OwnCalls
  <2>3. Cardinality(OwnCalls(ms, t)) = 0
    BY <2>2, FS_EmptySet
  <2>4. Rounds(o) = 0
    BY <1>9, <1>10 DEF Rounds
  <2> QED BY <1>9, <1>10, <2>1, <2>3, <2>4 DEF Counts
<1>15. Waiting(t, o, Stored) /\ Phases(t, o)
  BY <1>9 DEF Waiting, Phases
<1>16. TurnInv(t, o, Stored)
  BY <1>12, <1>13, <1>14, <1>15 DEF TurnInv
<1> QED BY <1>2, <1>9, <1>16, TurnMoves

-----------------------------------------------------------------------------
\* The head of an iteration cuts what no longer fits.
LEMMA IterateHolds == ASSUME TurnsInv, NEW t \in Turns, Iterate(t) PROVE TurnsInv'
PROOF
<1> DEFINE r == turn[t]
           o == [r EXCEPT !.pc = "chat", !.ms = Trim(@)]
<1>1. r \in TurnStates /\ TurnInv(t, r, Stored) /\ r.pc = "iterate" /\ Stored \in Seq(Messages)
  BY StoredTyped DEF Stored, TurnsInv, Iterate
<1>2. CASE MaxIterations > 0 /\ r.iter >= MaxIterations
  <2>1. turn' = [turn EXCEPT ![t] = Over(r, "failed")] /\ rows' = rows /\ threaded' = threaded
    BY <1>2 DEF Iterate, Set
  <2>2. Over(r, "failed") \in TurnStates /\ TurnInv(t, Over(r, "failed"), Stored)
    BY <1>1, OverHolds DEF Ended
  <2> QED BY <2>1, <2>2, TurnMoves
<1>3. CASE ~(MaxIterations > 0 /\ r.iter >= MaxIterations)
  <2>1. turn' = [turn EXCEPT ![t] = o] /\ rows' = rows /\ threaded' = threaded
    BY <1>3 DEF Iterate, Set
  <2>2. r.iter \in Nat /\ MaxIterations \in Nat /\ r.ms \in Seq(Messages) /\ r.start \in Nat
    BY <1>1, TurnAssumption DEF TurnStates
  <2> DEFINE ms == Trim(r.ms)
  <2>3. Ordered(r.ms) /\ Called(r.ms) /\ AnsweredBut(r.ms, {})
    BY <1>1 DEF TurnInv, Paired, Whole
  <2>4. /\ ms \in Seq(Messages) /\ Sub(ms, r.ms) /\ Called(ms) /\ AnsweredBut(ms, {})
        /\ \E e \in [DOMAIN ms -> DOMAIN r.ms] : \A k \in DOMAIN ms : k <= e[k] /\ ms[k] = r.ms[e[k]]
    BY <2>2, <2>3, Trimmed
  <2> HIDE DEF ms
  <2>5. Ordered(ms) /\ Carried(ms) \subseteq Carried(r.ms)
    BY <2>2, <2>3, <2>4, SubOrdered, SubCarried
  <2>6. /\ o \in TurnStates /\ o.pc = "chat" /\ o.ms = ms /\ o.start = r.start
        /\ o.sent = r.sent /\ o.iter = r.iter /\ o.terminal = r.terminal
    BY <1>1, <2>4 DEF TurnStates, Places, ms
  <2> HIDE DEF r, o
  <2>7. Paired(o) /\ Whole(o)
    BY <1>1, <2>4, <2>5, <2>6 DEF Paired, Whole, TurnInv
  <2>8. Sending(t, o, Stored)
    BY <1>1, <2>6 DEF TurnInv, Sending, Ended
  <2>9. OwnAfter(t, o)
    <3> SUFFICES ASSUME NEW k \in DOMAIN ms, k > r.start, NEW c \in Ids(ms[k]) PROVE c.by = t
      BY <2>6 DEF OwnAfter
    <3>1. PICK e \in [DOMAIN ms -> DOMAIN r.ms] : \A l \in DOMAIN ms : l <= e[l] /\ ms[l] = r.ms[e[l]]
      BY <2>4
    <3>2. e[k] \in DOMAIN r.ms /\ ms[k] = r.ms[e[k]] /\ e[k] > r.start
      <4>1. e[k] \in DOMAIN r.ms /\ k <= e[k] /\ ms[k] = r.ms[e[k]]
        BY <3>1
      <4>2. e[k] \in Nat /\ k \in Nat
        <5>1. DOMAIN r.ms = 1 .. Len(r.ms) /\ DOMAIN ms = 1 .. Len(ms)
          BY <2>2, <2>4
        <5> QED BY <4>1, <5>1
      <4> QED BY <4>1, <4>2, <2>2
    <3> QED BY <3>2, <1>1 DEF TurnInv, OwnAfter
  <2>10. Counts(t, o, Stored)
    <3>1. Rounds(o) = Rounds(r) /\ Rounds(r) = r.iter
      BY <1>1, <2>6 DEF Rounds
    <3>2. /\ Numbered(Stored, t, r.iter) /\ Numbered(r.sent, t, r.iter) /\ Numbered(r.ms, t, r.iter)
          /\ Cardinality(OwnCalls(r.ms, t)) <= r.iter
      BY <1>1, <3>1 DEF TurnInv, Counts, Ended
    <3>3. Numbered(ms, t, r.iter)
      BY <3>2, <2>5 DEF Numbered
    <3>4. /\ Cardinality(OwnCalls(ms, t)) <= Cardinality(OwnCalls(r.ms, t))
          /\ Cardinality(OwnCalls(ms, t)) \in Nat /\ Cardinality(OwnCalls(r.ms, t)) \in Nat
      BY <2>2, <2>4, OwnSub, OwnFinite
    <3>5. Cardinality(OwnCalls(ms, t)) <= r.iter
      BY <3>2, <3>4, <2>2
    <3> QED BY <2>6, <3>1, <3>2, <3>3, <3>5 DEF Counts
  <2>11. Waiting(t, o, Stored) /\ Phases(t, o)
    BY <1>3, <2>2, <2>6 DEF Waiting, Phases
  <2>12. TurnInv(t, o, Stored)
    BY <2>7, <2>8, <2>9, <2>10, <2>11 DEF TurnInv
  <2> QED BY <2>1, <2>6, <2>12, TurnMoves
<1> QED BY <1>2, <1>3

-----------------------------------------------------------------------------
\* A turn that leaves the loop has ordered messages of its own to store.
LEMMA FinishedHolds ==
  ASSUME NEW t \in Turns, NEW r \in TurnStates, NEW st \in Seq(Messages), TurnInv(t, r, st),
         r.pc \in {"chat", "fallback", "ask"}
  PROVE  Finished(r) \in TurnStates /\ TurnInv(t, Finished(r), st)
PROOF
<1>1. CASE r.start > Len(r.ms)
  BY <1>1, OverHolds DEF Finished, Ended
<1>2. CASE ~(r.start > Len(r.ms))
  <2> DEFINE out == SubSeq(r.ms, r.start + 1, Len(r.ms))
             top == r.kind = "top" /\ ~threaded
             o == [r EXCEPT !.pc = "persist", !.out = out, !.sent = IF top THEN out ELSE r.sent]
  <2>1. Finished(r) = o
    BY <1>2 DEF Finished
  <2>2. r.ms \in Seq(Messages) /\ Len(r.ms) \in Nat /\ DOMAIN r.ms = 1 .. Len(r.ms) /\ r.start \in Nat
    BY DEF TurnStates
  <2>3. out \in Seq(Messages) /\ Len(out) = Len(r.ms) - r.start /\ DOMAIN out = 1 .. (Len(r.ms) - r.start)
    BY <1>2, <2>2
  <2>4. \A i \in DOMAIN out : out[i] = r.ms[r.start + i] /\ r.start + i \in DOMAIN r.ms /\ r.start + i > r.start
    <3> SUFFICES ASSUME NEW i \in DOMAIN out
                 PROVE  out[i] = r.ms[r.start + i] /\ r.start + i \in DOMAIN r.ms /\ r.start + i > r.start
      OBVIOUS
    <3>1. i \in 1 .. (Len(r.ms) - (r.start + 1) + 1)
      BY <2>2, <2>3
    <3>2. out[i] = r.ms[(r.start + 1) + i - 1]
      BY <2>2, <3>1
    <3>3. i \in Nat /\ (r.start + 1) + i - 1 = r.start + i /\ 1 <= i /\ i <= Len(r.ms) - r.start
      BY <2>2, <3>1
    <3> HIDE DEF out
    <3> QED BY <2>2, <3>2, <3>3
  <2> HIDE DEF out
  <2>5. Ordered(out)
    <3> SUFFICES ASSUME NEW i \in DOMAIN out, NEW j \in DOMAIN out, i < j PROVE Apart(out[i], out[j])
      BY DEF Ordered
    <3>1. r.start + i < r.start + j
      BY <2>2, <2>3
    <3> QED BY <2>4, <3>1 DEF TurnInv, Paired, Ordered
  <2>6. By(out, t)
    BY <2>4 DEF By, Carried, TurnInv, OwnAfter
  <2>7. /\ o \in TurnStates /\ o.pc = "persist" /\ o.ms = r.ms /\ o.start = r.start /\ o.out = out
        /\ o.sent = IF top THEN out ELSE r.sent
        /\ o.iter = r.iter /\ o.terminal = r.terminal
    BY <2>3 DEF TurnStates, Places
  <2> HIDE DEF o
  <2>8. Paired(o) /\ OwnAfter(t, o) /\ Whole(o) /\ Counts(t, o, st) /\ Waiting(t, o, st)
    BY <2>7 DEF TurnInv, Paired, OwnAfter, Whole, Counts, Waiting
  <2>9. Sending(t, o, st)
    <3>1. CASE top
      <4>1. \A c \in Carried(st) : c.by # t
        BY <3>1 DEF TurnInv, Sending, Ended
      <4>2. Carried(st) \cap Carried(out) = {}
        BY <4>1, <2>6 DEF By
      <4>3. Before(st, out)
        BY <2>3, <4>2, BeforeByIds
      <4> QED BY <2>5, <2>6, <2>7, <3>1, <4>3 DEF Sending
    <3>2. CASE ~top
      BY <2>7, <3>2 DEF TurnInv, Sending
    <3> QED BY <3>1, <3>2
  <2>10. Phases(t, o)
    BY <2>5, <2>6, <2>7 DEF Phases
  <2> QED BY <2>1, <2>7, <2>8, <2>9, <2>10 DEF TurnInv
<1> QED BY <1>1, <1>2

(***************************************************************************)
(* The answers that call tools.                                            *)
(***************************************************************************)

\* What a turn pushes that is new to everything it knows.
LEMMA PushTyped ==
  ASSUME NEW r \in TurnStates, NEW new \in Seq(Messages)
  PROVE  /\ Push(r, new) \in TurnStates
         /\ Push(r, new).ms = r.ms \o new
         /\ Push(r, new).sent = (IF r.kind = "top" /\ threaded THEN r.sent \o new ELSE r.sent)
         /\ Push(r, new).pc = r.pc /\ Push(r, new).start = r.start /\ Push(r, new).iter = r.iter
         /\ Push(r, new).batch = r.batch /\ Push(r, new).terminal = r.terminal
PROOF
<1>1. r.ms \in Seq(Messages) /\ r.sent \in Seq(Messages)
  BY DEF TurnStates
<1>2. r.ms \o new \in Seq(Messages) /\ r.sent \o new \in Seq(Messages)
  BY <1>1
<1>3. Push(r, new) = [r EXCEPT !.ms = r.ms \o new, !.sent = IF r.kind = "top" /\ threaded THEN r.sent \o new ELSE r.sent]
  BY DEF Push
<1> DEFINE a == r.ms \o new
           b == IF r.kind = "top" /\ threaded THEN r.sent \o new ELSE r.sent
<1>4. a \in Seq(Messages) /\ b \in Seq(Messages)
  BY <1>1, <1>2
<1>5. Push(r, new) = [r EXCEPT !.ms = a, !.sent = b]
  BY <1>3
<1> HIDE DEF a, b
<1>6. /\ [r EXCEPT !.ms = a, !.sent = b] \in TurnStates
      /\ [r EXCEPT !.ms = a, !.sent = b].ms = a /\ [r EXCEPT !.ms = a, !.sent = b].sent = b
      /\ [r EXCEPT !.ms = a, !.sent = b].pc = r.pc /\ [r EXCEPT !.ms = a, !.sent = b].start = r.start
      /\ [r EXCEPT !.ms = a, !.sent = b].iter = r.iter
      /\ [r EXCEPT !.ms = a, !.sent = b].batch = r.batch /\ [r EXCEPT !.ms = a, !.sent = b].terminal = r.terminal
  BY <1>4 DEF TurnStates
<1> QED BY <1>5, <1>6 DEF a, b

\* What a turn pushes follows what it knows, what is stored and what is being stored.
LEMMA PushHolds ==
  ASSUME NEW t \in Turns, NEW r \in TurnStates, NEW st \in Seq(Messages), TurnInv(t, r, st), r.pc \notin Ended \cup {"persist"},
         NEW new \in Seq(Messages), Ordered(new), By(new, t),
         Before(r.ms, new), Before(r.sent, new), Before(st, new),
         \A j \in DOMAIN new : new[j].kind = "result" =>
            \/ \E i \in DOMAIN r.ms : r.ms[i].kind = "calls" /\ Ids(new[j]) \subseteq Ids(r.ms[i])
            \/ \E i \in DOMAIN new : i < j /\ new[i].kind = "calls" /\ Ids(new[j]) \subseteq Ids(new[i]),
         NEW o \in TurnStates, o.ms = Push(r, new).ms, o.sent = Push(r, new).sent, o.start = r.start, o.pc \notin Ended
  PROVE  Paired(o) /\ Sending(t, o, st) /\ OwnAfter(t, o)
PROOF
<1>1. /\ o.ms = r.ms \o new /\ (o.sent = r.sent \/ (threaded /\ o.sent = r.sent \o new))
      /\ r.ms \in Seq(Messages) /\ r.sent \in Seq(Messages)
  <2>1. /\ Push(r, new).ms = r.ms \o new
        /\ Push(r, new).sent = (IF r.kind = "top" /\ threaded THEN r.sent \o new ELSE r.sent)
    BY PushTyped
  <2>2. r.ms \in Seq(Messages) /\ r.sent \in Seq(Messages)
    BY DEF TurnStates
  <2> QED BY <2>1, <2>2
<1>2. Paired(o)
  BY <1>1, ConcatOrdered, ConcatCalled DEF TurnInv, Paired
<1>3. Sending(t, o, st)
  <2>1. CASE o.sent = r.sent
    BY <2>1 DEF TurnInv, Sending
  <2>2. CASE threaded /\ o.sent = r.sent \o new
    <3>1. Ordered(o.sent)
      BY <1>1, <2>2, ConcatOrdered DEF TurnInv, Sending
    <3>2. Before(st, o.sent)
      BY <1>1, <2>2, ConcatBefore DEF TurnInv, Sending
    <3>3. By(o.sent, t)
      BY <1>1, <2>2, ConcatCarried DEF TurnInv, Sending, By
    <3> QED BY <2>2, <3>1, <3>2, <3>3 DEF Sending
  <2> QED BY <1>1, <2>1, <2>2
<1>4. OwnAfter(t, o)
  <2> SUFFICES ASSUME NEW i \in DOMAIN o.ms, i > r.start, NEW c \in Ids(o.ms[i]) PROVE c.by = t
    BY DEF OwnAfter
  <2>1. /\ DOMAIN r.ms = 1 .. Len(r.ms) /\ DOMAIN new = 1 .. Len(new) /\ Len(r.ms) \in Nat /\ Len(new) \in Nat
        /\ DOMAIN o.ms = 1 .. (Len(r.ms) + Len(new))
        /\ o.ms[i] = IF i <= Len(r.ms) THEN r.ms[i] ELSE new[i - Len(r.ms)]
    BY <1>1
  <2>2. CASE i <= Len(r.ms)
    BY <2>1, <2>2 DEF TurnInv, OwnAfter
  <2>3. CASE i > Len(r.ms)
    <3>1. i - Len(r.ms) \in DOMAIN new /\ o.ms[i] = new[i - Len(r.ms)]
      BY <2>1, <2>3
    <3> QED BY <3>1 DEF By, Carried
  <2>4. i <= Len(r.ms) \/ i > Len(r.ms)
    BY <2>1
  <2> QED BY <2>2, <2>3, <2>4
<1> QED BY <1>2, <1>3, <1>4

\* The calls of one answer carry numbers that nothing carries yet.
FreshCalls(cs, t, k) ==
  /\ cs \in Seq(Calls) /\ Distinct(cs)
  /\ \A c \in ToSet(cs) : c.by = t /\ c.n > k * MaxCalls /\ c.n <= (k + 1) * MaxCalls

\* The ids of a new answer are in no earlier message.
LEMMA FreshApart ==
  ASSUME NEW t, NEW k \in Nat, NEW cs, FreshCalls(cs, t, k), NEW s, Numbered(s, t, k)
  PROVE  Carried(s) \cap ToSet(cs) = {}
PROOF
<1> SUFFICES ASSUME NEW c \in Carried(s), c \in ToSet(cs) PROVE FALSE
  OBVIOUS
<1>1. c.by = t /\ c.n > k * MaxCalls /\ c \in Calls
  BY DEF FreshCalls, ToSet
<1>2. c.n <= k * MaxCalls
  BY <1>1 DEF Numbered
<1>3. c.n \in Nat /\ k * MaxCalls \in Nat
  BY <1>1, RoundsTimes DEF Calls
<1> QED BY <1>1, <1>2, <1>3

\* An answer that calls tools, whichever of the calls are malformed.
LEMMA TakeCallsHolds ==
  ASSUME NEW t \in Turns, NEW r \in TurnStates, NEW st \in Seq(Messages), TurnInv(t, r, st),
         r.pc \in {"chat", "fallback"}, NEW cs, FreshCalls(cs, t, r.iter), NEW valid
  PROVE  TakeCalls(r, cs, valid) \in TurnStates /\ TurnInv(t, TakeCalls(r, cs, valid), st)
PROOF
<1> DEFINE inv == Among(cs, ToSet(cs) \ valid)
           rest == Among(cs, valid)
           new == <<Calling(cs)>> \o Results(inv)
           told == Push(r, new)
           k == r.iter
           o == TakeCalls(r, cs, valid)
<1>1. /\ cs \in Seq(Calls) /\ Distinct(cs) /\ k \in Nat /\ r.ms \in Seq(Messages) /\ r.sent \in Seq(Messages)
      /\ r.start \in Nat
  BY DEF FreshCalls, TurnStates
<1>2. /\ inv \in Seq(Calls) /\ Distinct(inv) /\ ToSet(inv) = ToSet(cs) \ valid
      /\ rest \in Seq(Calls) /\ Distinct(rest) /\ ToSet(rest) = ToSet(cs) \cap valid
  BY <1>1, AmongCalls
<1> HIDE DEF inv, rest
<1>3. /\ new \in Seq(Messages) /\ DOMAIN new = 1 .. (Len(inv) + 1) /\ Len(inv) \in Nat
      /\ new[1] = Calling(cs)
      /\ \A i \in DOMAIN new : i # 1 => new[i].kind = "result" /\ Ids(new[i]) \subseteq ToSet(cs)
      /\ Carried(new) = ToSet(cs) /\ Answered(new) = ToSet(inv)
      /\ Ordered(new)
  BY <1>1, <1>2, Told
<1>4. Calling(cs).kind = "calls" /\ Ids(Calling(cs)) = ToSet(cs) /\ 1 \in DOMAIN new
  BY <1>1, <1>3, Forms
<1> HIDE DEF new
<1>5. /\ Numbered(st, t, k) /\ Numbered(r.sent, t, k) /\ Numbered(r.ms, t, k) /\ Cardinality(OwnCalls(r.ms, t)) <= k
      /\ r.pc \notin Ended
  BY DEF TurnInv, Counts, Rounds, Ended
<1>6. Carried(st) \cap ToSet(cs) = {} /\ Carried(r.sent) \cap ToSet(cs) = {} /\ Carried(r.ms) \cap ToSet(cs) = {}
  BY <1>1, <1>5, FreshApart
<1>7. Before(st, new) /\ Before(r.sent, new) /\ Before(r.ms, new)
  BY <1>1, <1>3, <1>6, BeforeByIds
<1>8. By(new, t)
  BY <1>3 DEF By, FreshCalls
<1>9. ASSUME NEW j \in DOMAIN new, new[j].kind = "result"
      PROVE  \E i \in DOMAIN new : i < j /\ new[i].kind = "calls" /\ Ids(new[j]) \subseteq Ids(new[i])
  BY <1>3, <1>4, <1>9
<1>10. /\ told \in TurnStates /\ told.ms = r.ms \o new /\ told.pc = r.pc /\ told.start = r.start /\ told.iter = k
       /\ told.sent \in {r.sent, r.sent \o new} /\ told.terminal = r.terminal
  BY <1>3, PushTyped
<1> HIDE DEF told
<1>11. o = IF rest = <<>> THEN [told EXCEPT !.pc = "iterate", !.iter = @ + 1, !.batch = <<>>]
                          ELSE [told EXCEPT !.pc = "dispatch", !.batch = rest]
  BY DEF TakeCalls, Regenerate, NextIteration, told, new, inv, rest
<1>12. /\ o \in TurnStates /\ o.ms = told.ms /\ o.sent = told.sent /\ o.start = r.start /\ o.terminal = r.terminal
       /\ \/ o.pc = "iterate" /\ o.iter = k + 1 /\ ToSet(rest) = {}
          \/ o.pc = "dispatch" /\ o.iter = k /\ o.batch = rest
  <2>1. CASE rest = <<>>
    <3>1. o = [told EXCEPT !.pc = "iterate", !.iter = @ + 1, !.batch = <<>>] /\ <<>> \in Seq(Calls)
      BY <1>11, <2>1
    <3>3. told.iter \in Nat /\ told.iter + 1 \in Nat
      BY <1>1, <1>10
    <3> HIDE DEF o
    <3>2. /\ o \in TurnStates /\ o.ms = told.ms /\ o.sent = told.sent /\ o.start = told.start
          /\ o.terminal = told.terminal /\ o.pc = "iterate" /\ o.iter = told.iter + 1
      BY <1>10, <3>1, <3>3 DEF TurnStates, Places
    <3> QED BY <3>2, <2>1, <1>10, Nothing
  <2>2. CASE rest # <<>>
    <3>1. o = [told EXCEPT !.pc = "dispatch", !.batch = rest]
      BY <1>11, <2>2
    <3>2. /\ o \in TurnStates /\ o.ms = told.ms /\ o.sent = told.sent /\ o.start = told.start
          /\ o.terminal = told.terminal /\ o.pc = "dispatch" /\ o.iter = told.iter /\ o.batch = rest
      BY <1>2, <1>10, <3>1 DEF TurnStates, Places
    <3> QED BY <3>2, <1>10
  <2> QED BY <2>1, <2>2
<1> HIDE DEF o
<1>13. o.pc \notin Ended /\ Rounds(o) = k + 1 /\ ~o.terminal
  BY <1>1, <1>12 DEF Ended, Rounds, TurnInv, Whole
<1>14. Paired(o) /\ Sending(t, o, st) /\ OwnAfter(t, o)
  BY <1>3, <1>5, <1>7, <1>8, <1>9, <1>12, <1>13, PushHolds DEF told
<1>15. Counts(t, o, st)
  <2>1. ASSUME NEW s \in Seq(Messages), Numbered(s, t, k) PROVE Numbered(s, t, k + 1) /\ Numbered(s \o new, t, k + 1)
    <3>1. k * MaxCalls \in Nat /\ (k + 1) * MaxCalls \in Nat /\ k * MaxCalls <= (k + 1) * MaxCalls
      <4> HIDE DEF k
      <4>1. k * MaxCalls \in Nat /\ (k + 1) * MaxCalls = k * MaxCalls + MaxCalls /\ MaxCalls \in Nat
        BY <1>1, RoundsTimes
      <4> QED BY <4>1
    <3>2. Carried(s \o new) = Carried(s) \cup ToSet(cs)
      BY <1>3, ConcatCarried
    <3>3. \A c \in Carried(s) : c.by = t => c.n <= k * MaxCalls
      BY <2>1 DEF Numbered
    <3>4. \A c \in Carried(s) : c.n \in Nat
      <4>1. \A i \in DOMAIN s : s[i] \in Messages
        OBVIOUS
      <4>2. \A c \in Carried(s) : c \in Calls
        BY <4>1, MessageForms DEF Carried
      <4> QED BY <4>2 DEF Calls
    <3>5. \A c \in ToSet(cs) : c.n <= (k + 1) * MaxCalls
      BY DEF FreshCalls
    <3>6. ASSUME NEW c \in Carried(s), c.by = t PROVE c.n <= (k + 1) * MaxCalls
      BY <3>1, <3>3, <3>4, <3>6
    <3> QED BY <3>2, <3>5, <3>6 DEF Numbered
  <2>2. Numbered(st, t, k + 1) /\ Numbered(o.sent, t, k + 1) /\ Numbered(o.ms, t, k + 1)
    BY <1>1, <1>5, <1>10, <1>12, <2>1
  <2>3. \A i \in DOMAIN new : i # 1 => new[i].kind # "calls"
    BY <1>3
  <2>4. /\ Cardinality(OwnCalls(r.ms \o new, t)) <= Cardinality(OwnCalls(r.ms, t)) + 1
        /\ Cardinality(OwnCalls(r.ms, t)) \in Nat
    BY <1>1, <1>3, <2>3, OwnConcat, OwnFinite
  <2>5. Cardinality(OwnCalls(r.ms \o new, t)) \in Nat
    <3>1. r.ms \o new \in Seq(Messages)
      BY <1>1, <1>3
    <3> QED BY <3>1, OwnFinite
  <2>6. Cardinality(OwnCalls(o.ms, t)) <= k + 1
    BY <1>1, <1>5, <1>10, <1>12, <2>4, <2>5
  <2> QED BY <1>13, <2>2, <2>6 DEF Counts
<1>16. AnsweredBut(o.ms, ToSet(rest))
  <2>1. AnsweredBut(r.ms, {})
    BY DEF TurnInv, Whole
  <2>2. \A i \in DOMAIN new : new[i].kind = "calls" => Ids(new[i]) \subseteq Answered(new) \cup ToSet(rest)
    <3> SUFFICES ASSUME NEW i \in DOMAIN new, new[i].kind = "calls" PROVE Ids(new[i]) \subseteq Answered(new) \cup ToSet(rest)
      OBVIOUS
    <3>1. i = 1
      BY <1>3
    <3> QED BY <3>1, <1>2, <1>3, <1>4
  <2>3. {} \subseteq Answered(new) \cup ToSet(rest)
    OBVIOUS
  <2>4. AnsweredBut(r.ms \o new, ToSet(rest))
    BY <1>1, <1>3, <2>1, <2>2, <2>3, ConcatAnsweredBut
  <2> QED BY <1>10, <1>12, <2>4
<1>17. Whole(o)
  BY <1>12, <1>13, <1>16 DEF Whole
<1>18. Waiting(t, o, st)
  <2> SUFFICES ASSUME o.pc = "dispatch", o.batch = rest PROVE Waiting(t, o, st)
    BY <1>12 DEF Waiting
  <2>1. \A c \in ToSet(rest) : c.by = t
    BY <1>2 DEF FreshCalls
  <2>2. ASSUME NEW c \in ToSet(rest) PROVE \E i \in DOMAIN o.ms : o.ms[i].kind = "calls" /\ c \in Ids(o.ms[i])
    <3>1. /\ Len(r.ms) \in Nat /\ Len(r.ms) + 1 \in DOMAIN (r.ms \o new)
          /\ (r.ms \o new)[Len(r.ms) + 1] = new[1]
      <4>1. Len(r.ms) \in Nat /\ Len(new) \in Nat /\ Len(new) >= 1
        BY <1>1, <1>3
      <4> QED BY <4>1, <1>1, <1>3
    <3>2. new[1].kind = "calls" /\ c \in Ids(new[1])
      BY <1>2, <1>3, <1>4
    <3>3. o.ms = r.ms \o new
      BY <1>10, <1>12
    <3> QED BY <3>1, <3>2, <3>3
  <2>3. ASSUME NEW s, Carried(s) \cap ToSet(cs) = {} PROVE Open(s, ToSet(rest))
    <3>1. \A i \in DOMAIN s : Ids(s[i]) \subseteq Carried(s)
      BY DEF Carried
    <3> QED BY <3>1, <2>3, <1>2 DEF Open
  <2>4. Open(new, ToSet(rest))
    <3>1. \A i \in DOMAIN new : new[i].kind = "result" => Ids(new[i]) \subseteq ToSet(inv)
      BY <1>3 DEF Answered
    <3>2. ToSet(inv) \cap ToSet(rest) = {}
      BY <1>2
    <3> QED BY <3>1, <3>2, <1>3, <1>4 DEF Open
  <2>5. Open(st, ToSet(rest)) /\ Open(r.sent, ToSet(rest)) /\ Open(r.ms, ToSet(rest))
    BY <1>6, <2>3
  <2>6. Open(r.sent \o new, ToSet(rest)) /\ Open(r.ms \o new, ToSet(rest))
    BY <1>1, <1>3, <2>4, <2>5, ConcatOpen
  <2>7. Open(o.sent, ToSet(rest)) /\ Open(o.ms, ToSet(rest))
    BY <1>10, <1>12, <2>5, <2>6
  <2> QED BY <1>2, <2>1, <2>2, <2>5, <2>7 DEF Waiting
<1>19. Phases(t, o)
  BY <1>12 DEF Phases
<1> QED BY <1>12, <1>14, <1>15, <1>17, <1>18, <1>19 DEF TurnInv, o

\* The ids the model gives to calls are new in the turn.
LEMMA CallsAreFresh ==
  ASSUME NEW t \in Turns, NEW k \in Nat, NEW n \in 0 .. MaxCalls, NEW d \in [1 .. n -> BOOLEAN]
  PROVE  FreshCalls([i \in 1 .. n |-> [by |-> t, n |-> k * MaxCalls + i, delegates |-> d[i]]], t, k)
PROOF
<1> DEFINE c(i) == [by |-> t, n |-> k * MaxCalls + i, delegates |-> d[i]]
           cs == [i \in 1 .. n |-> c(i)]
           base == k * MaxCalls
<1>1. base \in Nat /\ (k + 1) * MaxCalls = base + MaxCalls /\ MaxCalls \in Nat /\ n \in Nat /\ n <= MaxCalls
  <2>1. n <= MaxCalls /\ n \in Nat /\ MaxCalls \in Nat
    BY TurnAssumption
  <2> QED BY <2>1, RoundsTimes
<1> HIDE DEF base
<1>2. ASSUME NEW i \in 1 .. n
      PROVE  c(i) \in Calls /\ c(i).by = t /\ c(i).n = base + i /\ c(i).n > base /\ c(i).n <= base + MaxCalls
  <2>1. base + i \in Nat \ {0} /\ base + i > base /\ base + i <= base + MaxCalls
    BY <1>1
  <2>2. c(i).by = t /\ c(i).n = base + i /\ c(i) = [by |-> t, n |-> base + i, delegates |-> d[i]] /\ d[i] \in BOOLEAN
    BY DEF base
  <2> QED BY <2>1, <2>2 DEF Calls
<1> HIDE DEF c
<1>3. cs \in Seq(Calls) /\ DOMAIN cs = 1 .. n /\ \A i \in 1 .. n : cs[i] = c(i)
  <2>1. cs \in [1 .. n -> Calls]
    BY <1>2
  <2> QED BY <2>1, <1>1
<1> HIDE DEF cs
<1>4. Distinct(cs)
  <2> SUFFICES ASSUME NEW i \in 1 .. n, NEW j \in 1 .. n, c(i) = c(j) PROVE i = j
    BY <1>3 DEF Distinct
  <2>1. base + i = base + j
    BY <1>2
  <2> QED BY <2>1, <1>1
<1>5. \A x \in ToSet(cs) : x.by = t /\ x.n > base /\ x.n <= base + MaxCalls
  BY <1>2, <1>3 DEF ToSet
<1>6. FreshCalls(cs, t, k)
  BY <1>1, <1>3, <1>4, <1>5 DEF FreshCalls, base
<1> QED BY <1>6 DEF cs, c

\* An answer, streamed or not.
LEMMA AnswerHolds ==
  ASSUME TurnsInv, NEW t \in Turns, turn[t].pc \in {"chat", "fallback"}, Answer(t), rows' = rows, threaded' = threaded
  PROVE  TurnsInv'
PROOF
<1> DEFINE r == turn[t]
<1>1. r \in TurnStates /\ TurnInv(t, r, Stored) /\ Stored \in Seq(Messages) /\ r.iter \in Nat
  BY StoredTyped DEF Stored, TurnsInv, TurnStates
<1>2. CASE Set(t, Finished(r))
  <2>1. Finished(r) \in TurnStates /\ TurnInv(t, Finished(r), Stored)
    BY <1>1, FinishedHolds
  <2> QED BY <1>2, <2>1, TurnMoves DEF Set
<1>3. CASE \E n \in 0 .. MaxCalls : \E d \in [1 .. n -> BOOLEAN] :
             LET cs == [i \in 1 .. n |-> [by |-> t, n |-> r.iter * MaxCalls + i, delegates |-> d[i]]]
             IN  \E valid \in SUBSET ToSet(cs) : Set(t, TakeCalls(r, cs, valid))
  <2>0. PICK n \in 0 .. MaxCalls : \E d \in [1 .. n -> BOOLEAN] :
             LET cs == [i \in 1 .. n |-> [by |-> t, n |-> r.iter * MaxCalls + i, delegates |-> d[i]]]
             IN  \E valid \in SUBSET ToSet(cs) : Set(t, TakeCalls(r, cs, valid))
    BY <1>3
  <2>1. PICK d \in [1 .. n -> BOOLEAN] :
             LET cs == [i \in 1 .. n |-> [by |-> t, n |-> r.iter * MaxCalls + i, delegates |-> d[i]]]
             IN  \E valid \in SUBSET ToSet(cs) : Set(t, TakeCalls(r, cs, valid))
    BY <2>0
  <2> DEFINE cs == [i \in 1 .. n |-> [by |-> t, n |-> r.iter * MaxCalls + i, delegates |-> d[i]]]
  <2>2. FreshCalls(cs, t, r.iter)
    BY <1>1, CallsAreFresh
  <2>3. PICK valid \in SUBSET ToSet(cs) : Set(t, TakeCalls(r, cs, valid))
    BY <2>1
  <2> HIDE DEF cs
  <2>4. TakeCalls(r, cs, valid) \in TurnStates /\ TurnInv(t, TakeCalls(r, cs, valid), Stored)
    BY <1>1, <2>2, TakeCallsHolds
  <2> QED BY <2>3, <2>4, TurnMoves DEF Set
<1> QED BY <1>2, <1>3 DEF Answer

(***************************************************************************)
(* The answers of the tools.                                               *)
(***************************************************************************)

\* The first element of a sequence and those that follow it.
LEMMA HeadAndTail ==
  ASSUME NEW X, NEW s \in Seq(X), s # <<>>
  PROVE  /\ Head(s) = s[1] /\ Head(s) \in X /\ 1 \in DOMAIN s
         /\ Tail(s) \in Seq(X) /\ Sub(Tail(s), s)
         /\ \A i \in DOMAIN Tail(s) : i + 1 \in DOMAIN s /\ 1 < i + 1 /\ Tail(s)[i] = s[i + 1]
         /\ \A i \in DOMAIN s : i # 1 => i - 1 \in DOMAIN Tail(s) /\ Tail(s)[i - 1] = s[i]
PROOF
<1>1. Len(s) \in Nat /\ Len(s) >= 1 /\ DOMAIN s = 1 .. Len(s) /\ \A i \in DOMAIN s : s[i] \in X
  BY EmptySeq
<1>2. Head(s) = s[1] /\ Tail(s) \in Seq(X) /\ DOMAIN Tail(s) = 1 .. (Len(s) - 1)
  OBVIOUS
<1>3. \A i \in DOMAIN Tail(s) : Tail(s)[i] = s[i + 1]
  OBVIOUS
<1> DEFINE u == Tail(s)
           e == [i \in DOMAIN u |-> i + 1]
<1> HIDE DEF u
<1>4. \A i \in DOMAIN u : i + 1 \in DOMAIN s /\ 1 < i + 1 /\ u[i] = s[i + 1]
  BY <1>1, <1>2, <1>3 DEF u
<1>5. \A i \in DOMAIN s : i # 1 => i - 1 \in DOMAIN u /\ u[i - 1] = s[i]
  <2> SUFFICES ASSUME NEW i \in DOMAIN s, i # 1 PROVE i - 1 \in DOMAIN u /\ u[i - 1] = s[i]
    OBVIOUS
  <2>1. i - 1 \in 1 .. (Len(s) - 1) /\ (i - 1) + 1 = i
    BY <1>1
  <2> QED BY <2>1, <1>2, <1>3 DEF u
<1>6. e \in [DOMAIN u -> DOMAIN s] /\ \A k \in DOMAIN u : u[k] = s[e[k]]
  BY <1>4
<1>7. \A k, l \in DOMAIN u : k < l => e[k] < e[l]
  BY <1>1, <1>2 DEF u
<1> HIDE DEF e
<1>8. Sub(u, s)
  BY <1>6, <1>7 DEF Sub
<1> QED BY <1>1, <1>2, <1>4, <1>5, <1>8 DEF u

-----------------------------------------------------------------------------
\* A stream that breaks leaves the conversation as it is.
LEMMA StreamBreaksHolds == ASSUME TurnsInv, NEW t \in Turns, StreamBreaks(t) PROVE TurnsInv'
PROOF
<1> DEFINE r == turn[t]
           o == [r EXCEPT !.pc = "fallback"]
<1>1. r \in TurnStates /\ TurnInv(t, r, Stored) /\ r.pc = "chat"
  BY DEF TurnsInv, StreamBreaks
<1>2. turn' = [turn EXCEPT ![t] = o] /\ rows' = rows /\ threaded' = threaded
  BY DEF StreamBreaks, Set
<1>3. /\ o \in TurnStates /\ o.pc = "fallback" /\ o.ms = r.ms /\ o.start = r.start /\ o.batch = r.batch
      /\ o.sent = r.sent /\ o.iter = r.iter /\ o.terminal = r.terminal
  BY <1>1 DEF TurnStates, Places
<1> HIDE DEF r, o
<1>4. Rounds(o) = Rounds(r)
  BY <1>1, <1>3 DEF Rounds
<1>5. Paired(o) /\ OwnAfter(t, o) /\ Whole(o) /\ Waiting(t, o, Stored) /\ Phases(t, o)
  BY <1>1, <1>3 DEF TurnInv, Paired, OwnAfter, Whole, Waiting, Phases
<1>6. Sending(t, o, Stored) /\ Counts(t, o, Stored)
  BY <1>1, <1>3, <1>4 DEF TurnInv, Sending, Counts, Ended
<1> QED BY <1>2, <1>3, <1>5, <1>6, TurnMoves DEF TurnInv

\* A turn whose second call fails leaves what the interceptor has to store.
LEMMA FallbackFailsHolds == ASSUME TurnsInv, NEW t \in Turns, FallbackFails(t) PROVE TurnsInv'
PROOF
<1>1. turn[t] \in TurnStates /\ TurnInv(t, turn[t], Stored) /\ Stored \in Seq(Messages)
  BY StoredTyped DEF Stored, TurnsInv
<1>2. turn' = [turn EXCEPT ![t] = Over(turn[t], "failed")] /\ rows' = rows /\ threaded' = threaded
  BY DEF FallbackFails, Set
<1>3. Over(turn[t], "failed") \in TurnStates /\ TurnInv(t, Over(turn[t], "failed"), Stored)
  BY <1>1, OverHolds DEF Ended
<1> QED BY <1>2, <1>3, TurnMoves

-----------------------------------------------------------------------------
\* A turn that answers some of its batch: those calls leave it, and others may leave
\* it unanswered only when the loop ends.
LEMMA BatchAnswered ==
  ASSUME NEW t \in Turns, NEW r \in TurnStates, NEW st \in Seq(Messages), TurnInv(t, r, st),
         r.pc \in {"dispatch", "ask"},
         NEW told \in Seq(Calls), Distinct(told), NEW rest \in Seq(Calls), Distinct(rest),
         ToSet(told) \subseteq ToSet(r.batch), ToSet(rest) \subseteq ToSet(r.batch), ToSet(told) \cap ToSet(rest) = {},
         NEW o \in TurnStates, o.ms = Push(r, Results(told)).ms, o.sent = Push(r, Results(told)).sent,
         o.start = r.start, o.pc = "ask", o.iter = r.iter, o.batch = rest,
         ~o.terminal => ~r.terminal /\ ToSet(r.batch) = ToSet(told) \cup ToSet(rest)
  PROVE  TurnInv(t, o, st)
PROOF
<1> DEFINE new == Results(told)
           k == r.iter
<1>1. r.ms \in Seq(Messages) /\ r.sent \in Seq(Messages) /\ r.batch \in Seq(Calls) /\ k \in Nat
  BY DEF TurnStates
<1>2. /\ new \in Seq(Messages) /\ DOMAIN new = DOMAIN told
      /\ \A i \in DOMAIN told : new[i].kind = "result" /\ Ids(new[i]) = {told[i]}
      /\ Carried(new) = ToSet(told) /\ Answered(new) = ToSet(told)
      /\ Ordered(new)
  BY ResultsOf
<1> HIDE DEF new
<1>3. /\ \A c \in ToSet(r.batch) : c.by = t /\ \E i \in DOMAIN r.ms : r.ms[i].kind = "calls" /\ c \in Ids(r.ms[i])
      /\ Open(st, ToSet(r.batch)) /\ Open(r.sent, ToSet(r.batch)) /\ Open(r.ms, ToSet(r.batch))
  BY DEF TurnInv, Waiting
<1>4. \A s, C, D : Open(s, C) /\ D \subseteq C => Open(s, D)
  BY DEF Open
<1>5. Open(st, Carried(new)) /\ Open(r.sent, Carried(new)) /\ Open(r.ms, Carried(new))
  BY <1>2, <1>3, <1>4
<1>6. Before(st, new) /\ Before(r.sent, new) /\ Before(r.ms, new)
  BY <1>1, <1>2, <1>5, BeforeByIds
<1>7. By(new, t)
  BY <1>2, <1>3 DEF By
<1>8. ASSUME NEW j \in DOMAIN new
      PROVE  \E i \in DOMAIN r.ms : r.ms[i].kind = "calls" /\ Ids(new[j]) \subseteq Ids(r.ms[i])
  <2>1. told[j] \in ToSet(r.batch) /\ Ids(new[j]) = {told[j]}
    BY <1>2 DEF ToSet
  <2> QED BY <2>1, <1>3
<1>9. o.pc \notin Ended /\ r.pc \notin Ended
  BY DEF Ended
<1>10. Paired(o) /\ Sending(t, o, st) /\ OwnAfter(t, o)
  BY <1>2, <1>6, <1>7, <1>8, <1>9, PushHolds DEF new
<1>11. o.ms = r.ms \o new /\ o.sent \in {r.sent, r.sent \o new}
  BY <1>2, PushTyped DEF new
<1>12. Rounds(o) = k + 1 /\ Rounds(r) = k + 1
  BY DEF Rounds
<1>13. Counts(t, o, st)
  <2>1. /\ Numbered(st, t, k + 1) /\ Numbered(r.sent, t, k + 1) /\ Numbered(r.ms, t, k + 1)
        /\ Cardinality(OwnCalls(r.ms, t)) <= k + 1
    BY <1>9, <1>12 DEF TurnInv, Counts
  <2>2. Carried(new) \subseteq Carried(r.ms)
    BY <1>8 DEF Carried
  <2>3. Carried(r.ms \o new) = Carried(r.ms) \cup Carried(new) /\ Carried(r.sent \o new) = Carried(r.sent) \cup Carried(new)
    BY <1>1, <1>2, ConcatCarried
  <2>4. Numbered(r.ms \o new, t, k + 1) /\ Numbered(r.sent \o new, t, k + 1)
    BY <2>1, <2>2, <2>3 DEF Numbered
  <2>5. \A i \in DOMAIN new : new[i].kind # "calls"
    BY <1>2
  <2>6. OwnCalls(r.ms \o new, t) = OwnCalls(r.ms, t)
    BY <1>1, <1>2, <2>5, OwnConcat
  <2> QED BY <1>11, <1>12, <2>1, <2>4, <2>6 DEF Counts
<1>14. Whole(o)
  <2> SUFFICES ASSUME ~o.terminal PROVE AnsweredBut(o.ms, ToSet(rest))
    BY DEF Whole
  <2>1. AnsweredBut(r.ms, ToSet(r.batch))
    BY DEF TurnInv, Whole
  <2>2. ToSet(r.batch) \subseteq Answered(new) \cup ToSet(rest)
    BY <1>2
  <2>3. \A i \in DOMAIN new : new[i].kind = "calls" => Ids(new[i]) \subseteq Answered(new) \cup ToSet(rest)
    BY <1>2
  <2>4. AnsweredBut(r.ms \o new, ToSet(rest))
    BY <1>1, <1>2, <2>1, <2>2, <2>3, ConcatAnsweredBut
  <2> QED BY <2>4, <1>11
<1>15. Waiting(t, o, st)
  <2>1. ASSUME NEW c \in ToSet(rest)
        PROVE  c.by = t /\ \E i \in DOMAIN o.ms : o.ms[i].kind = "calls" /\ c \in Ids(o.ms[i])
    <3>1. PICK i \in DOMAIN r.ms : r.ms[i].kind = "calls" /\ c \in Ids(r.ms[i])
      BY <1>3
    <3>2. i \in DOMAIN (r.ms \o new) /\ (r.ms \o new)[i] = r.ms[i]
      BY <1>1, <1>2
    <3> QED BY <3>1, <3>2, <1>3, <1>11
  <2>2. Open(new, ToSet(rest))
    <3>1. \A i \in DOMAIN told : told[i] \notin ToSet(rest)
      BY DEF ToSet
    <3> QED BY <3>1, <1>2 DEF Open
  <2>3. Open(st, ToSet(rest)) /\ Open(r.sent, ToSet(rest)) /\ Open(r.ms, ToSet(rest))
    BY <1>3, <1>4
  <2>4. Open(r.sent \o new, ToSet(rest)) /\ Open(r.ms \o new, ToSet(rest))
    BY <1>1, <1>2, <2>2, <2>3, ConcatOpen
  <2>5. Open(o.sent, ToSet(rest)) /\ Open(o.ms, ToSet(rest))
    BY <1>11, <2>3, <2>4
  <2> QED BY <2>1, <2>3, <2>5 DEF Waiting
<1>16. Phases(t, o)
  BY DEF Phases
<1> QED BY <1>10, <1>13, <1>14, <1>15, <1>16 DEF TurnInv

\* The tools answer, ask, or end the turn.
LEMMA DispatchHolds == ASSUME TurnsInv, NEW t \in Turns, Dispatch(t) PROVE TurnsInv'
PROOF
<1> DEFINE r == turn[t]
           cs == r.batch
<1>1. /\ r \in TurnStates /\ TurnInv(t, r, Stored) /\ r.pc = "dispatch" /\ Stored \in Seq(Messages)
      /\ rows' = rows /\ threaded' = threaded
  BY StoredTyped DEF TurnsInv, Dispatch, Stored
<1>2. PICK f \in [ToSet(cs) -> {"done", "terminal", "ask"}] :
        LET ends  == Len(cs) = 1 /\ f[cs[1]] = "terminal"
            asked == {c \in ToSet(cs) : f[c] = "ask"}
            told  == IF ends THEN {} ELSE ToSet(cs) \ asked
        IN  Set(t, [Push(r, Results(Among(cs, told)))
                      EXCEPT !.pc = "ask", !.batch = Among(cs, asked), !.terminal = ends])
  BY DEF Dispatch
<1> DEFINE ends  == Len(cs) = 1 /\ f[cs[1]] = "terminal"
           asked == {c \in ToSet(cs) : f[c] = "ask"}
           told  == IF ends THEN {} ELSE ToSet(cs) \ asked
           A == Among(cs, told)
           B == Among(cs, asked)
           p == Push(r, Results(A))
           o == [p EXCEPT !.pc = "ask", !.batch = B, !.terminal = ends]
<1>3. cs \in Seq(Calls) /\ Distinct(cs) /\ ~r.terminal
  BY <1>1 DEF TurnInv, Waiting, Whole, TurnStates
<1>4. /\ told \subseteq ToSet(cs) /\ asked \subseteq ToSet(cs) /\ told \cap asked = {} /\ ends \in BOOLEAN
      /\ ~ends => ToSet(cs) = told \cup asked
  OBVIOUS
<1>5. turn' = [turn EXCEPT ![t] = o]
  BY <1>2 DEF Set
<1> HIDE DEF told, asked, ends
<1>6. /\ A \in Seq(Calls) /\ Distinct(A) /\ ToSet(A) = told
      /\ B \in Seq(Calls) /\ Distinct(B) /\ ToSet(B) = asked
  BY <1>3, <1>4, AmongCalls
<1> HIDE DEF A, B
<1>7. /\ p \in TurnStates /\ p.start = r.start /\ p.iter = r.iter
  BY <1>1, <1>6, ResultsOf, PushTyped
<1>8. /\ o \in TurnStates /\ o.ms = p.ms /\ o.sent = p.sent /\ o.start = p.start /\ o.pc = "ask"
      /\ o.iter = p.iter /\ o.batch = B /\ o.terminal = ends
  <2> HIDE DEF p
  <2> QED BY <1>4, <1>6, <1>7 DEF TurnStates, Places
<1> HIDE DEF o
<1>9. TurnInv(t, o, Stored)
  BY <1>1, <1>3, <1>4, <1>6, <1>7, <1>8, BatchAnswered
<1> QED BY <1>1, <1>5, <1>8, <1>9, TurnMoves

\* The user decides about one call.
LEMMA DecideHolds == ASSUME TurnsInv, NEW t \in Turns, Decide(t) PROVE TurnsInv'
PROOF
<1> DEFINE r == turn[t]
           cs == r.batch
           rest == [r EXCEPT !.batch = Tail(@)]
<1>1. /\ r \in TurnStates /\ TurnInv(t, r, Stored) /\ r.pc = "ask" /\ cs # <<>> /\ Stored \in Seq(Messages)
      /\ rows' = rows /\ threaded' = threaded
  BY StoredTyped DEF TurnsInv, Decide, Stored
<1>2. cs \in Seq(Calls) /\ Distinct(cs)
  BY <1>1 DEF TurnInv, Waiting, TurnStates
<1> DEFINE h == Head(cs)
           B == Tail(cs)
           A == <<h>>
<1>3. h \in Calls /\ h = cs[1] /\ 1 \in DOMAIN cs /\ B \in Seq(Calls) /\ Sub(B, cs)
  BY <1>1, <1>2, HeadAndTail
<1>4. /\ \A i \in DOMAIN B : i + 1 \in DOMAIN cs /\ 1 < i + 1 /\ B[i] = cs[i + 1]
      /\ \A i \in DOMAIN cs : i # 1 => i - 1 \in DOMAIN B /\ B[i - 1] = cs[i]
  BY <1>1, <1>2, HeadAndTail
<1>5. A \in Seq(Calls) /\ DOMAIN A = {1} /\ A[1] = h
  BY <1>3
<1>6. Results(A) = <<Result(h)>>
  <2>1. Results(A) = [i \in {1} |-> Result(h)]
    BY <1>5 DEF Results
  <2>2. <<Result(h)>> = [i \in 1 .. 1 |-> Result(h)]
    OBVIOUS
  <2> QED BY <2>1, <2>2
<1> HIDE DEF A
<1>7. Distinct(A) /\ ToSet(A) = {h}
  BY <1>5 DEF Distinct, ToSet
<1>8. Distinct(B)
  <2> SUFFICES ASSUME NEW i \in DOMAIN B, NEW j \in DOMAIN B, B[i] = B[j] PROVE i = j
    BY DEF Distinct
  <2>1. i + 1 = j + 1
    BY <1>2, <1>4 DEF Distinct
  <2>2. i \in Nat /\ j \in Nat
    <3>1. DOMAIN B = 1 .. Len(B)
      BY <1>3
    <3> QED BY <3>1
  <2> QED BY <2>1, <2>2
<1>9. ToSet(cs) = {h} \cup ToSet(B) /\ h \notin ToSet(B)
  <2>1. \A i \in DOMAIN cs : i = 1 \/ cs[i] \in ToSet(B)
    BY <1>4 DEF ToSet
  <2>2. \A i \in DOMAIN B : B[i] \in ToSet(cs) /\ B[i] # h
    BY <1>2, <1>3, <1>4 DEF ToSet, Distinct
  <2>3. h \in ToSet(cs)
    BY <1>3 DEF ToSet
  <2>4. ToSet(cs) \subseteq {h} \cup ToSet(B)
    BY <2>1, <1>3 DEF ToSet
  <2>5. ToSet(B) \subseteq ToSet(cs) /\ h \notin ToSet(B)
    BY <2>2 DEF ToSet
  <2> QED BY <2>3, <2>4, <2>5
<1>10. /\ rest = [r EXCEPT !.batch = B]
       /\ Set(t, Push(rest, <<Result(h)>>)) \/ Set(t, [rest EXCEPT !.terminal = TRUE])
  BY DEF Decide
<1> HIDE DEF B, h
<1>11. CASE Set(t, Push(rest, <<Result(h)>>))
  <2> DEFINE o == Push(rest, Results(A))
             p == Push(r, Results(A))
  <2>0. turn' = [turn EXCEPT ![t] = o]
    BY <1>6, <1>11 DEF Set
  <2>1. /\ rest \in TurnStates /\ rest.ms = r.ms /\ rest.sent = r.sent /\ rest.kind = r.kind /\ rest.pc = "ask"
        /\ rest.start = r.start /\ rest.iter = r.iter /\ rest.batch = B /\ rest.terminal = r.terminal
    BY <1>1, <1>3, <1>10 DEF TurnStates
  <2> HIDE DEF rest
  <2>2. Results(A) \in Seq(Messages)
    BY <1>5, <1>7, ResultsOf
  <2>3. /\ o \in TurnStates /\ o.ms = r.ms \o Results(A)
        /\ o.sent = (IF r.kind = "top" /\ threaded THEN r.sent \o Results(A) ELSE r.sent)
        /\ o.pc = "ask" /\ o.start = r.start /\ o.iter = r.iter /\ o.batch = B /\ o.terminal = r.terminal
    <3> HIDE DEF r
    <3>1. /\ o \in TurnStates /\ o.ms = rest.ms \o Results(A)
          /\ o.sent = (IF rest.kind = "top" /\ threaded THEN rest.sent \o Results(A) ELSE rest.sent)
          /\ o.pc = rest.pc /\ o.start = rest.start /\ o.iter = rest.iter /\ o.batch = rest.batch
          /\ o.terminal = rest.terminal
      BY <2>1, <2>2, PushTyped
    <3> HIDE DEF o
    <3> QED BY <2>1, <3>1
  <2>4. /\ p.ms = r.ms \o Results(A)
        /\ p.sent = (IF r.kind = "top" /\ threaded THEN r.sent \o Results(A) ELSE r.sent)
    BY <1>1, <2>2, PushTyped
  <2> HIDE DEF o, p
  <2>5. o.ms = Push(r, Results(A)).ms /\ o.sent = Push(r, Results(A)).sent
    BY <2>3, <2>4 DEF p
  <2>6. TurnInv(t, o, Stored)
    BY <1>1, <1>3, <1>5, <1>7, <1>8, <1>9, <2>3, <2>5, BatchAnswered
  <2> QED BY <1>1, <2>0, <2>3, <2>6, TurnMoves
<1>12. CASE Set(t, [rest EXCEPT !.terminal = TRUE])
  <2> DEFINE o == [r EXCEPT !.batch = B, !.terminal = TRUE]
  <2>1. turn' = [turn EXCEPT ![t] = o]
    BY <1>10, <1>12 DEF Set
  <2>2. /\ o \in TurnStates /\ o.ms = r.ms /\ o.sent = r.sent /\ o.pc = "ask" /\ o.start = r.start
        /\ o.iter = r.iter /\ o.batch = B /\ o.terminal = TRUE
    BY <1>1, <1>3 DEF TurnStates
  <2> HIDE DEF o
  <2>3. Paired(o) /\ OwnAfter(t, o) /\ Whole(o) /\ Phases(t, o)
    BY <1>1, <2>2 DEF TurnInv, Paired, OwnAfter, Whole, Phases
  <2>4. Rounds(o) = Rounds(r)
    BY <1>1, <2>2 DEF Rounds
  <2>5. Sending(t, o, Stored) /\ Counts(t, o, Stored)
    BY <1>1, <2>2, <2>4 DEF TurnInv, Sending, Counts
  <2>6. Waiting(t, o, Stored)
    <3>1. \A s : Open(s, ToSet(cs)) => Open(s, ToSet(B))
      BY <1>9 DEF Open
    <3> QED BY <1>1, <1>8, <1>9, <2>2, <3>1 DEF TurnInv, Waiting
  <2> QED BY <1>1, <2>1, <2>2, <2>3, <2>5, <2>6, TurnMoves DEF TurnInv
<1> QED BY <1>10, <1>11, <1>12

\* The batch is answered: the model is asked again, or the turn ends.
LEMMA DecidedHolds == ASSUME TurnsInv, NEW t \in Turns, Decided(t) PROVE TurnsInv'
PROOF
<1> DEFINE r == turn[t]
           o == [r EXCEPT !.pc = "iterate", !.iter = @ + 1, !.batch = <<>>]
<1>1. /\ r \in TurnStates /\ TurnInv(t, r, Stored) /\ r.pc = "ask" /\ r.batch = <<>> /\ Stored \in Seq(Messages)
      /\ rows' = rows /\ threaded' = threaded
  BY StoredTyped DEF TurnsInv, Decided, Stored
<1>2. CASE r.terminal
  <2>1. turn' = [turn EXCEPT ![t] = Finished(r)]
    BY <1>2 DEF Decided, Set
  <2>2. Finished(r) \in TurnStates /\ TurnInv(t, Finished(r), Stored)
    BY <1>1, FinishedHolds
  <2> QED BY <1>1, <2>1, <2>2, TurnMoves
<1>3. CASE ~r.terminal
  <2>1. turn' = [turn EXCEPT ![t] = o]
    BY <1>3 DEF Decided, Set, NextIteration
  <2>2. r.iter \in Nat /\ r.iter + 1 \in Nat /\ <<>> \in Seq(Calls)
    BY <1>1 DEF TurnStates
  <2>3. /\ o \in TurnStates /\ o.ms = r.ms /\ o.sent = r.sent /\ o.pc = "iterate" /\ o.start = r.start
        /\ o.iter = r.iter + 1 /\ o.terminal = r.terminal
    BY <1>1, <2>2 DEF TurnStates, Places
  <2> HIDE DEF o
  <2>4. Paired(o) /\ OwnAfter(t, o) /\ Phases(t, o) /\ Waiting(t, o, Stored)
    BY <1>1, <2>3 DEF TurnInv, Paired, OwnAfter, Phases, Waiting
  <2>5. Rounds(o) = Rounds(r)
    BY <1>1, <2>3 DEF Rounds
  <2>6. Sending(t, o, Stored) /\ Counts(t, o, Stored)
    BY <1>1, <2>3, <2>5 DEF TurnInv, Sending, Counts, Ended
  <2>7. Whole(o)
    BY <1>1, <1>3, <2>3, Nothing DEF TurnInv, Whole
  <2> QED BY <1>1, <2>1, <2>3, <2>4, <2>6, <2>7, TurnMoves DEF TurnInv
<1> QED BY <1>2, <1>3

(***************************************************************************)
(* The interceptor, the end of a turn, and the theorems about the turns.   *)
(***************************************************************************)

\* What the interceptor takes from its channel follows everything stored, and what
\* it leaves follows what it took.
LEMMA OneLess ==
  ASSUME NEW t \in Turns, NEW r \in TurnStates, NEW st \in Seq(Messages), TurnInv(t, r, st), r.sent # <<>>,
         NEW o \in TurnStates, o.sent = Tail(r.sent), o.pc = r.pc, o.ms = r.ms, o.start = r.start, o.iter = r.iter,
         o.batch = r.batch, o.terminal = r.terminal, o.out = r.out
  PROVE  /\ Head(r.sent) \in Messages
         /\ Before(st, <<Head(r.sent)>>) /\ By(<<Head(r.sent)>>, t) /\ Ordered(<<Head(r.sent)>>)
         /\ TurnInv(t, o, st) /\ TurnInv(t, o, st \o <<Head(r.sent)>>)
PROOF
<1> DEFINE h == Head(r.sent)
           B == Tail(r.sent)
           one == <<h>>
<1>1. r.sent \in Seq(Messages) /\ r.ms \in Seq(Messages)
  BY DEF TurnStates
<1>2. /\ h = r.sent[1] /\ h \in Messages /\ 1 \in DOMAIN r.sent /\ B \in Seq(Messages) /\ Sub(B, r.sent)
      /\ \A i \in DOMAIN B : i + 1 \in DOMAIN r.sent /\ 1 < i + 1 /\ B[i] = r.sent[i + 1]
  BY <1>1, HeadAndTail
<1>3. o.sent = B
  OBVIOUS
<1> HIDE DEF h, B
<1>4. one \in Seq(Messages) /\ DOMAIN one = {1} /\ one[1] = h /\ Carried(one) = Ids(h) /\ Ordered(one)
  BY <1>2, OneMessage
<1> HIDE DEF one
<1>5. Ordered(r.sent) /\ Before(st, r.sent) /\ By(r.sent, t) /\ (~threaded => r.pc \in Ended \cup {"persist"})
  BY DEF TurnInv, Sending
<1>6. Carried(B) \subseteq Carried(r.sent) /\ Carried(one) \subseteq Carried(r.sent)
  <2>1. Carried(B) \subseteq Carried(r.sent)
    BY <1>2, SubCarried
  <2>2. Ids(h) \subseteq Carried(r.sent)
    BY <1>2 DEF Carried
  <2> QED BY <2>1, <2>2, <1>4
<1>7. Before(st, one) /\ By(one, t) /\ Before(st, B) /\ By(B, t) /\ Before(one, B) /\ Ordered(B)
  <2>1. Before(st, one) /\ Before(st, B)
    BY <1>2, <1>4, <1>5 DEF Before
  <2>2. By(one, t) /\ By(B, t)
    BY <1>5, <1>6 DEF By
  <2>3. Before(one, B)
    BY <1>2, <1>4, <1>5 DEF Before, Ordered
  <2>4. Ordered(B)
    BY <1>1, <1>2, <1>5, SubOrdered
  <2> QED BY <2>1, <2>2, <2>3, <2>4
<1>8. Rounds(o) = Rounds(r)
  BY DEF Rounds
<1>9. r.pc \notin {"idle", "routed", "context"}
  BY DEF TurnInv, Phases
<1>10. Paired(o) /\ OwnAfter(t, o) /\ Whole(o) /\ Phases(t, o)
  BY <1>9 DEF TurnInv, Paired, OwnAfter, Whole, Phases
<1>11. Sending(t, o, st) /\ Sending(t, o, st \o one)
  <2>1. Before(st \o one, B)
    BY <1>2, <1>4, <1>7, ConcatBefore
  <2> QED BY <1>3, <1>5, <1>7, <2>1 DEF Sending
<1>12. Carried(st \o one) = Carried(st) \cup Carried(one)
  BY <1>4, ConcatCarried
<1>13. Counts(t, o, st) /\ Counts(t, o, st \o one)
  <2> SUFFICES ASSUME r.pc \notin Ended \cup {"persist"}
               PROVE  /\ Numbered(st, t, Rounds(r)) /\ Numbered(st \o one, t, Rounds(r)) /\ Numbered(B, t, Rounds(r))
                      /\ Numbered(r.ms, t, Rounds(r)) /\ Cardinality(OwnCalls(r.ms, t)) <= Rounds(r)
    BY <1>3, <1>8 DEF Counts
  <2>1. /\ Numbered(st, t, Rounds(r)) /\ Numbered(r.sent, t, Rounds(r)) /\ Numbered(r.ms, t, Rounds(r))
        /\ Cardinality(OwnCalls(r.ms, t)) <= Rounds(r)
    BY DEF TurnInv, Counts
  <2> QED BY <2>1, <1>6, <1>12 DEF Numbered
<1>14. Waiting(t, o, st) /\ Waiting(t, o, st \o one)
  <2> SUFFICES ASSUME r.pc \in {"dispatch", "ask"}
               PROVE  Open(B, ToSet(r.batch)) /\ Open(st \o one, ToSet(r.batch))
    BY <1>3 DEF TurnInv, Waiting
  <2>1. Open(st, ToSet(r.batch)) /\ Open(r.sent, ToSet(r.batch))
    BY DEF TurnInv, Waiting
  <2>2. Open(one, ToSet(r.batch)) /\ Open(B, ToSet(r.batch))
    BY <2>1, <1>2, <1>4 DEF Open
  <2> QED BY <2>1, <2>2, <1>4, ConcatOpen
<1>15. TurnInv(t, o, st) /\ TurnInv(t, o, st \o one)
  BY <1>10, <1>11, <1>13, <1>14 DEF TurnInv
<1> QED BY <1>2, <1>4, <1>7, <1>15 DEF one, h

\* The interceptor stores one message, or fails to.
LEMMA InterceptHolds == ASSUME TurnsInv, NEW t \in Turns, Intercept(t) PROVE TurnsInv'
PROOF
<1> DEFINE r == turn[t]
           h == Head(r.sent)
           B == Tail(r.sent)
<1>1. r \in TurnStates /\ TurnInv(t, r, Stored) /\ r.sent # <<>> /\ Stored \in Seq(Messages) /\ threaded' = threaded
  BY StoredTyped DEF TurnsInv, Intercept, Stored
<1>2. r.sent \in Seq(Messages) /\ B \in Seq(Messages) /\ r.ids \in Seq(Nat)
  <2>1. r.sent \in Seq(Messages) /\ r.ids \in Seq(Nat)
    BY <1>1 DEF TurnStates
  <2> QED BY <2>1, <1>1, HeadAndTail
<1>3. \/ /\ rows' = Append(rows, Row(t, h))
         /\ turn' = [turn EXCEPT ![t] = [r EXCEPT !.sent = B,
                       !.ids = IF r.pc \in Ended THEN r.ids ELSE Append(r.ids, Len(rows) + 1)]]
      \/ turn' = [turn EXCEPT ![t] = [r EXCEPT !.sent = B]] /\ rows' = rows
  BY DEF Intercept, Set
<1> HIDE DEF B
<1>4. CASE /\ rows' = Append(rows, Row(t, h))
           /\ turn' = [turn EXCEPT ![t] = [r EXCEPT !.sent = B,
                         !.ids = IF r.pc \in Ended THEN r.ids ELSE Append(r.ids, Len(rows) + 1)]]
  <2> DEFINE ids == IF r.pc \in Ended THEN r.ids ELSE Append(r.ids, Len(rows) + 1)
             o == [r EXCEPT !.sent = B, !.ids = ids]
  <2>1. turn' = [turn EXCEPT ![t] = o]
    BY <1>4
  <2>2. ids \in Seq(Nat)
    <3>1. Len(rows) + 1 \in Nat
      BY DEF TurnsInv
    <3>2. Append(r.ids, Len(rows) + 1) \in Seq(Nat)
      BY <3>1, <1>2
    <3> QED BY <3>2, <1>2
  <2> HIDE DEF ids
  <2>3. /\ o \in TurnStates /\ o.sent = B /\ o.pc = r.pc /\ o.ms = r.ms /\ o.start = r.start /\ o.iter = r.iter
        /\ o.batch = r.batch /\ o.terminal = r.terminal /\ o.out = r.out
    BY <1>1, <1>2, <2>2 DEF TurnStates
  <2> HIDE DEF o
  <2>4. /\ h \in Messages /\ Before(Stored, <<h>>) /\ By(<<h>>, t) /\ Ordered(<<h>>)
        /\ TurnInv(t, o, Stored \o <<h>>)
    BY <1>1, <2>3, OneLess DEF B
  <2>5. rows' \in Seq(StoredRows) /\ Stored' = Stored \o <<h>>
    BY <1>4, <2>4, RowAdded DEF TurnsInv, Stored
  <2>6. <<h>> \in Seq(Messages)
    BY <2>4
  <2> QED BY <1>1, <2>1, <2>3, <2>4, <2>5, <2>6, TurnStores
<1>5. CASE turn' = [turn EXCEPT ![t] = [r EXCEPT !.sent = B]] /\ rows' = rows
  <2> DEFINE o == [r EXCEPT !.sent = B]
  <2>1. turn' = [turn EXCEPT ![t] = o]
    BY <1>5
  <2>2. /\ o \in TurnStates /\ o.sent = B /\ o.pc = r.pc /\ o.ms = r.ms /\ o.start = r.start /\ o.iter = r.iter
        /\ o.batch = r.batch /\ o.terminal = r.terminal /\ o.out = r.out
    BY <1>1, <1>2 DEF TurnStates
  <2> HIDE DEF o
  <2>3. TurnInv(t, o, Stored)
    BY <1>1, <2>2, OneLess DEF B
  <2> QED BY <1>1, <1>5, <2>1, <2>2, <2>3, TurnMoves
<1> QED BY <1>3, <1>4, <1>5

-----------------------------------------------------------------------------
\* A turn that is over and has nothing to store asks nothing of what is stored.
LEMMA OverEmpty ==
  ASSUME NEW t \in Turns, NEW r \in TurnStates, r.sent = <<>>, NEW st
  PROVE  Over(r, "done") \in TurnStates /\ TurnInv(t, Over(r, "done"), st)
PROOF
<1> DEFINE o == Over(r, "done")
<1>1. o \in TurnStates /\ o.pc = "done" /\ o.ms = <<>> /\ o.sent = <<>> /\ o.terminal = FALSE
  <2>1. r.kind \in {"top", "delegated"} /\ <<>> \in Seq(Messages)
    BY DEF TurnStates
  <2>2. "done" \in Places
    BY DEF Places, Ended
  <2> QED BY <2>1, <2>2, IdleTyped DEF Over, TurnStates
<1> HIDE DEF o
<1>2. Paired(o) /\ OwnAfter(t, o) /\ Sending(t, o, st)
  BY <1>1, Nothing DEF Paired, OwnAfter, Sending, By, Ended
<1>3. Counts(t, o, st) /\ Whole(o) /\ Waiting(t, o, st) /\ Phases(t, o)
  BY <1>1 DEF Counts, Whole, Waiting, Phases, Ended
<1> QED BY <1>1, <1>2, <1>3 DEF TurnInv, o

\* Compacting rows leaves their messages.
LEMMA MarkedTyped ==
  ASSUME NEW rs \in Seq(StoredRows), NEW now \in [DOMAIN rs -> StoredRows], \A i \in DOMAIN rs : now[i].m = rs[i].m
  PROVE  now \in Seq(StoredRows) /\ MessagesOf(now) = MessagesOf(rs)
PROOF
<1>1. Len(rs) \in Nat /\ DOMAIN rs = 1 .. Len(rs) /\ DOMAIN now = 1 .. Len(rs) /\ now \in [1 .. Len(rs) -> StoredRows]
  OBVIOUS
<1>2. now \in Seq(StoredRows)
  BY <1>1
<1> QED BY <1>1, <1>2 DEF MessagesOf

-----------------------------------------------------------------------------
\* The end of a turn compacts rows, or fails to, and stores the reply.
LEMMA PersistHolds == ASSUME TurnsInv, NEW t \in Turns, Persist(t) PROVE TurnsInv'
PROOF
<1> DEFINE r == turn[t]
           o == Over(r, "done")
<1>1. /\ r \in TurnStates /\ r.sent = <<>> /\ threaded' = threaded
      /\ Stored \in Seq(Messages) /\ rows \in Seq(StoredRows)
  BY StoredTyped DEF TurnsInv, Persist, Stored
<1>2. PICK S : \/ rows' = [i \in DOMAIN rows |-> [rows[i] EXCEPT !.compacted = @ \/ i \in S]]
               \/ rows' = Append([i \in DOMAIN rows |-> [rows[i] EXCEPT !.compacted = @ \/ i \in S]], Row(t, Reply))
  BY DEF Persist
<1> DEFINE c(i) == rows[i].compacted \/ i \in S
           now == [i \in DOMAIN rows |-> [rows[i] EXCEPT !.compacted = c(i)]]
<1>3. rows' = now \/ rows' = Append(now, Row(t, Reply))
  BY <1>2
<1>4. turn' = [turn EXCEPT ![t] = o]
  BY DEF Persist, Set
<1>5. o \in TurnStates /\ \A st : TurnInv(t, o, st)
  BY <1>1, OverEmpty
<1>6. now \in Seq(StoredRows) /\ MessagesOf(now) = Stored
  <2>1. \A i : c(i) \in BOOLEAN
    <3>1. \A i : i \in S \/ i \notin S
      OBVIOUS
    <3> QED OBVIOUS
  <2> HIDE DEF c
  <2>2. \A i \in DOMAIN rows : rows[i] \in StoredRows
    BY <1>1
  <2>3. \A q \in StoredRows, b \in BOOLEAN : [q EXCEPT !.compacted = b] \in StoredRows /\ [q EXCEPT !.compacted = b].m = q.m
    BY DEF StoredRows
  <2>4. now \in [DOMAIN rows -> StoredRows] /\ \A i \in DOMAIN rows : now[i].m = rows[i].m
    BY <2>1, <2>2, <2>3
  <2> QED BY <1>1, <2>4, MarkedTyped DEF Stored
<1> HIDE DEF o, now
<1>7. CASE rows' = now
  <2>1. rows' \in Seq(StoredRows) /\ Stored' = Stored \o <<>>
    BY <1>1, <1>6, <1>7 DEF Stored
  <2>2. /\ <<>> \in Seq(Messages) /\ Ordered(<<>>) /\ Before(Stored, <<>>) /\ By(<<>>, t)
    BY <1>1, Nothing DEF By
  <2> QED BY <1>1, <1>4, <1>5, <2>1, <2>2, TurnStores
<1>8. CASE rows' = Append(now, Row(t, Reply))
  <2>1. rows' \in Seq(StoredRows) /\ Stored' = Stored \o <<Reply>>
    BY <1>6, <1>8, Forms, RowAdded DEF Stored
  <2>2. <<Reply>> \in Seq(Messages) /\ Carried(<<Reply>>) = {} /\ Ordered(<<Reply>>)
    BY Forms, OneMessage
  <2>3. Before(Stored, <<Reply>>) /\ By(<<Reply>>, t)
    BY <1>1, <2>2, BeforeByIds DEF By
  <2> QED BY <1>1, <1>4, <1>5, <2>1, <2>2, <2>3, TurnStores
<1> QED BY <1>3, <1>7, <1>8

\* Every step keeps the invariant of the turns.
LEMMA TurnsMove == ASSUME TurnsInv, [Next]_vars PROVE TurnsInv'
PROOF
<1>1. CASE Next
  <2>1. PICK t \in Turns : Route(t) \/ BeginDelegated(t) \/ Step(t)
    BY <1>1 DEF Next
  <2>2. CASE Stream(t)
    BY <2>2, AnswerHolds DEF Stream
  <2>3. CASE Fallback(t)
    BY <2>3, AnswerHolds DEF Fallback
  <2> QED BY <2>1, <2>2, <2>3, RouteHolds, BeginDelegatedHolds, BeginHolds, NoProviderHolds, BuildContextHolds, IterateHolds,
             StreamBreaksHolds, FallbackFailsHolds, DispatchHolds, DecideHolds, DecidedHolds, InterceptHolds, PersistHolds
          DEF Step
<1>2. CASE UNCHANGED vars
  BY <1>2 DEF vars, TurnsInv, TurnInv, Stored, Paired, Sending, OwnAfter, Counts, Whole, Waiting, Phases
<1> QED BY <1>1, <1>2

-----------------------------------------------------------------------------
\* The invariant makes what the model is shown whole.
LEMMA ShownWhole == ASSUME TurnsInv PROVE PairsIntact
PROOF
<1> SUFFICES ASSUME NEW t \in Turns, Talking(t)
             PROVE  /\ \A i \in DOMAIN turn[t].ms : turn[t].ms[i].kind = "calls" =>
                         \A c \in Ids(turn[t].ms[i]) :
                            Cardinality({j \in DOMAIN turn[t].ms :
                                           turn[t].ms[j].kind = "result" /\ c \in Ids(turn[t].ms[j])}) = 1
                    /\ \A j \in DOMAIN turn[t].ms : turn[t].ms[j].kind = "result" =>
                         \E i \in 1 .. (j - 1) :
                            turn[t].ms[i].kind = "calls" /\ Ids(turn[t].ms[j]) \subseteq Ids(turn[t].ms[i])
  BY DEF PairsIntact
<1> DEFINE ms == turn[t].ms
<1>1. /\ ms \in Seq(Messages) /\ Ordered(ms) /\ Called(ms) /\ AnsweredBut(ms, {})
      /\ DOMAIN ms = 1 .. Len(ms) /\ Len(ms) \in Nat
  <2>1. turn[t] \in TurnStates /\ TurnInv(t, turn[t], Stored)
    BY DEF TurnsInv
  <2>2. ms \in Seq(Messages)
    BY <2>1 DEF TurnStates
  <2> QED BY <2>1, <2>2 DEF TurnInv, Paired, Whole, Talking
<1> HIDE DEF ms
<1>2. ASSUME NEW i \in DOMAIN ms, ms[i].kind = "calls", NEW c \in Ids(ms[i])
      PROVE  Cardinality({j \in DOMAIN ms : ms[j].kind = "result" /\ c \in Ids(ms[j])}) = 1
  <2>1. PICK j \in DOMAIN ms : ms[j].kind = "result" /\ c \in Ids(ms[j])
    BY <1>1, <1>2 DEF AnsweredBut, Answered
  <2>2. ASSUME NEW k \in DOMAIN ms, ms[k].kind = "result", c \in Ids(ms[k]) PROVE k = j
    <3>1. ~(k < j) /\ ~(j < k)
      BY <1>1, <2>1, <2>2 DEF Ordered, Apart
    <3>2. k \in Nat /\ j \in Nat
      BY <1>1
    <3> QED BY <3>1, <3>2
  <2>3. {k \in DOMAIN ms : ms[k].kind = "result" /\ c \in Ids(ms[k])} = {j}
    BY <2>1, <2>2
  <2> QED BY <2>3, FS_Singleton
<1>3. ASSUME NEW j \in DOMAIN ms, ms[j].kind = "result"
      PROVE  \E i \in 1 .. (j - 1) : ms[i].kind = "calls" /\ Ids(ms[j]) \subseteq Ids(ms[i])
  <2>1. PICK i \in DOMAIN ms : i < j /\ ms[i].kind = "calls" /\ Ids(ms[j]) \subseteq Ids(ms[i])
    BY <1>1, <1>3 DEF Called
  <2>2. i \in 1 .. (j - 1)
    <3>1. i \in 1 .. Len(ms) /\ j \in 1 .. Len(ms)
      BY <1>1
    <3> QED BY <3>1, <2>1
  <2> QED BY <2>1, <2>2
<1> QED BY <1>2, <1>3 DEF ms

\* The invariant counts the answers that called tools.
LEMMA CallsCounted == ASSUME TurnsInv PROVE LoopBounded
PROOF
<1> SUFFICES ASSUME NEW t \in Turns, Talking(t)
             PROVE  /\ MaxIterations > 0 => turn[t].iter < MaxIterations
                    /\ Cardinality({i \in DOMAIN turn[t].ms : \E c \in Ids(turn[t].ms[i]) :
                          turn[t].ms[i].kind = "calls" /\ c.by = t}) <= turn[t].iter
  BY DEF LoopBounded
<1>1. TurnInv(t, turn[t], Stored)
  BY DEF TurnsInv
<1>2. MaxIterations > 0 => turn[t].iter < MaxIterations
  BY <1>1 DEF TurnInv, Phases, Talking
<1>3. Cardinality(OwnCalls(turn[t].ms, t)) <= turn[t].iter
  BY <1>1 DEF TurnInv, Counts, Talking, Ended, Rounds
<1>4. OwnCalls(turn[t].ms, t) = {i \in DOMAIN turn[t].ms : \E c \in Ids(turn[t].ms[i]) :
                                    turn[t].ms[i].kind = "calls" /\ c.by = t}
  BY DEF OwnCalls
<1> QED BY <1>2, <1>3, <1>4

\* For any turns on a thread, budget, window of history, cap, answers and failed inserts: every
\* call the model is shown has exactly one result, behind it, and every result has its call.
THEOREM ShownMessagesPair == Spec => []PairsIntact
PROOF
<1> QED BY InitHolds, TurnsMove, ShownWhole, PTL DEF Spec

\* For any turns on a thread, budget, window, answers and failed writes: the model is told of no
\* more answers that call tools than were counted and, when the agent has a cap (one above 0),
\* is asked again only below it.
THEOREM LoopsAreBounded == Spec => []LoopBounded
PROOF
<1> QED BY InitHolds, TurnsMove, CallsCounted, PTL DEF Spec

(***************************************************************************)
(* Lessons.                                                                *)
(***************************************************************************)

LessonRows ==
  [status : Lesson!Kept \cup {"rejected"}, text : Texts, sure : BOOLEAN, seen : 1 .. Interval, trusted : BOOLEAN]
Adding == [op : {"add"}, text : Texts, sure : BOOLEAN, seen : 1 .. Interval]
Writing ==
  [op : {"slot", "store"}, id : Nat, text : Texts, sure : BOOLEAN, seen : 1 .. Interval, status : Lesson!Kept]
Resting == [op : {"idle", "count", "extract"}]

LessonsTyped ==
  /\ insights \in [Lesson!Ids -> {Lesson!Free, Lesson!Gone} \cup LessonRows]
  /\ reflection \in [Turns -> Resting \cup Adding \cup Writing]

\* What makes a lesson count without asking.
Supported(x) == x.sure /\ x.seen >= MinSignals
Earned == \A i \in Lesson!Ids : insights[i].status = "active" => insights[i].trusted \/ Supported(insights[i])

\* A task that is to write "active" has the support itself, or read a lesson that the
\* user had activated; a row that was read stays, however its lesson goes.
Backed ==
  \A t \in Turns : reflection[t] \in Writing =>
    LET new == reflection[t]
    IN  /\ new.id # 0 => new.id \in Lesson!Ids /\ insights[new.id] # Lesson!Free
        /\ new.status = "active" =>
             Supported(new) \/ (new.id # 0 /\ (insights[new.id] = Lesson!Gone \/ insights[new.id].trusted))

LessonInv == LessonsTyped /\ Earned /\ Backed

-----------------------------------------------------------------------------
\* Rows and tasks have their fields, and no row of a lesson is free or gone.
LEMMA LessonForms ==
  /\ \A x \in {Lesson!Free, Lesson!Gone} : x \notin LessonRows /\ x.status \notin Lesson!Kept \cup {"rejected"}
  /\ \A x \in LessonRows : x.status \in Lesson!Kept \cup {"rejected"} /\ x.text \in Texts /\ x.sure \in BOOLEAN
                           /\ x.seen \in 1 .. Interval /\ x.trusted \in BOOLEAN
  /\ \A x \in Resting : x.op \in {"idle", "count", "extract"}
  /\ \A x \in Adding : x.op = "add" /\ x.text \in Texts /\ x.sure \in BOOLEAN /\ x.seen \in 1 .. Interval
  /\ \A x \in Writing : x.op \in {"slot", "store"} /\ x.id \in Nat /\ x.text \in Texts /\ x.sure \in BOOLEAN
                        /\ x.seen \in 1 .. Interval /\ x.status \in Lesson!Kept
PROOF
  BY DEF Lesson!Free, Lesson!Gone, LessonRows, Lesson!Kept, Resting, Adding, Writing

\* A step of a task that does not write.
LEMMA TaskThinks ==
  ASSUME LessonInv, NEW t \in Turns, NEW x \in Resting \cup Adding \cup Writing,
         reflection' = [reflection EXCEPT ![t] = x], insights' = insights,
         x \in Writing =>
           /\ x.id # 0 => x.id \in Lesson!Ids /\ insights[x.id] # Lesson!Free
           /\ x.status = "active" =>
                Supported(x) \/ (x.id # 0 /\ (insights[x.id] = Lesson!Gone \/ insights[x.id].trusted))
  PROVE  LessonInv'
PROOF
<1>1. /\ reflection' \in [Turns -> Resting \cup Adding \cup Writing]
      /\ \A u \in Turns : reflection'[u] = IF u = t THEN x ELSE reflection[u]
  BY DEF LessonInv, LessonsTyped
<1>2. LessonsTyped' /\ Earned'
  BY <1>1 DEF LessonInv, LessonsTyped, Earned
<1>3. ASSUME NEW u \in Turns, reflection'[u] \in Writing
      PROVE  LET new == reflection'[u]
             IN  /\ new.id # 0 => new.id \in Lesson!Ids /\ insights[new.id] # Lesson!Free
                 /\ new.status = "active" =>
                      Supported(new) \/ (new.id # 0 /\ (insights[new.id] = Lesson!Gone \/ insights[new.id].trusted))
  <2>1. CASE u = t
    BY <1>1, <1>3, <2>1
  <2>2. CASE u # t
    <3>1. reflection'[u] = reflection[u]
      BY <1>1, <2>2
    <3> QED BY <1>3, <3>1 DEF LessonInv, Backed
  <2> QED BY <2>1, <2>2
<1>4. Backed'
  BY <1>3 DEF Backed
<1> QED BY <1>2, <1>4 DEF LessonInv

\* A lesson that goes, or keeps what the user said of it, backs whoever has read it.
LEMMA RowsChange ==
  ASSUME LessonInv, insights' \in [Lesson!Ids -> {Lesson!Free, Lesson!Gone} \cup LessonRows], Earned',
         reflection' \in [Turns -> Resting \cup Adding \cup Writing],
         \A u \in Turns : reflection'[u] \in Writing => reflection'[u] = reflection[u],
         \A i \in Lesson!Ids : insights[i] # Lesson!Free =>
           /\ insights'[i] # Lesson!Free
           /\ insights[i] = Lesson!Gone => insights'[i] = Lesson!Gone
           /\ insights'[i] # Lesson!Gone => (insights[i].trusted => insights'[i].trusted)
  PROVE  LessonInv'
PROOF
<1>1. LessonsTyped'
  BY DEF LessonsTyped
<1>2. ASSUME NEW u \in Turns, reflection'[u] \in Writing
      PROVE  LET new == reflection'[u]
             IN  /\ new.id # 0 => new.id \in Lesson!Ids /\ insights'[new.id] # Lesson!Free
                 /\ new.status = "active" =>
                      Supported(new) \/ (new.id # 0 /\ (insights'[new.id] = Lesson!Gone \/ insights'[new.id].trusted))
  <2> DEFINE new == reflection[u]
  <2>1. reflection'[u] = new
    BY <1>2
  <2>2. /\ new.id # 0 => new.id \in Lesson!Ids /\ insights[new.id] # Lesson!Free
        /\ new.status = "active" =>
             Supported(new) \/ (new.id # 0 /\ (insights[new.id] = Lesson!Gone \/ insights[new.id].trusted))
    BY <1>2, <2>1 DEF LessonInv, Backed
  <2> HIDE DEF new
  <2>3. new.id # 0 => insights'[new.id] # Lesson!Free /\ (insights[new.id] = Lesson!Gone => insights'[new.id] = Lesson!Gone)
    BY <2>2
  <2>4. new.id # 0 /\ insights[new.id].trusted => insights'[new.id] = Lesson!Gone \/ insights'[new.id].trusted
    BY <2>2
  <2> QED BY <2>1, <2>2, <2>3, <2>4
<1>3. Backed'
  BY <1>2 DEF Backed
<1> QED BY <1>1, <1>3 DEF LessonInv

-----------------------------------------------------------------------------
\* A task counts, asks the model, and reads its answer.
LEMMA ThinkingKeeps ==
  ASSUME LessonInv, NEW t \in Turns, Lesson!RecordSignal(t) \/ Lesson!Count(t) \/ Lesson!Answer(t)
  PROVE  LessonInv'
PROOF
<1>1. [op |-> "count"] \in Resting /\ [op |-> "extract"] \in Resting /\ Lesson!Idle \in Resting
  BY DEF Resting, Lesson!Idle
<1>2. \A x \in Resting \cup Adding : x \notin Writing
  BY DEF Resting, Adding, Writing
<1>3. ASSUME NEW text \in Texts, NEW sure \in BOOLEAN, NEW n \in 1 .. Interval
      PROVE  [op |-> "add", text |-> text, sure |-> sure, seen |-> n] \in Adding
  BY DEF Adding
<1>4. PICK x \in Resting \cup Adding : reflection' = [reflection EXCEPT ![t] = x]
  <2>1. CASE Lesson!RecordSignal(t)
    BY <1>1, <2>1 DEF Lesson!RecordSignal
  <2>2. CASE Lesson!Count(t)
    BY <1>1, <2>2 DEF Lesson!Count, Lesson!Done
  <2>3. CASE Lesson!Answer(t)
    BY <1>1, <1>3, <2>3 DEF Lesson!Answer, Lesson!Done
  <2> QED BY <2>1, <2>2, <2>3
<1>5. insights' = insights
  BY DEF Lesson!RecordSignal, Lesson!Count, Lesson!Answer
<1> QED BY <1>2, <1>4, <1>5, TaskThinks

\* The support of a lesson that is read only grows.
LEMMA FindKeeps == ASSUME Lesson!LessonAssumption, LessonInv, NEW t \in Turns, Lesson!Find(t) PROVE LessonInv'
PROOF
<1> DEFINE new == reflection[t]
<1>1. new.op = "add" /\ insights' = insights
  BY DEF Lesson!Find
<1>2. new \in Resting \cup Adding \cup Writing
  BY DEF LessonInv, LessonsTyped
<1>3. new.text \in Texts /\ new.sure \in BOOLEAN /\ new.seen \in 1 .. Interval
  BY <1>1, <1>2, LessonForms
<1>4. CASE reflection' = [reflection EXCEPT ![t] = [op |-> "slot", id |-> 0, text |-> new.text, sure |-> new.sure,
                                                    seen |-> new.seen, status |-> "candidate"]]
  <2> DEFINE x == [op |-> "slot", id |-> 0, text |-> new.text, sure |-> new.sure, seen |-> new.seen, status |-> "candidate"]
  <2>1. x \in Writing /\ x.id = 0 /\ x.status = "candidate"
    BY <1>3 DEF Writing, Lesson!Kept
  <2>2. reflection' = [reflection EXCEPT ![t] = x]
    BY <1>4
  <2> HIDE DEF x
  <2> QED BY <1>1, <2>1, <2>2, TaskThinks
<1>5. ASSUME NEW i \in Lesson!Ids, insights[i].status \in Lesson!Kept,
             reflection' = [reflection EXCEPT ![t] =
                    [op |-> "slot", id |-> i, text |-> new.text, sure |-> new.sure \/ insights[i].sure,
                     seen |-> IF insights[i].seen + new.seen > Interval THEN Interval ELSE insights[i].seen + new.seen,
                     status |-> insights[i].status]]
      PROVE  LessonInv'
  <2> DEFINE row == insights[i]
             sure == new.sure \/ row.sure
             seen == IF row.seen + new.seen > Interval THEN Interval ELSE row.seen + new.seen
             x == [op |-> "slot", id |-> i, text |-> new.text, sure |-> sure, seen |-> seen, status |-> row.status]
  <2>1. row \in {Lesson!Free, Lesson!Gone} \cup LessonRows /\ row.status \in Lesson!Kept
    BY <1>5 DEF LessonInv, LessonsTyped
  <2>2. /\ row \in LessonRows /\ row # Lesson!Free /\ row.sure \in BOOLEAN /\ row.seen \in 1 .. Interval
    BY <2>1, LessonForms
  <2>3. i \in Nat /\ i # 0
    BY DEF Lesson!Ids
  <2>4. Interval \in Nat /\ MinSignals \in Nat
    BY DEF Lesson!LessonAssumption
  <2>5. reflection' = [reflection EXCEPT ![t] = x]
    BY <1>5
  <2>6. row.status = "active" => row.trusted \/ Supported(row)
    BY DEF LessonInv, Earned
  <2> HIDE DEF new, row
  <2>7. sure \in BOOLEAN /\ seen \in 1 .. Interval /\ (row.sure => sure) /\ (row.seen >= MinSignals => seen >= MinSignals)
    <3>1. sure \in BOOLEAN /\ (row.sure => sure)
      BY <1>3, <2>2
    <3>2. seen \in 1 .. Interval /\ (row.seen >= MinSignals => seen >= MinSignals)
      BY <1>3, <2>2, <2>4
    <3> QED BY <3>1, <3>2
  <2> HIDE DEF sure, seen
  <2>8. /\ x \in Writing /\ x.id = i /\ x.status = row.status /\ x.sure = sure /\ x.seen = seen
    BY <1>3, <2>1, <2>3, <2>7 DEF Writing
  <2> HIDE DEF x
  <2>9. Supported(row) => Supported(x)
    BY <2>7, <2>8 DEF Supported
  <2>10. row = insights[i]
    BY DEF row
  <2> QED BY <1>1, <2>2, <2>3, <2>5, <2>6, <2>8, <2>9, <2>10, TaskThinks
<1> QED BY <1>4, <1>5 DEF Lesson!Find

\* A task makes a lesson active only with the support.
LEMMA ChooseKeeps == ASSUME LessonInv, NEW t \in Turns, Lesson!ChooseStatus(t) PROVE LessonInv'
PROOF
<1> DEFINE new == reflection[t]
           active == new.status = "candidate" /\ Lesson!Qualifies(new.sure, new.seen) /\ Lesson!HasSlot
           x == [new EXCEPT !.op = "store", !.status = IF active THEN "active" ELSE @]
<1>1. new.op = "slot" /\ insights' = insights /\ new \in Resting \cup Adding \cup Writing
  BY DEF Lesson!ChooseStatus, LessonInv, LessonsTyped
<1>2. new \in Writing
  BY <1>1, LessonForms
<1>3. reflection' = [reflection EXCEPT ![t] = x]
  BY DEF Lesson!ChooseStatus
<1>4. active => Supported(new)
  BY DEF Lesson!Qualifies, Supported
<1> HIDE DEF active
<1>5. /\ x \in Writing /\ x.id = new.id /\ x.sure = new.sure /\ x.seen = new.seen
      /\ x.status = IF active THEN "active" ELSE new.status
  BY <1>2 DEF Writing, Lesson!Kept
<1>6. /\ new.id # 0 => new.id \in Lesson!Ids /\ insights[new.id] # Lesson!Free
      /\ new.status = "active" =>
           Supported(new) \/ (new.id # 0 /\ (insights[new.id] = Lesson!Gone \/ insights[new.id].trusted))
  BY <1>2 DEF LessonInv, Backed
<1> HIDE DEF x, new
<1>7. Supported(x) <=> Supported(new)
  BY <1>5 DEF Supported
<1> QED BY <1>1, <1>3, <1>4, <1>5, <1>6, <1>7, TaskThinks

\* What is stored has the support, or the trust of the row it overwrites.
LEMMA StoreKeeps == ASSUME LessonInv, NEW t \in Turns, Lesson!Store(t) PROVE LessonInv'
PROOF
<1> DEFINE new == reflection[t]
           row(user) == [status |-> new.status, text |-> new.text, sure |-> new.sure, seen |-> new.seen, trusted |-> user]
<1>1. new.op = "store" /\ new \in Resting \cup Adding \cup Writing
  BY DEF Lesson!Store, LessonInv, LessonsTyped
<1>2. new \in Writing
  BY <1>1, LessonForms
<1>3. /\ new.id # 0 => new.id \in Lesson!Ids /\ insights[new.id] # Lesson!Free
      /\ new.status = "active" =>
           Supported(new) \/ (new.id # 0 /\ (insights[new.id] = Lesson!Gone \/ insights[new.id].trusted))
  BY <1>2 DEF LessonInv, Backed
<1>4. ASSUME NEW user \in BOOLEAN
      PROVE  /\ row(user) \in LessonRows /\ row(user).trusted = user /\ row(user).status = new.status
             /\ Supported(row(user)) <=> Supported(new)
  <2>1. new.text \in Texts /\ new.sure \in BOOLEAN /\ new.seen \in 1 .. Interval /\ new.status \in Lesson!Kept
    BY <1>2, LessonForms
  <2>2. row(user) \in LessonRows
    BY <2>1 DEF LessonRows
  <2> QED BY <2>2 DEF Supported
<1>5. reflection' = [reflection EXCEPT ![t] = [op |-> "extract"]] /\ [op |-> "extract"] \in Resting
  BY DEF Lesson!Store, Resting
<1>6. /\ reflection' \in [Turns -> Resting \cup Adding \cup Writing]
      /\ \A u \in Turns : reflection'[u] \in Writing => reflection'[u] = reflection[u]
  <2>1. [op |-> "extract"] \notin Writing
    BY DEF Writing
  <2> QED BY <1>5, <2>1 DEF LessonInv, LessonsTyped
<1>7. \/ insights' = insights
      \/ new.id = 0 /\ \E i \in Lesson!Ids : insights[i] = Lesson!Free /\ insights' = [insights EXCEPT ![i] = row(FALSE)]
      \/ new.id # 0 /\ insights[new.id] # Lesson!Gone
         /\ insights' = [insights EXCEPT ![new.id] = row(insights[new.id].trusted)]
  BY DEF Lesson!Store
<1> HIDE DEF new, row
<1>8. CASE insights' = insights
  BY <1>6, <1>8, RowsChange DEF LessonInv, LessonsTyped, Earned
<1>9. ASSUME NEW i \in Lesson!Ids, NEW user \in BOOLEAN, insights' = [insights EXCEPT ![i] = row(user)],
             new.status = "active" => Supported(new) \/ user,
             insights[i] # Lesson!Gone, insights[i] # Lesson!Free => user = insights[i].trusted
      PROVE  LessonInv'
  <2>1. \A q \in Lesson!Ids : insights'[q] = IF q = i THEN row(user) ELSE insights[q]
    BY <1>9 DEF LessonInv, LessonsTyped
  <2>2. row(user) \notin {Lesson!Free, Lesson!Gone}
    BY <1>4, LessonForms
  <2>3. insights' \in [Lesson!Ids -> {Lesson!Free, Lesson!Gone} \cup LessonRows]
    BY <1>4, <1>9 DEF LessonInv, LessonsTyped
  <2>4. Earned'
    <3> SUFFICES ASSUME NEW q \in Lesson!Ids, insights'[q].status = "active"
                 PROVE  insights'[q].trusted \/ Supported(insights'[q])
      BY DEF Earned, Supported
    <3>1. CASE q = i
      <4>1. insights'[q] = row(user)
        BY <2>1, <3>1
      <4> QED BY <1>4, <1>9, <4>1
    <3>2. CASE q # i
      <4>1. insights'[q] = insights[q]
        BY <2>1, <3>2
      <4> QED BY <4>1 DEF LessonInv, Earned
    <3> QED BY <3>1, <3>2
  <2>5. ASSUME NEW q \in Lesson!Ids, insights[q] # Lesson!Free
        PROVE  /\ insights'[q] # Lesson!Free
               /\ insights[q] = Lesson!Gone => insights'[q] = Lesson!Gone
               /\ insights'[q] # Lesson!Gone => (insights[q].trusted => insights'[q].trusted)
    <3>1. CASE q = i
      BY <1>4, <1>9, <2>1, <2>2, <2>5, <3>1
    <3>2. CASE q # i
      BY <2>1, <2>5, <3>2
    <3> QED BY <3>1, <3>2
  <2> QED BY <1>6, <2>3, <2>4, <2>5, RowsChange
<1>10. CASE new.id = 0 /\ \E i \in Lesson!Ids : insights[i] = Lesson!Free /\ insights' = [insights EXCEPT ![i] = row(FALSE)]
  <2>1. PICK i \in Lesson!Ids : insights[i] = Lesson!Free /\ insights' = [insights EXCEPT ![i] = row(FALSE)]
    BY <1>10
  <2>2. Lesson!Free # Lesson!Gone
    BY DEF Lesson!Free, Lesson!Gone
  <2>3. new.status = "active" => Supported(new)
    BY <1>3, <1>10
  <2> QED BY <1>9, <2>1, <2>2, <2>3
<1>11. CASE new.id # 0 /\ insights[new.id] # Lesson!Gone
            /\ insights' = [insights EXCEPT ![new.id] = row(insights[new.id].trusted)]
  <2>1. new.id \in Lesson!Ids /\ insights[new.id] # Lesson!Free
    BY <1>3, <1>11
  <2>2. insights[new.id].trusted \in BOOLEAN
    BY <1>11, <2>1, LessonForms DEF LessonInv, LessonsTyped
  <2>3. new.status = "active" => Supported(new) \/ insights[new.id].trusted
    BY <1>3, <1>11
  <2> QED BY <1>9, <1>11, <2>1, <2>2, <2>3
<1> QED BY <1>7, <1>8, <1>10, <1>11

\* The user's review only adds trust.
LEMMA ReviewKeeps ==
  ASSUME LessonInv, NEW i \in Lesson!Ids, NEW status \in Lesson!Reviews, Lesson!Review(i, status)
  PROVE  LessonInv'
PROOF
<1> DEFINE row == insights[i]
           user == row.trusted \/ status = "active"
           x == [row EXCEPT !.status = status, !.trusted = user]
<1>1. row \in LessonRows
  BY DEF Lesson!Review, LessonInv, LessonsTyped
<1>2. insights' = [insights EXCEPT ![i] = x] /\ reflection' = reflection
  BY DEF Lesson!Review
<1>3. user \in BOOLEAN /\ (status = "active" => user) /\ (row.trusted => user) /\ status \in Lesson!Kept \cup {"rejected"}
  <2>1. row.trusted \in BOOLEAN
    BY <1>1, LessonForms
  <2>2. status \in Lesson!Kept \cup {"rejected"}
    BY DEF Lesson!Reviews, Lesson!Kept
  <2> QED BY <2>1, <2>2
<1> HIDE DEF user
<1>4. x \in LessonRows /\ x.status = status /\ x.trusted = user
  <2> HIDE DEF row
  <2> QED BY <1>1, <1>3 DEF LessonRows
<1> HIDE DEF x
<1>5. \A q \in Lesson!Ids : insights'[q] = IF q = i THEN x ELSE insights[q]
  BY <1>2 DEF LessonInv, LessonsTyped
<1>6. insights' \in [Lesson!Ids -> {Lesson!Free, Lesson!Gone} \cup LessonRows]
  BY <1>2, <1>4 DEF LessonInv, LessonsTyped
<1>7. Earned'
  <2> SUFFICES ASSUME NEW q \in Lesson!Ids, insights'[q].status = "active"
               PROVE  insights'[q].trusted \/ Supported(insights'[q])
    BY DEF Earned, Supported
  <2>1. CASE q = i
    <3>1. insights'[q] = x
      BY <1>5, <2>1
    <3> QED BY <1>3, <1>4, <3>1
  <2>2. CASE q # i
    <3>1. insights'[q] = insights[q]
      BY <1>5, <2>2
    <3> QED BY <3>1 DEF LessonInv, Earned
  <2> QED BY <2>1, <2>2
<1>8. ASSUME NEW q \in Lesson!Ids, insights[q] # Lesson!Free
      PROVE  /\ insights'[q] # Lesson!Free
             /\ insights[q] = Lesson!Gone => insights'[q] = Lesson!Gone
             /\ insights'[q] # Lesson!Gone => (insights[q].trusted => insights'[q].trusted)
  <2>1. CASE q = i
    <3>1. insights'[q] = x /\ insights[q] = row
      BY <1>5, <2>1
    <3>2. x \notin {Lesson!Free, Lesson!Gone} /\ row # Lesson!Gone
      BY <1>1, <1>4, LessonForms
    <3> HIDE DEF row
    <3> QED BY <1>3, <1>4, <3>1, <3>2
  <2>2. CASE q # i
    BY <1>5, <1>8, <2>2
  <2> QED BY <2>1, <2>2
<1>9. /\ reflection' \in [Turns -> Resting \cup Adding \cup Writing]
      /\ \A u \in Turns : reflection'[u] \in Writing => reflection'[u] = reflection[u]
  BY <1>2 DEF LessonInv, LessonsTyped
<1> QED BY <1>6, <1>7, <1>8, <1>9, RowsChange

\* Lessons that go leave the others.
LEMMA ForgettingKeeps ==
  ASSUME LessonInv, Lesson!ResetSignals \/ Lesson!ResetLessons \/ Lesson!Maintain
  PROVE  LessonInv'
PROOF
<1>1. Lesson!Gone.status # "active" /\ Lesson!Gone # Lesson!Free
  BY DEF Lesson!Gone, Lesson!Free
<1>2. reflection' = reflection
  BY DEF Lesson!ResetSignals, Lesson!ResetLessons, Lesson!Maintain
<1>3. /\ DOMAIN insights' = Lesson!Ids /\ insights' = [i \in Lesson!Ids |-> insights'[i]]
      /\ \A i \in Lesson!Ids : insights'[i] = insights[i] \/ (insights[i] # Lesson!Free /\ insights'[i] = Lesson!Gone)
  <2>1. insights = [i \in Lesson!Ids |-> insights[i]]
    BY DEF LessonInv, LessonsTyped
  <2>2. CASE insights' = insights
    BY <2>1, <2>2
  <2>3. CASE insights' = [i \in Lesson!Ids |-> IF insights[i] = Lesson!Free THEN Lesson!Free ELSE Lesson!Gone]
    BY <2>3
  <2>4. CASE \E i \in Lesson!Ids : insights[i].status = "candidate" /\ insights' = [insights EXCEPT ![i] = Lesson!Gone]
    <3>1. Lesson!Free.status # "candidate"
      BY DEF Lesson!Free
    <3> QED BY <2>1, <2>4, <3>1
  <2> QED BY <2>2, <2>3, <2>4 DEF Lesson!ResetSignals, Lesson!ResetLessons, Lesson!Maintain
<1>4. insights' \in [Lesson!Ids -> {Lesson!Free, Lesson!Gone} \cup LessonRows]
  BY <1>3 DEF LessonInv, LessonsTyped
<1>5. Earned'
  <2> SUFFICES ASSUME NEW i \in Lesson!Ids, insights'[i].status = "active"
               PROVE  insights'[i].trusted \/ Supported(insights'[i])
    BY DEF Earned, Supported
  <2>1. insights'[i] = insights[i]
    BY <1>1, <1>3
  <2> QED BY <2>1 DEF LessonInv, Earned
<1>6. ASSUME NEW i \in Lesson!Ids, insights[i] # Lesson!Free
      PROVE  /\ insights'[i] # Lesson!Free
             /\ insights[i] = Lesson!Gone => insights'[i] = Lesson!Gone
             /\ insights'[i] # Lesson!Gone => (insights[i].trusted => insights'[i].trusted)
  BY <1>1, <1>3, <1>6
<1>7. /\ reflection' \in [Turns -> Resting \cup Adding \cup Writing]
      /\ \A u \in Turns : reflection'[u] \in Writing => reflection'[u] = reflection[u]
  BY <1>2 DEF LessonInv, LessonsTyped
<1> QED BY <1>4, <1>5, <1>6, <1>7, RowsChange

\* The invariant of lessons holds at the start.
LEMMA LessonsStart == ASSUME Lesson!Init PROVE LessonInv
PROOF
<1>1. Lesson!Idle \in Resting /\ Lesson!Idle \notin Writing /\ Lesson!Free.status # "active"
  BY DEF Lesson!Idle, Resting, Writing, Lesson!Free
<1>2. LessonsTyped
  BY <1>1 DEF Lesson!Init, LessonsTyped
<1>3. Earned
  BY <1>1 DEF Lesson!Init, Earned
<1>4. Backed
  BY <1>1 DEF Lesson!Init, Backed
<1> QED BY <1>2, <1>3, <1>4 DEF LessonInv

\* Every step about lessons keeps their invariant.
LEMMA LessonsMove == ASSUME Lesson!LessonAssumption, LessonInv, Lesson!ReflectNext PROVE LessonInv'
PROOF
<1>1. ASSUME NEW t \in Turns,
             \/ Lesson!RecordSignal(t) \/ Lesson!Count(t) \/ Lesson!Answer(t)
             \/ Lesson!Find(t) \/ Lesson!ChooseStatus(t) \/ Lesson!Store(t)
      PROVE  LessonInv'
  BY <1>1, ThinkingKeeps, FindKeeps, ChooseKeeps, StoreKeeps
<1> QED BY <1>1, ReviewKeeps, ForgettingKeeps DEF Lesson!ReflectNext

(***************************************************************************)
(* Policies of tools.                                                      *)
(***************************************************************************)

TaskStates ==
  [pc : {"idle", "begun", "asked", "found", "synced", "complete", "incomplete"},
   kind : {"none", "startup", "package", "page", "setup"},
   old : SUBSET Tools, found : SUBSET Tools, form : SUBSET Policy!AllTools, stale : BOOLEAN]

PolicyValues == {"none", "allow", "block"} \cup PolicyChoices \cup {Recommended[tool] : tool \in Tools}

PolicyTyped ==
  /\ installed \in BOOLEAN /\ setup \in BOOLEAN /\ late \in BOOLEAN
  /\ discovered \in SUBSET Tools
  /\ global \in [Policy!AllTools -> PolicyValues] /\ chosen \in [Policy!AllTools -> PolicyValues]
  /\ own \in [Tools -> PolicyValues]
  /\ sync \in [Tasks -> TaskStates]
  /\ page \in SUBSET Policy!AllTools

\* What a task that may complete a setup knows of the built-in tools.
Knowing ==
  \A t \in Tasks :
    /\ sync[t].pc = "complete" => sync[t].kind = "package"
    /\ ~sync[t].stale /\ sync[t].pc = "complete" => global[Builtin] # "none"
    /\ ~sync[t].stale /\ sync[t].kind = "setup" /\ Builtin \notin sync[t].form
          => global[Builtin] # "none"

\* Every form lists the built-in tools, and an active agent has their policies.
FormsComplete == page = {} \/ Builtin \in page
ActiveDecided == setup /\ ~late => global[Builtin] # "none"

PolicyInv == /\ PolicyTyped /\ Policy!EveryToolDecided /\ Policy!NothingInherited /\ Policy!ChoiceKept
        /\ Knowing /\ FormsComplete /\ ActiveDecided

-----------------------------------------------------------------------------
\* The invariant of policies holds at the start.
LEMMA PoliciesStart == ASSUME Policy!PolicyAssumption, Policy!Init PROVE PolicyInv
PROOF
  BY DEF Policy!Init, PolicyInv, PolicyTyped, TaskStates, PolicyValues, Policy!Idle, Policy!Unset, Policy!NoneOwn, Policy!AllTools, Policy!PolicyAssumption,
         Policy!EveryToolDecided, Policy!NothingInherited, Policy!ChoiceKept, Knowing, FormsComplete, ActiveDecided

\* A task at rest.
LEMMA IdleTask == Policy!Idle \in TaskStates
PROOF
  BY DEF Policy!Idle, TaskStates

\* A task that has begun.
LEMMA StartedTyped ==
  ASSUME NEW kind \in {"startup", "package", "page", "setup"}, NEW form \in SUBSET Policy!AllTools
  PROVE  /\ Policy!Started(kind) \in TaskStates
         /\ [Policy!Started(kind) EXCEPT !.form = form] \in TaskStates
PROOF
  BY DEF Policy!Started, Policy!Idle, TaskStates

\* A task that is through with its synchronisation has not completed a setup.
LEMMA SyncedTyped ==
  ASSUME NEW s \in TaskStates
  PROVE  /\ Policy!Synced(s) \in TaskStates /\ Policy!Synced(s).pc # "complete"
         /\ Policy!Synced(s) = Policy!Idle \/ (Policy!Synced(s).kind = s.kind /\ Policy!Synced(s).form = s.form /\ Policy!Synced(s).stale = s.stale)
PROOF
  BY DEF Policy!Synced, Policy!Idle, TaskStates

-----------------------------------------------------------------------------
\* The steps that move one task and nothing that the properties speak of.
LEMMA TaskMoves ==
  ASSUME Policy!PolicyAssumption, PolicyInv, NEW t \in Tasks, NEW s \in TaskStates,
         sync' = [sync EXCEPT ![t] = s],
         s.pc = "complete" => s.kind = "package" /\ (~s.stale => global[Builtin] # "none"),
         s.kind = "setup" => \/ Builtin \in s.form
                             \/ sync[t].kind = "setup" /\ s.form = sync[t].form /\ s.stale = sync[t].stale,
         UNCHANGED <<discovered, global, own, byHand, relisted, chosen>>,
         installed' \in BOOLEAN, setup' \in BOOLEAN, late' \in BOOLEAN, page' \in SUBSET Policy!AllTools,
         FormsComplete', ActiveDecided'
  PROVE  PolicyInv'
PROOF
<1>1. PolicyTyped'
  BY DEF PolicyInv, PolicyTyped
<1>2. Policy!EveryToolDecided' /\ Policy!NothingInherited' /\ Policy!ChoiceKept'
  BY DEF PolicyInv, Policy!EveryToolDecided, Policy!NothingInherited, Policy!ChoiceKept
<1>3. Knowing'
  <2> SUFFICES ASSUME NEW u \in Tasks
               PROVE  /\ sync'[u].pc = "complete" => sync'[u].kind = "package"
                      /\ ~sync'[u].stale /\ sync'[u].pc = "complete" => global[Builtin] # "none"
                      /\ ~sync'[u].stale /\ sync'[u].kind = "setup" /\ Builtin \notin sync'[u].form
                            => global[Builtin] # "none"
    BY DEF Knowing
  <2>1. CASE u = t
    BY <2>1 DEF PolicyInv, PolicyTyped, Knowing
  <2>2. CASE u # t
    BY <2>2 DEF PolicyInv, PolicyTyped, Knowing
  <2> QED BY <2>1, <2>2
<1> QED BY <1>1, <1>2, <1>3 DEF PolicyInv

-----------------------------------------------------------------------------
\* A transaction: what it adds has a policy, what it removes has none.
LEMMA CommitKeeps ==
  ASSUME Policy!PolicyAssumption, PolicyInv, NEW t \in Tasks, Policy!Commit(t)
  PROVE  PolicyInv'
PROOF
<1> DEFINE s == sync[t]
           added == s.found \ s.old
           removed == s.old \ s.found
<1>1. s \in TaskStates /\ s.old \subseteq Tools /\ s.found \subseteq Tools
  BY DEF PolicyInv, PolicyTyped, TaskStates
<1>2. /\ discovered' = (discovered \cup s.found) \ removed
      /\ byHand' = byHand \ removed
      /\ relisted' = (relisted \ removed) \cup ((s.old \cap s.found) \ discovered)
      /\ sync' = [sync EXCEPT ![t] = Policy!Synced(s)]
      /\ UNCHANGED <<installed, setup, page, late>>
  BY DEF Policy!Commit
<1>3. \A tool \in Policy!AllTools :
        global'[tool] = IF tool \in added /\ global[tool] = "none" THEN Policy!DefaultPolicy(tool)
                        ELSE IF tool \in removed THEN "none" ELSE global[tool]
  BY DEF Policy!Commit, PolicyInv, PolicyTyped
<1>4. \A tool \in Tools : own'[tool] = IF tool \in removed THEN "none" ELSE own[tool]
  BY DEF Policy!Commit, PolicyInv, PolicyTyped
<1>5. \A tool \in Policy!AllTools : chosen'[tool] = IF tool \in removed THEN "none" ELSE chosen[tool]
  BY DEF Policy!Commit, PolicyInv, PolicyTyped
<1>6. \A tool \in added : Policy!DefaultPolicy(tool) \in PolicyValues /\ Policy!DefaultPolicy(tool) # "none"
  BY <1>1 DEF Policy!DefaultPolicy, PolicyValues
<1>7. global'[Builtin] = global[Builtin]
  BY <1>1, <1>3 DEF Policy!AllTools, Policy!PolicyAssumption
<1>8. PolicyTyped'
  <2>1. global' \in [Policy!AllTools -> PolicyValues]
    BY <1>1, <1>6 DEF Policy!Commit, PolicyInv, PolicyTyped, PolicyValues
  <2>2. chosen' \in [Policy!AllTools -> PolicyValues] /\ own' \in [Tools -> PolicyValues]
    BY DEF Policy!Commit, PolicyInv, PolicyTyped, PolicyValues
  <2>3. sync' \in [Tasks -> TaskStates]
    BY <1>1, <1>2, SyncedTyped DEF PolicyInv, PolicyTyped
  <2> QED BY <1>1, <1>2, <2>1, <2>2, <2>3 DEF PolicyInv, PolicyTyped
<1>9. Policy!EveryToolDecided'
  BY <1>1, <1>2, <1>3, <1>6 DEF PolicyInv, PolicyTyped, Policy!EveryToolDecided, Policy!AllTools
<1>10. Policy!NothingInherited'
  BY <1>1, <1>2, <1>3, <1>4 DEF PolicyInv, Policy!NothingInherited, Policy!AllTools
<1>11. Policy!ChoiceKept'
  BY <1>1, <1>3, <1>5 DEF PolicyInv, Policy!ChoiceKept, Policy!AllTools
<1>12. Knowing'
  <2>1. Policy!Synced(s) = Policy!Idle \/ (Policy!Synced(s).kind = s.kind /\ Policy!Synced(s).form = s.form /\ Policy!Synced(s).stale = s.stale)
    BY <1>1, SyncedTyped
  <2>2. Policy!Synced(s).pc # "complete"
    BY <1>1, SyncedTyped
  <2>3. Policy!Idle.kind = "none"
    BY DEF Policy!Idle
  <2> QED BY <1>1, <1>2, <1>7, <2>1, <2>2, <2>3 DEF PolicyInv, PolicyTyped, Knowing
<1>13. FormsComplete' /\ ActiveDecided'
  BY <1>2, <1>7 DEF PolicyInv, FormsComplete, ActiveDecided
<1> QED BY <1>8, <1>9, <1>10, <1>11, <1>12, <1>13 DEF PolicyInv

\* A default that is set, by hand or by a form.
LEMMA GlobalSet ==
  ASSUME Policy!PolicyAssumption, PolicyInv, NEW tool \in Policy!AllTools, NEW policy \in PolicyChoices,
         global' = [global EXCEPT ![tool] = policy],
         chosen' = [chosen EXCEPT ![tool] = policy],
         byHand' = byHand \cup Policy!Unlisted(tool),
         UNCHANGED <<discovered, own, relisted>>
  PROVE  /\ global' \in [Policy!AllTools -> PolicyValues] /\ chosen' \in [Policy!AllTools -> PolicyValues]
         /\ Policy!EveryToolDecided' /\ Policy!NothingInherited' /\ Policy!ChoiceKept'
         /\ global[Builtin] # "none" \/ tool = Builtin => global'[Builtin] # "none"
PROOF
<1>1. policy # "none" /\ policy \in PolicyValues
  BY DEF Policy!PolicyAssumption, PolicyValues
<1>2. global' \in [Policy!AllTools -> PolicyValues] /\ chosen' \in [Policy!AllTools -> PolicyValues]
  BY <1>1 DEF PolicyInv, PolicyTyped
<1>3. Policy!EveryToolDecided' /\ Policy!ChoiceKept'
  BY <1>1 DEF PolicyInv, PolicyTyped, Policy!EveryToolDecided, Policy!ChoiceKept, Policy!AllTools
<1>4. Policy!NothingInherited'
  BY DEF PolicyInv, PolicyTyped, Policy!NothingInherited, Policy!Unlisted, Policy!AllTools, Policy!PolicyAssumption
<1>5. global[Builtin] # "none" \/ tool = Builtin => global'[Builtin] # "none"
  BY <1>1 DEF PolicyInv, PolicyTyped, Policy!AllTools
<1> QED BY <1>2, <1>3, <1>4, <1>5

\* A form saves one policy.
LEMMA SavePolicyKeeps ==
  ASSUME Policy!PolicyAssumption, PolicyInv, NEW t \in Tasks, NEW tool \in Policy!AllTools, NEW policy \in PolicyChoices,
         Policy!SavePolicy(t, tool, policy)
  PROVE  PolicyInv'
PROOF
<1>1. /\ global' \in [Policy!AllTools -> PolicyValues] /\ chosen' \in [Policy!AllTools -> PolicyValues]
      /\ Policy!EveryToolDecided' /\ Policy!NothingInherited' /\ Policy!ChoiceKept'
      /\ global[Builtin] # "none" \/ tool = Builtin => global'[Builtin] # "none"
  BY GlobalSet DEF Policy!SavePolicy
<1>2. sync' \in [Tasks -> TaskStates]
  BY DEF Policy!SavePolicy, PolicyInv, PolicyTyped, TaskStates
<1>3. PolicyTyped'
  BY <1>1, <1>2 DEF Policy!SavePolicy, PolicyInv, PolicyTyped
<1>4. Knowing'
  BY <1>1 DEF Policy!SavePolicy, PolicyInv, PolicyTyped, TaskStates, Knowing
<1>5. FormsComplete' /\ ActiveDecided'
  BY <1>1 DEF Policy!SavePolicy, PolicyInv, FormsComplete, ActiveDecided
<1> QED BY <1>1, <1>3, <1>4, <1>5 DEF PolicyInv

\* An administrator sets a default.
LEMMA SetGlobalKeeps ==
  ASSUME Policy!PolicyAssumption, PolicyInv, NEW tool \in Policy!AllTools, NEW policy \in PolicyChoices,
         Policy!SetGlobal(tool, policy)
  PROVE  PolicyInv'
PROOF
<1>1. /\ global' \in [Policy!AllTools -> PolicyValues] /\ chosen' \in [Policy!AllTools -> PolicyValues]
      /\ Policy!EveryToolDecided' /\ Policy!NothingInherited' /\ Policy!ChoiceKept'
      /\ global[Builtin] # "none" \/ tool = Builtin => global'[Builtin] # "none"
  BY GlobalSet DEF Policy!SetGlobal
<1>2. PolicyTyped'
  BY <1>1 DEF Policy!SetGlobal, PolicyInv, PolicyTyped
<1>3. Knowing' /\ FormsComplete' /\ ActiveDecided'
  BY <1>1 DEF Policy!SetGlobal, PolicyInv, Knowing, FormsComplete, ActiveDecided
<1> QED BY <1>1, <1>2, <1>3 DEF PolicyInv

\* A user sets or resets a policy of one's own.
LEMMA OwnKeeps ==
  ASSUME Policy!PolicyAssumption, PolicyInv, NEW tool \in Tools,
         Policy!ResetOwn(tool) \/ \E policy \in PolicyChoices : Policy!SetOwn(tool, policy)
  PROVE  PolicyInv'
PROOF
<1>1. /\ UNCHANGED <<installed, setup, discovered, global, sync, page, relisted, chosen, late>>
      /\ own' \in [Tools -> PolicyValues]
      /\ byHand' \in {byHand, byHand \cup Policy!Unlisted(tool)}
      /\ \A other \in Tools \ {tool} : own'[other] = own[other]
      /\ byHand' = byHand => own'[tool] = "none" \/ tool \notin Policy!Unlisted(tool) \/ tool \in byHand
  BY DEF Policy!ResetOwn, Policy!SetOwn, PolicyInv, PolicyTyped, PolicyValues
<1>2. Policy!NothingInherited'
  BY <1>1 DEF PolicyInv, Policy!NothingInherited, Policy!Unlisted, Policy!PolicyAssumption
<1> QED BY <1>1, <1>2 DEF PolicyInv, PolicyTyped, Policy!EveryToolDecided, Policy!ChoiceKept, Knowing, FormsComplete, ActiveDecided

\* An uninstallation takes every row with it.
LEMMA UninstallKeeps ==
  ASSUME Policy!PolicyAssumption, PolicyInv, Policy!Uninstall
  PROVE  PolicyInv'
PROOF
<1> DEFINE ended(u) == sync[u].stale \/ sync[u].kind \in {"package", "setup"}
<1>1. sync' \in [Tasks -> TaskStates]
  <2> SUFFICES ASSUME NEW u \in Tasks
               PROVE  [sync[u] EXCEPT !.stale = ended(u)] \in TaskStates
    BY DEF Policy!Uninstall
  <2>1. sync[u] \in TaskStates
    BY DEF PolicyInv, PolicyTyped
  <2>2. ended(u) \in BOOLEAN
    OBVIOUS
  <2> HIDE DEF ended
  <2> QED BY <2>1, <2>2 DEF TaskStates
<1>2. PolicyTyped'
  BY <1>1 DEF Policy!Uninstall, PolicyInv, PolicyTyped, Policy!Unset, Policy!NoneOwn, PolicyValues
<1>3. Policy!EveryToolDecided' /\ Policy!NothingInherited' /\ Policy!ChoiceKept'
  BY DEF Policy!Uninstall, Policy!EveryToolDecided, Policy!NothingInherited, Policy!ChoiceKept, Policy!Unset, Policy!NoneOwn, Policy!AllTools
<1>4. Knowing'
  BY DEF Policy!Uninstall, PolicyInv, PolicyTyped, TaskStates, Knowing
<1>5. FormsComplete' /\ ActiveDecided'
  BY DEF Policy!Uninstall, PolicyInv, FormsComplete, ActiveDecided
<1> QED BY <1>2, <1>3, <1>4, <1>5 DEF PolicyInv

\* The backfill writes only what is missing.
LEMMA RestartKeeps ==
  ASSUME Policy!PolicyAssumption, PolicyInv, NEW t \in Tasks, Policy!Restart(t)
  PROVE  PolicyInv'
PROOF
<1>1. /\ global' \in [Policy!AllTools -> PolicyValues]
      /\ \A tool \in Policy!AllTools : \/ global'[tool] = global[tool]
                                  \/ (tool = Builtin /\ global[tool] = "none" /\ global'[tool] = "allow")
  BY DEF Policy!Restart, Policy!Backfilled, PolicyInv, PolicyTyped, Policy!AllTools, PolicyValues
<1>2. sync' \in [Tasks -> TaskStates]
  BY DEF Policy!Restart, Policy!Idle, TaskStates
<1>3. PolicyTyped'
  BY <1>1, <1>2 DEF Policy!Restart, PolicyInv, PolicyTyped
<1>4. Policy!EveryToolDecided' /\ Policy!NothingInherited' /\ Policy!ChoiceKept'
  BY <1>1 DEF Policy!Restart, PolicyInv, PolicyTyped, Policy!EveryToolDecided, Policy!NothingInherited, Policy!ChoiceKept, Policy!AllTools, Policy!PolicyAssumption
<1>5. Knowing'
  BY DEF Policy!Restart, Policy!Idle, Knowing
<1>6. FormsComplete' /\ ActiveDecided'
  BY <1>1 DEF Policy!Restart, PolicyInv, FormsComplete, ActiveDecided, Policy!AllTools
<1> QED BY <1>3, <1>4, <1>5, <1>6 DEF PolicyInv

-----------------------------------------------------------------------------
\* The steps of one task, but for its transaction.
LEMMA BeginKeeps ==
  ASSUME Policy!PolicyAssumption, PolicyInv, NEW t \in Tasks, Policy!OpenPage(t) \/ Policy!Package(t) \/ Policy!BeginSetup(t)
  PROVE  PolicyInv'
PROOF
<1>1. CASE Policy!OpenPage(t)
  <2>1. Policy!Started("page") \in TaskStates /\ Policy!Started("page").pc = "begun" /\ Policy!Started("page").kind = "page"
    BY StartedTyped DEF Policy!Started, Policy!Idle
  <2>2. FormsComplete' /\ ActiveDecided'
    BY <1>1 DEF Policy!OpenPage, PolicyInv, FormsComplete, ActiveDecided
  <2> QED BY <1>1, <2>1, <2>2, TaskMoves DEF Policy!OpenPage, PolicyInv, PolicyTyped
<1>2. CASE Policy!Package(t)
  <2>1. /\ Policy!Started("package") \in TaskStates
        /\ Policy!Started("package").pc = "begun" /\ Policy!Started("package").kind = "package"
    BY StartedTyped DEF Policy!Started, Policy!Idle
  <2>2. FormsComplete' /\ ActiveDecided'
    BY <1>2 DEF Policy!Package, PolicyInv, FormsComplete, ActiveDecided
  <2> QED BY <1>2, <2>1, <2>2, TaskMoves DEF Policy!Package, PolicyInv, PolicyTyped
<1>3. CASE Policy!BeginSetup(t)
  <2> DEFINE s == [Policy!Started("setup") EXCEPT !.form = page]
  <2>1. s \in TaskStates
    BY StartedTyped DEF PolicyInv, PolicyTyped
  <2>2. s.pc = "begun" /\ s.form = page
    BY DEF Policy!Started, Policy!Idle
  <2>3. FormsComplete' /\ ActiveDecided' /\ Builtin \in page
    BY <1>3 DEF Policy!BeginSetup, PolicyInv, FormsComplete, ActiveDecided
  <2>4. sync' = [sync EXCEPT ![t] = s]
    BY <1>3 DEF Policy!BeginSetup
  <2> HIDE DEF s
  <2> QED BY <1>3, <2>1, <2>2, <2>3, <2>4, TaskMoves DEF Policy!BeginSetup, PolicyInv, PolicyTyped
<1> QED BY <1>1, <1>2, <1>3

\* A task asks for the tools and is answered, or not.
LEMMA AskKeeps ==
  ASSUME Policy!PolicyAssumption, PolicyInv, NEW t \in Tasks,
         Policy!ReadKnown(t) \/ Policy!DiscoverFails(t) \/ \E tools \in SUBSET Tools : Policy!Discover(t, tools)
  PROVE  PolicyInv'
PROOF
<1>1. PICK s \in TaskStates :
        /\ sync' = [sync EXCEPT ![t] = s]
        /\ s.pc # "complete"
        /\ s.kind = "setup" => s.kind = sync[t].kind /\ s.form = sync[t].form /\ s.stale = sync[t].stale
  <2>1. sync[t] \in TaskStates
    BY DEF PolicyInv, PolicyTyped
  <2>2. CASE Policy!ReadKnown(t)
    <3> DEFINE r == [sync[t] EXCEPT !.pc = "asked", !.old = discovered]
    <3>1. r \in TaskStates /\ r.pc = "asked" /\ r.kind = sync[t].kind
            /\ r.form = sync[t].form /\ r.stale = sync[t].stale
      BY <2>1 DEF TaskStates, PolicyInv, PolicyTyped
    <3>2. sync' = [sync EXCEPT ![t] = r]
      BY <2>1, <2>2 DEF Policy!ReadKnown
    <3> QED BY <3>1, <3>2
  <2>3. ASSUME NEW tools \in SUBSET Tools, Policy!Discover(t, tools)
        PROVE  \E s \in TaskStates :
                 /\ sync' = [sync EXCEPT ![t] = s]
                 /\ s.pc # "complete"
                 /\ s.kind = "setup" => s.kind = sync[t].kind /\ s.form = sync[t].form /\ s.stale = sync[t].stale
    <3> DEFINE r == [sync[t] EXCEPT !.pc = "found", !.found = tools]
    <3>1. r \in TaskStates /\ r.pc = "found" /\ r.kind = sync[t].kind
            /\ r.form = sync[t].form /\ r.stale = sync[t].stale
      BY <2>1 DEF TaskStates
    <3>2. sync' = [sync EXCEPT ![t] = r]
      BY <2>1, <2>3 DEF Policy!Discover
    <3> QED BY <3>1, <3>2
  <2>4. CASE Policy!DiscoverFails(t)
    <3> DEFINE r == IF sync[t].kind = "setup" THEN Policy!Idle ELSE Policy!Synced(sync[t])
    <3>1. r \in TaskStates /\ r.pc # "complete" /\ r.kind # "setup"
      BY <2>1, IdleTask, SyncedTyped DEF Policy!Idle
    <3>2. sync' = [sync EXCEPT ![t] = r]
      BY <2>4 DEF Policy!DiscoverFails
    <3> QED BY <3>1, <3>2
  <2> QED BY <2>2, <2>3, <2>4
<1>2. UNCHANGED <<installed, setup, discovered, global, own, page, byHand, relisted, chosen, late>>
  BY DEF Policy!ReadKnown, Policy!Discover, Policy!DiscoverFails
<1>3. FormsComplete' /\ ActiveDecided'
  BY <1>2 DEF PolicyInv, FormsComplete, ActiveDecided
<1> QED BY <1>1, <1>2, <1>3, TaskMoves DEF PolicyInv, PolicyTyped

\* An agent goes live by a task that has seen, or given, a policy to all.
LEMMA EndKeeps ==
  ASSUME Policy!PolicyAssumption, PolicyInv, NEW t \in Tasks,
         \/ \E verdict \in {"complete", "incomplete"} : Policy!CheckSetup(t, verdict)
         \/ Policy!SaveSetup(t) \/ Policy!ShowPage(t) \/ Policy!FinishSetup(t) \/ Policy!Drop(t)
  PROVE  PolicyInv'
PROOF
<1>1. Policy!Idle.pc = "idle" /\ Policy!Idle.kind = "none"
  BY DEF Policy!Idle
<1>2. ASSUME NEW verdict \in {"complete", "incomplete"}, Policy!CheckSetup(t, verdict)
      PROVE  PolicyInv'
  <2> DEFINE s == [sync[t] EXCEPT !.pc = verdict]
  <2>1. s \in TaskStates /\ s.pc = verdict /\ s.kind = "package"
    BY <1>2 DEF Policy!CheckSetup, PolicyInv, PolicyTyped, TaskStates
  <2>2. sync' = [sync EXCEPT ![t] = s]
    BY <1>2 DEF Policy!CheckSetup
  <2>3. verdict = "complete" => global[Builtin] # "none"
    BY <1>2 DEF Policy!CheckSetup, Policy!Uncovered
  <2>4. FormsComplete' /\ ActiveDecided'
    BY <1>2 DEF Policy!CheckSetup, PolicyInv, FormsComplete, ActiveDecided
  <2> HIDE DEF s
  <2> QED BY <1>2, <2>1, <2>2, <2>3, <2>4, TaskMoves DEF Policy!CheckSetup, PolicyInv, PolicyTyped
<1>3. CASE Policy!SaveSetup(t)
  <2>1. FormsComplete' /\ ActiveDecided' /\ setup' \in BOOLEAN /\ late' \in BOOLEAN
    BY <1>3 DEF Policy!SaveSetup, PolicyInv, PolicyTyped, TaskStates, FormsComplete, ActiveDecided, Knowing
  <2> QED BY <1>1, <1>3, <2>1, IdleTask, TaskMoves DEF Policy!SaveSetup, PolicyInv, PolicyTyped
<1>4. CASE Policy!ShowPage(t)
  <2>1. FormsComplete' /\ ActiveDecided' /\ page' \in SUBSET Policy!AllTools
    BY <1>4 DEF Policy!ShowPage, PolicyInv, PolicyTyped, FormsComplete, ActiveDecided, Policy!AllTools
  <2> QED BY <1>1, <1>4, <2>1, IdleTask, TaskMoves DEF Policy!ShowPage, PolicyInv, PolicyTyped
<1>5. CASE Policy!FinishSetup(t)
  <2>1. FormsComplete' /\ ActiveDecided' /\ setup' \in BOOLEAN /\ late' \in BOOLEAN
    BY <1>5 DEF Policy!FinishSetup, PolicyInv, PolicyTyped, TaskStates, FormsComplete, ActiveDecided, Knowing
  <2> QED BY <1>1, <1>5, <2>1, IdleTask, TaskMoves DEF Policy!FinishSetup, PolicyInv, PolicyTyped
<1>6. CASE Policy!Drop(t)
  <2>1. FormsComplete' /\ ActiveDecided'
    BY <1>6 DEF Policy!Drop, PolicyInv, FormsComplete, ActiveDecided
  <2> QED BY <1>1, <1>6, <2>1, IdleTask, TaskMoves DEF Policy!Drop, PolicyInv, PolicyTyped
<1> QED BY <1>2, <1>3, <1>4, <1>5, <1>6

\* Every step about policies keeps their invariant.
LEMMA PoliciesMove == ASSUME Policy!PolicyAssumption, PolicyInv, [Policy!Next]_(Policy!vars) PROVE PolicyInv'
PROOF
<1>1. CASE UNCHANGED Policy!vars
  BY <1>1 DEF Policy!vars, PolicyInv, PolicyTyped, Policy!EveryToolDecided, Policy!NothingInherited, Policy!ChoiceKept, Knowing,
              FormsComplete, ActiveDecided
<1>2. CASE Policy!Next
  BY <1>2, BeginKeeps, AskKeeps, CommitKeeps, EndKeeps, SavePolicyKeeps, RestartKeeps,
     SetGlobalKeeps, OwnKeeps, UninstallKeeps DEF Policy!Next
<1> QED BY <1>1, <1>2

\* The invariant of policies implies the property.
LEMMA PoliciesHold == ASSUME PolicyInv PROVE Policy!PoliciesFollowTools
PROOF
<1>1. Policy!SetupCovers
  BY DEF PolicyInv, PolicyTyped, Policy!SetupCovers, Policy!Uncovered, Policy!EveryToolDecided, ActiveDecided
<1> QED BY <1>1 DEF PolicyInv, Policy!PoliciesFollowTools

-----------------------------------------------------------------------------
\* Lessons and policies share no state: a step of either leaves the other's.
LEMMA PartsMove == ASSUME LessonInv, PolicyInv, [MCNext]_allVars PROVE LessonInv' /\ PolicyInv'
PROOF
<1>1. Policy!PolicyAssumption /\ Lesson!LessonAssumption
  BY ToolConstants, LessonConstants
<1>2. ASSUME UNCHANGED <<insights, reflection>> PROVE LessonInv'
  BY <1>2 DEF LessonInv, LessonsTyped, Earned, Backed
<1>3. ASSUME UNCHANGED policyVars PROVE PolicyInv'
  <2>1. UNCHANGED Policy!vars
    BY <1>3 DEF policyVars, Policy!vars
  <2> QED BY <1>1, <2>1, PoliciesMove
<1>4. CASE part = "lessons" /\ Lesson!ReflectNext /\ UNCHANGED <<part, vars, policyVars>>
  <2>1. LessonInv'
    BY <1>1, <1>4, LessonsMove
  <2> QED BY <1>3, <1>4, <2>1
<1>5. CASE part = "profile" /\ Lesson!ProfileNext /\ UNCHANGED <<part, vars, policyVars>>
  <2>1. UNCHANGED <<insights, reflection>>
    BY <1>5 DEF Lesson!ProfileNext, Lesson!AddFact, Lesson!LearnFact, Lesson!DeleteFact, Lesson!UpdateFact,
               Lesson!BeginOptimize, Lesson!Optimize, Lesson!lessons
  <2> QED BY <1>2, <1>3, <1>5, <2>1
<1>6. CASE part = "policies" /\ Policy!Next /\ UNCHANGED <<part, vars, lessonVars>>
  <2>1. UNCHANGED <<insights, reflection>>
    BY <1>6 DEF lessonVars
  <2>2. PolicyInv'
    BY <1>1, <1>6, PoliciesMove
  <2> QED BY <1>2, <2>1, <2>2
<1>7. CASE UNCHANGED <<lessonVars, policyVars>>
  <2>1. UNCHANGED <<insights, reflection>> /\ UNCHANGED policyVars
    BY <1>7 DEF lessonVars
  <2> QED BY <1>2, <1>3, <2>1
<1> QED BY <1>4, <1>5, <1>6, <1>7 DEF MCNext, allVars

\* The invariants of both parts hold throughout.
LEMMA WorkKeeps == MCSpec => [](LessonInv /\ PolicyInv)
PROOF
<1>1. MCInit => LessonInv /\ PolicyInv
  BY LessonsStart, PoliciesStart, ToolConstants DEF MCInit
<1>2. LessonInv /\ PolicyInv /\ [MCNext]_allVars => LessonInv' /\ PolicyInv'
  BY PartsMove
<1> QED BY <1>1, <1>2, PTL DEF MCSpec

\* For any lessons, confidences and supports, tasks that reflect at the same time as the
\* user reviews and resets: an active lesson was sure and supported enough, or was
\* activated by the user.
THEOREM TrustIsEarned == MCSpec => []TrustEarned
PROOF
<1>1. LessonInv => TrustEarned
  BY DEF LessonInv, Earned, Supported, Lesson!TrustEarned, TrustEarned
<1> QED BY <1>1, WorkKeeps, PTL

\* For any tools, tasks that ask for tools, choices, failures and restarts: a listed tool
\* has a policy unless it was listed again, a tool that vanished leaves none behind,
\* nothing overwrites a choice, and an active agent has the policies its setup demands.
THEOREM PoliciesStay == MCSpec => []PoliciesFollowTools
PROOF
<1>1. PolicyInv => PoliciesFollowTools
  BY PoliciesHold DEF PoliciesFollowTools
<1> QED BY <1>1, WorkKeeps, PTL
=============================================================================
