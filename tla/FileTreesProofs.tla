--------------------------- MODULE FileTreesProofs ---------------------------
(***************************************************************************)
(* Proofs about FileTrees, for any file systems, paths and requests.       *)
(***************************************************************************)
EXTENDS FileTrees, FiniteSetTheorems, WellFoundedInduction, SequenceTheorems, TLAPS

-----------------------------------------------------------------------------
(* Paths.                                                                  *)

(* A path begins with another one name by name.                            *)
LEMMA WithinDef ==
    ASSUME NEW p \in Path, NEW q \in Path
    PROVE  within(p, q) <=> Len(q) <= Len(p) /\ \A i \in 1 .. Len(q) : p[i] = q[i]
  BY DEF within, Path

(* A path lies in itself, and what lies in a path lies where that does.    *)
LEMMA WithinOrder ==
    ASSUME NEW p \in Path, NEW q \in Path
    PROVE  /\ within(p, p)
           /\ within(p, <<>>)
           /\ within(p, q) /\ within(q, p) => p = q
           /\ within(p, q) /\ Len(p) = Len(q) => p = q
           /\ \A r \in Path : within(p, q) /\ within(q, r) => within(p, r)
           /\ \A r \in Path : within(p, q) /\ within(p, r) => within(q, r) \/ within(r, q)
<1>0. /\ <<>> \in Path
      /\ p = [i \in 1 .. Len(p) |-> p[i]] /\ q = [i \in 1 .. Len(q) |-> q[i]]
      /\ Len(p) \in Nat /\ Len(q) \in Nat /\ \A r \in Path : Len(r) \in Nat
  BY DEF Path
<1>1. within(p, p) /\ within(p, <<>>)
  BY <1>0, WithinDef
<1>2. within(p, q) /\ Len(p) = Len(q) => p = q
  BY <1>0, WithinDef
<1>3. within(p, q) /\ within(q, p) => p = q
  <2>1. within(p, q) => Len(q) <= Len(p)
    BY WithinDef
  <2>2. within(q, p) => Len(p) <= Len(q)
    BY WithinDef
  <2>3. Len(p) \in Nat /\ Len(q) \in Nat
    BY <1>0
  <2> QED BY <1>2, <2>1, <2>2, <2>3
<1>4. ASSUME NEW r \in Path, within(p, q), within(q, r) PROVE within(p, r)
  <2>1. Len(q) <= Len(p) /\ \A i \in 1 .. Len(q) : p[i] = q[i]
    BY <1>4, WithinDef
  <2>2. Len(r) <= Len(q) /\ \A i \in 1 .. Len(r) : q[i] = r[i]
    BY <1>4, WithinDef
  <2> QED BY <1>0, <2>1, <2>2, WithinDef
<1>5. ASSUME NEW r \in Path, within(p, q), within(p, r) PROVE within(q, r) \/ within(r, q)
  <2>1. Len(q) <= Len(p) /\ \A i \in 1 .. Len(q) : p[i] = q[i]
    BY <1>5, WithinDef
  <2>2. Len(r) <= Len(p) /\ \A i \in 1 .. Len(r) : p[i] = r[i]
    BY <1>5, WithinDef
  <2>3. CASE Len(r) <= Len(q)
    <3>1. \A i \in 1 .. Len(r) : q[i] = r[i]
      BY <1>0, <2>1, <2>2, <2>3
    <3> QED BY <2>3, <3>1, WithinDef
  <2>4. CASE Len(q) <= Len(r)
    <3>1. \A i \in 1 .. Len(q) : r[i] = q[i]
      BY <1>0, <2>1, <2>2, <2>4
    <3> QED BY <2>4, <3>1, WithinDef
  <2> QED BY <1>0, <2>3, <2>4
<1> QED
  BY <1>1, <1>2, <1>3, <1>4, <1>5

(* A path in another one is that one and the rest of it.                   *)
LEMMA Joined ==
    ASSUME NEW p \in Path, NEW q \in Path
    PROVE  /\ p \o q \in Path /\ within(p \o q, p) /\ Rel(p \o q, p) = q
           /\ within(p, q) => Rel(p, q) \in Path /\ p = q \o Rel(p, q)
           /\ Rel(p, p) = <<>> /\ (within(p, q) /\ Rel(p, q) = <<>> => p = q)
           /\ p \o <<>> = p
<1>0. Len(p) \in Nat /\ Len(q) \in Nat /\ Len(p \o q) = Len(p) + Len(q) /\ p \o q \in Path
  BY DEF Path
<1>1. within(p \o q, p)
  <2>1. \A i \in 1 .. Len(p) : (p \o q)[i] = p[i]
    BY DEF Path
  <2> DEFINE r == p \o q
  <2>2. r \in Path /\ Len(p) <= Len(r) /\ \A i \in 1 .. Len(p) : r[i] = p[i]
    BY <1>0, <2>1
  <2> HIDE DEF r
  <2>3. within(r, p)
    BY <2>2, WithinDef
  <2> QED BY <2>3 DEF r
<1>2. Rel(p \o q, p) = q
  BY DEF Rel, Path
<1>3. ASSUME within(p, q) PROVE Rel(p, q) \in Path /\ p = q \o Rel(p, q)
  <2>1. Len(q) <= Len(p) /\ \A i \in 1 .. Len(q) : p[i] = q[i]
    BY <1>3, WithinDef
  <2>2. Rel(p, q) \in Path
    BY <1>0, <2>1 DEF Rel, Path
  <2> QED BY <1>0, <2>1, <2>2 DEF Rel, Path
<1>4. Rel(p, p) = <<>>
  BY DEF Rel, Path
<1>5. p \o <<>> = p
  BY DEF Path
<1>6. within(p, q) /\ Rel(p, q) = <<>> => p = q
  <2>1. q \o <<>> = q
    BY DEF Path
  <2> QED BY <1>3, <2>1
<1> QED
  BY <1>0, <1>1, <1>2, <1>3, <1>4, <1>5, <1>6

(* The paths to a path are those it lies in.                               *)
LEMMA PathsToDef ==
    ASSUME NEW p \in Path
    PROVE  /\ PathsTo(p) \subseteq Path
           /\ \A q \in Path : q \in PathsTo(p) <=> within(p, q)
<1>1. \A i \in 0 .. Len(p) : SubSeq(p, 1, i) \in Path /\ Len(SubSeq(p, 1, i)) = i
  BY DEF Path
<1>2. ASSUME NEW q \in Path, q \in PathsTo(p) PROVE within(p, q)
  <2>1. PICK i \in 0 .. Len(p) : q = SubSeq(p, 1, i)
    BY <1>2 DEF PathsTo
  <2>2. Len(q) = i /\ Len(q) <= Len(p)
    BY <1>1, <2>1 DEF Path
  <2> QED BY <2>1, <2>2 DEF within
<1>3. ASSUME NEW q \in Path, within(p, q) PROVE q \in PathsTo(p)
  <2>1. Len(q) \in 0 .. Len(p) /\ q = SubSeq(p, 1, Len(q))
    BY <1>3 DEF within, Path
  <2> QED BY <2>1 DEF PathsTo
<1> QED
  BY <1>1, <1>2, <1>3 DEF PathsTo

(* An entry of a directory.                                                *)
LEMMA Child ==
    ASSUME NEW p \in Path, NEW n \in Name
    PROVE  /\ Append(p, n) \in Path /\ Append(p, n) # <<>>
           /\ Parent(Append(p, n)) = p /\ Append(p, n)[Len(Append(p, n))] = n
           /\ within(Append(p, n), p) /\ ~within(p, Append(p, n)) /\ Append(p, n) # p
           /\ \A q \in Path : within(Append(p, n), q) <=> q = Append(p, n) \/ within(p, q)
<1> DEFINE c == Append(p, n)
<1>1. /\ c \in Path /\ c # <<>> /\ Len(c) = Len(p) + 1 /\ Len(p) \in Nat
      /\ \A i \in 1 .. Len(p) : c[i] = p[i]
      /\ c[Len(c)] = n
  BY DEF Path
<1>2. Parent(c) = p
  BY DEF Parent, Path
<1> HIDE DEF c
<1>3. within(c, p) /\ ~within(p, c) /\ c # p
  BY <1>1, WithinDef
<1>4. ASSUME NEW q \in Path, within(c, q), q # c PROVE within(p, q)
  <2>1. Len(q) <= Len(c) /\ Len(q) # Len(c) /\ Len(q) \in Nat /\ \A i \in 1 .. Len(q) : c[i] = q[i]
    BY <1>1, <1>4, WithinDef, WithinOrder DEF Path
  <2>2. Len(q) <= Len(p) /\ \A i \in 1 .. Len(q) : p[i] = q[i]
    BY <1>1, <2>1
  <2> QED BY <2>2, WithinDef
<1>5. ASSUME NEW q \in Path, within(p, q) PROVE within(c, q)
  BY <1>1, <1>3, <1>5, WithinOrder
<1>6. within(c, c)
  BY <1>1, WithinOrder
<1> QED
  BY <1>1, <1>2, <1>3, <1>4, <1>5, <1>6 DEF c

(* What lies below a path lies in an entry of it.                          *)
LEMMA InChild ==
    ASSUME NEW p \in Path, NEW q \in Path, within(p, q), p # q
    PROVE  \E n \in Name : within(p, Append(q, n))
<1>1. Len(q) < Len(p) /\ Len(p) \in Nat /\ Len(q) \in Nat /\ \A i \in 1 .. Len(q) : p[i] = q[i]
  BY WithinDef, WithinOrder DEF Path
<1> DEFINE n == p[Len(q) + 1]
           c == Append(q, n)
<1>2. n \in Name
  BY <1>1 DEF Path
<1>3. c \in Path /\ Len(c) = Len(q) + 1 /\ c[Len(q) + 1] = n /\ \A i \in 1 .. Len(q) : c[i] = q[i]
  BY <1>2 DEF Path
<1>4. within(p, c)
  <2>1. Len(c) <= Len(p) /\ \A i \in 1 .. Len(c) : p[i] = c[i]
    BY <1>1, <1>3
  <2> HIDE DEF c
  <2> QED BY <1>3, <2>1, WithinDef
<1> QED
  BY <1>2, <1>4

(* Every path but the empty one is an entry of its parent.                 *)
LEMMA ParentDef ==
    ASSUME NEW p \in Path, p # <<>>
    PROVE  /\ Parent(p) \in Path /\ p[Len(p)] \in Name /\ p = Append(Parent(p), p[Len(p)])
           /\ Len(Parent(p)) = Len(p) - 1
<1>1. Len(p) \in Nat /\ Len(p) > 0
  BY DEF Path
<1>2. Parent(p) \in Path /\ p[Len(p)] \in Name /\ Len(Parent(p)) = Len(p) - 1
  <2>1. p[Len(p)] \in Name
    BY <1>1 DEF Path
  <2>2. Parent(p) \in Path
    BY <1>1 DEF Parent, Path
  <2>3. Len(Parent(p)) = Len(p) - 1
    <3>1. \A i \in 0 .. Len(p) : Len(SubSeq(p, 1, i)) = i
      BY DEF Path
    <3>2. Len(p) - 1 \in 0 .. Len(p)
      BY <1>1
    <3> QED BY <3>1, <3>2 DEF Parent
  <2> QED BY <2>1, <2>2, <2>3
<1>3. p = Append(Parent(p), p[Len(p)])
  BY <1>1 DEF Parent, Path
<1> QED
  BY <1>2, <1>3

(* Below one path things are as without it.                                *)
LEMMA Below ==
    ASSUME NEW r \in Path, NEW p \in Path, NEW q \in Path
    PROVE  /\ within(r \o p, r \o q) <=> within(p, q)
           /\ r \o p = r \o q <=> p = q
           /\ \A n \in Name : r \o Append(p, n) = Append(r \o p, n)
           /\ p # <<>> => Parent(r \o p) = r \o Parent(p) /\ r \o p # <<>>
<1>1. /\ r \o p \in Path /\ Len(r \o p) = Len(r) + Len(p) /\ Len(r) \in Nat /\ Len(p) \in Nat
      /\ \A i \in 1 .. Len(r) : (r \o p)[i] = r[i]
      /\ \A i \in 1 .. Len(p) : (r \o p)[Len(r) + i] = p[i]
  BY DEF Path
<1>2. /\ r \o q \in Path /\ Len(r \o q) = Len(r) + Len(q) /\ Len(q) \in Nat
      /\ \A i \in 1 .. Len(r) : (r \o q)[i] = r[i]
      /\ \A i \in 1 .. Len(q) : (r \o q)[Len(r) + i] = q[i]
  BY DEF Path
<1> DEFINE x == r \o p
           y == r \o q
<1>3. /\ x \in Path /\ y \in Path /\ Len(x) = Len(r) + Len(p) /\ Len(y) = Len(r) + Len(q)
      /\ \A i \in 1 .. Len(r) : x[i] = y[i]
      /\ \A i \in 1 .. Len(p) : x[Len(r) + i] = p[i]
      /\ \A i \in 1 .. Len(q) : y[Len(r) + i] = q[i]
  BY <1>1, <1>2
<1> HIDE DEF x, y
<1>4. ASSUME within(x, y) PROVE within(p, q)
  <2>1. Len(y) <= Len(x) /\ \A i \in 1 .. Len(y) : x[i] = y[i]
    BY <1>3, <1>4, WithinDef
  <2>2. Len(q) <= Len(p)
    BY <1>1, <1>2, <1>3, <2>1
  <2>3. \A i \in 1 .. Len(q) : Len(r) + i \in 1 .. Len(y)
    BY <1>1, <1>2, <1>3
  <2>4. \A i \in 1 .. Len(q) : p[i] = q[i]
    BY <1>1, <1>2, <1>3, <2>1, <2>2, <2>3
  <2> QED BY <2>2, <2>4, WithinDef
<1>5. ASSUME within(p, q) PROVE within(x, y)
  <2>1. Len(q) <= Len(p) /\ \A i \in 1 .. Len(q) : p[i] = q[i]
    BY <1>5, WithinDef
  <2>2. ASSUME NEW i \in 1 .. Len(y) PROVE x[i] = y[i]
    <3>1. CASE i <= Len(r)
      BY <1>1, <1>3, <3>1
    <3>2. CASE i > Len(r)
      <4>1. i - Len(r) \in 1 .. Len(q) /\ i - Len(r) \in 1 .. Len(p) /\ Len(r) + (i - Len(r)) = i
        BY <1>1, <1>2, <1>3, <2>1, <3>2
      <4> QED BY <1>3, <2>1, <4>1
    <3> QED BY <1>1, <3>1, <3>2
  <2>3. Len(y) <= Len(x)
    BY <1>1, <1>2, <1>3, <2>1
  <2> QED BY <1>3, <2>2, <2>3, WithinDef
<1>6. ASSUME x = y PROVE p = q
  <2>1. within(x, y) /\ within(y, x)
    BY <1>3, <1>6, WithinOrder
  <2>2. Len(p) = Len(q)
    BY <1>1, <1>2, <1>3, <1>6
  <2> QED BY <1>4, <2>1, <2>2, WithinOrder
<1>7. \A n \in Name : r \o Append(p, n) = Append(r \o p, n)
  BY DEF Path
<1>8. p # <<>> => Parent(r \o p) = r \o Parent(p) /\ r \o p # <<>>
  BY DEF Parent, Path
<1> QED
  BY <1>4, <1>5, <1>6, <1>7, <1>8 DEF x, y

(* Rests of a path that lead to the same path are the same.                *)
LEMMA Cancel ==
    ASSUME NEW r \in Path, NEW p \in Path, NEW q \in Path, r \o p = r \o q
    PROVE  p = q
<1>1. Rel(r \o p, r) = p
  BY Joined
<1>2. Rel(r \o q, r) = q
  BY Joined
<1> QED
  BY <1>1, <1>2

-----------------------------------------------------------------------------
(* Induction and recursion over the natural numbers, for sets and          *)
(* functions.                                                              *)

(* Every set of natural numbers that is not empty has a least element.     *)
LEMMA Least ==
    ASSUME NEW T, T \subseteq Nat, T # {}
    PROVE  \E x \in T : \A y \in T : x <= y
<1> DEFINE R == OpToRel(<,Nat)
<1>1. IsWellFoundedOn(R, Nat)
  BY NatLessThanWellFounded
<1>2. \A x, y \in Nat : y < x => <<y, x>> \in R
  BY DEF OpToRel
<1> HIDE DEF R
<1>3. \E x \in T : \A y \in T : ~ (<<y, x>> \in R)
  BY <1>1, WFMin
<1>4. PICK x \in T : \A y \in T : ~ (<<y, x>> \in R)
  BY <1>3
<1>5. \A y \in T : ~ (y < x)
  BY <1>2, <1>4
<1>6. \A y \in T : x <= y
  BY <1>5
<1> QED BY <1>6

(* Induction over the natural numbers, for a set instead of a predicate.   *)
LEMMA SetInduction ==
    ASSUME NEW S, 0 \in S, \A n \in Nat : n \in S => n + 1 \in S
    PROVE  Nat \subseteq S
<1> SUFFICES ASSUME Nat \ S # {} PROVE FALSE
  OBVIOUS
<1>1. PICK x \in Nat \ S : \A y \in Nat \ S : x <= y
  BY Least
<1>2. x - 1 \in Nat /\ x - 1 \notin S
  BY <1>1
<1> QED BY <1>1, <1>2

(* Functions to iterate, one for each step, and their iterations from a.   *)
Steps(A, n) == [1 .. n -> [A -> A]]
Iterates(f, A, a, n, step) ==
    /\ f \in [0 .. n -> A]
    /\ f[0] = a
    /\ \A i \in 1 .. n : f[i] = step[i][f[i - 1]]

(* Recursion up to n: the iterations exist.                                *)
LEMMA Recursion ==
    ASSUME NEW A, NEW a \in A, NEW n \in Nat, NEW step \in Steps(A, n)
    PROVE  \E f : Iterates(f, A, a, n, step)
<1> USE DEF Steps, Iterates
<1> DEFINE Good(f, m) == f[0] = a /\ \A i \in 1 .. m : f[i] = step[i][f[i - 1]]
           S == {m \in Nat : m <= n => \E f \in [0 .. m -> A] : Good(f, m)}
<1>1. 0 \in S
  <2>1. [i \in 0 .. 0 |-> a] \in [0 .. 0 -> A]
    OBVIOUS
  <2>2. Good([i \in 0 .. 0 |-> a], 0)
    OBVIOUS
  <2> QED BY <2>1, <2>2
<1>2. ASSUME NEW m \in Nat, m \in S PROVE m + 1 \in S
  <2> SUFFICES ASSUME m + 1 <= n PROVE \E f \in [0 .. m + 1 -> A] : Good(f, m + 1)
    OBVIOUS
  <2>1. PICK f \in [0 .. m -> A] : Good(f, m)
    BY <1>2
  <2> DEFINE g == [i \in 0 .. m + 1 |-> IF i <= m THEN f[i] ELSE step[m + 1][f[m]]]
  <2>2. step[m + 1][f[m]] \in A
    <3>1. f[m] \in A /\ step[m + 1] \in [A -> A]
      OBVIOUS
    <3> QED BY <3>1
  <2>3. g \in [0 .. m + 1 -> A]
    BY <2>2
  <2>4. \A i \in 1 .. m + 1 : g[i] = step[i][g[i - 1]]
    <3> SUFFICES ASSUME NEW i \in 1 .. m + 1 PROVE g[i] = step[i][g[i - 1]]
      OBVIOUS
    <3>1. CASE i <= m
      BY <2>1, <3>1
    <3>2. CASE i = m + 1
      BY <2>1, <3>2
    <3> QED BY <3>1, <3>2
  <2>5. g[0] = a
    BY <2>1
  <2> QED
    BY <2>3, <2>4, <2>5
<1> HIDE DEF S
<1>3. n \in S
  BY <1>1, <1>2, SetInduction
<1> QED
  BY <1>3 DEF S

(* Of the paths to a path one is the longest.                              *)
LEMMA LongestDef ==
    ASSUME NEW p \in Path, NEW T, T \subseteq PathsTo(p), T # {}
    PROVE  Longest(T) \in T /\ \A q \in T : within(Longest(T), q)
<1>1. T \subseteq Path /\ \A q \in T : within(p, q)
  BY PathsToDef
<1> DEFINE N == {Len(p) - Len(q) : q \in T}
<1>2. \A q \in T : Len(q) \in Nat /\ Len(q) <= Len(p) /\ Len(p) \in Nat
  BY <1>1, WithinDef DEF Path
<1>3. N \subseteq Nat /\ N # {}
  BY <1>2
<1>4. PICK x \in N : \A y \in N : x <= y
  BY <1>3, Least
<1>5. PICK q \in T : x = Len(p) - Len(q)
  BY <1>4
<1>6. ASSUME NEW r \in T PROVE within(q, r)
  <2>1. x <= Len(p) - Len(r)
    BY <1>4
  <2>2. Len(r) <= Len(q)
    BY <1>2, <1>5, <2>1
  <2>3. within(q, r) \/ within(r, q)
    BY <1>1, WithinOrder
  <2>4. ASSUME within(r, q) PROVE within(q, r)
    <3>1. Len(q) <= Len(r)
      BY <1>1, <2>4, WithinDef
    <3>2. q = r
      BY <1>1, <1>2, <2>2, <2>4, <3>1, WithinOrder
    <3> QED BY <2>4, <3>2
  <2> QED BY <2>3, <2>4
<1> QED
  BY <1>6 DEF Longest

-----------------------------------------------------------------------------
(* The resolution of links.                                                *)

Answer == Path \cup {Missing}
Found(f) == {p \in DOMAIN f : f[p].kind # "link"} \cup {Missing}

(* One more name of a path whose beginning leads to at.                    *)
Enter(f, deeper, at, n) ==
    LET q == Append(at, n) IN
    IF Kind(f, at) # "dir" \/ Kind(f, q) = "none" THEN Missing
    ELSE IF Kind(f, q) = "link" THEN deeper[f[q].data]
    ELSE q

Follows(real, f, deeper, p) ==
    /\ real \in [0 .. Len(p) -> Found(f)]
    /\ real[0] = <<>>
    /\ \A i \in 1 .. Len(p) : real[i] = Enter(f, deeper, real[i - 1], p[i])

(* The function real in EvalSymlinks.                                      *)
RealOf(f, deeper, p) ==
    LET real[i \in 0 .. Len(p)] ==
            IF i = 0 THEN <<>>
            ELSE LET q == Append(real[i - 1], p[i]) IN
                 IF Kind(f, real[i - 1]) # "dir" \/ Kind(f, q) = "none" THEN Missing
                 ELSE IF Kind(f, q) = "link" THEN deeper[f[q].data]
                 ELSE q
    IN  real[Len(p)]

(* A name leads to something that is no link, or nowhere.                  *)
LEMMA EnterType ==
    ASSUME NEW f, FileSystem(f), NEW deeper \in [Path -> Found(f)], NEW at \in Found(f), NEW n \in Name
    PROVE  Enter(f, deeper, at, n) \in Found(f)
<1>1. CASE Kind(f, at) # "dir" \/ Kind(f, Append(at, n)) = "none"
  BY <1>1 DEF Enter, Found
<1>2. CASE Kind(f, at) = "dir" /\ Kind(f, Append(at, n)) # "none"
  <2>1. at \in Path /\ Append(at, n) \in Path /\ Append(at, n) \in DOMAIN f
    <3>1. at \in DOMAIN f /\ Append(at, n) \in DOMAIN f
      BY <1>2 DEF Kind
    <3> QED BY <3>1 DEF FileSystem
  <2>2. Kind(f, Append(at, n)) = "link" => f[Append(at, n)].data \in Path
    BY <2>1 DEF FileSystem, Kind
  <2>3. CASE Kind(f, Append(at, n)) = "link"
    <3>1. deeper[f[Append(at, n)].data] \in Found(f)
      BY <2>2, <2>3
    <3> QED BY <1>2, <2>3, <3>1 DEF Enter
  <2>4. CASE Kind(f, Append(at, n)) # "link"
    <3>1. f[Append(at, n)].kind # "link"
      BY <2>1, <2>4 DEF Kind
    <3> QED BY <1>2, <2>1, <2>4, <3>1 DEF Enter, Found
  <2> QED BY <2>3, <2>4
<1> QED
  BY <1>1, <1>2

(* The names of a path are followed one after the other.                   *)
LEMMA RealOfDef ==
    ASSUME NEW f, FileSystem(f), NEW deeper \in [Path -> Found(f)], NEW p \in Path
    PROVE  \E real : Follows(real, f, deeper, p) /\ RealOf(f, deeper, p) = real[Len(p)]
<1> DEFINE n == Len(p)
           step == [i \in 1 .. n |-> [at \in Found(f) |-> Enter(f, deeper, at, p[i])]]
           F(r) == [i \in 0 .. n |-> IF i = 0 THEN <<>> ELSE Enter(f, deeper, r[i - 1], p[i])]
           real == CHOOSE r : r = F(r)
<1>1. n \in Nat /\ (\A i \in 1 .. n : p[i] \in Name) /\ <<>> \in Found(f)
  <2>1. <<>> \in Found(f)
    BY DEF Found, FileSystem, Kind
  <2> QED BY <2>1 DEF Path
<1>2. \A i \in 1 .. n : \A at \in Found(f) : Enter(f, deeper, at, p[i]) \in Found(f)
  BY <1>1, EnterType
<1>3. step \in Steps(Found(f), n)
  BY <1>2 DEF Steps
<1>4. PICK g : Iterates(g, Found(f), <<>>, n, step)
  <2> HIDE DEF step, n
  <2> QED BY <1>1, <1>3, Recursion
<1>5. g \in [0 .. n -> Found(f)] /\ g[0] = <<>> /\ \A i \in 1 .. n : i - 1 \in 0 .. n /\ g[i - 1] \in Found(f)
  BY <1>1, <1>4 DEF Iterates
<1>6. \A i \in 1 .. n : g[i] = Enter(f, deeper, g[i - 1], p[i])
  BY <1>4, <1>5 DEF Iterates
<1>7. g = F(g)
  BY <1>5, <1>6
<1>8. real = F(real)
  BY <1>7
<1>9. RealOf(f, deeper, p) = real[n]
  BY DEF RealOf, Enter
<1> HIDE DEF real
<1>10. DOMAIN real = 0 .. n /\ real[0] = <<>> /\ \A i \in 1 .. n : real[i] = Enter(f, deeper, real[i - 1], p[i])
  BY <1>1, <1>8
<1> DEFINE S == {i \in Nat : i <= n => real[i] = g[i]}
<1>11. Nat \subseteq S
  <2>1. 0 \in S
    BY <1>5, <1>10
  <2>2. ASSUME NEW i \in Nat, i \in S PROVE i + 1 \in S
    BY <1>1, <1>6, <1>10, <2>2
  <2> HIDE DEF S
  <2> QED BY <2>1, <2>2, SetInduction
<1>12. real[n] = g[n]
  BY <1>1, <1>11
<1> QED
  BY <1>5, <1>6, <1>9, <1>12 DEF Follows

(* EvalSymlinks follows the names of a path, and links by what it gives    *)
(* with one link less to follow.                                           *)
LEMMA EvalDef ==
    ASSUME NEW f, FileSystem(f)
    PROVE  \E deeper \in [Path -> Found(f)] : \A p \in Path : EvalSymlinks(f, p) = RealOf(f, deeper, p)
<1> DEFINE A == [Path -> Found(f)]
           none == [p \in Path |-> Missing]
           next(d) == [p \in Path |-> RealOf(f, d, p)]
           step == [i \in 1 .. MaxLinks |-> [d \in A |-> next(d)]]
           F(e) == [n \in 0 .. MaxLinks |-> [p \in Path |-> IF n = 0 THEN Missing ELSE RealOf(f, e[n - 1], p)]]
           eval == CHOOSE e : e = F(e)
<1>1. MaxLinks \in Nat /\ MaxLinks > 0
  BY PathAssumption
<1>2. none \in A
  BY DEF Found
<1>3. ASSUME NEW d \in A PROVE next(d) \in A
  <2>1. ASSUME NEW p \in Path PROVE RealOf(f, d, p) \in Found(f)
    <3>1. PICK real : Follows(real, f, d, p) /\ RealOf(f, d, p) = real[Len(p)]
      BY RealOfDef
    <3>2. Len(p) \in 0 .. Len(p)
      BY DEF Path
    <3> QED BY <3>1, <3>2 DEF Follows
  <2> QED BY <2>1
<1>4. \A p \in Path : EvalSymlinks(f, p) = eval[MaxLinks][p]
  BY DEF EvalSymlinks, RealOf
<1> HIDE DEF A, next, none
<1>5. step \in Steps(A, MaxLinks)
  BY <1>3 DEF Steps
<1>6. PICK g : Iterates(g, A, none, MaxLinks, step)
  <2> HIDE DEF step
  <2> QED BY <1>1, <1>2, <1>5, Recursion
<1>7. g \in [0 .. MaxLinks -> A] /\ g[0] = none /\ \A i \in 1 .. MaxLinks : i - 1 \in 0 .. MaxLinks /\ g[i - 1] \in A
  BY <1>1, <1>6 DEF Iterates
<1>8. \A i \in 1 .. MaxLinks : g[i] = next(g[i - 1])
  BY <1>6, <1>7 DEF Iterates
<1>9. g = F(g)
  <2>1. ASSUME NEW n \in 0 .. MaxLinks PROVE g[n] = F(g)[n]
    <3>1. CASE n = 0
      BY <1>7, <3>1 DEF none
    <3>2. CASE n # 0
      <4>1. n \in 1 .. MaxLinks
        BY <1>1, <3>2
      <4> QED BY <1>8, <3>2, <4>1 DEF next
    <3> QED BY <3>1, <3>2
  <2>2. g = [n \in 0 .. MaxLinks |-> g[n]]
    BY <1>7
  <2> QED BY <2>1, <2>2
<1>10. eval = F(eval)
  BY <1>9
<1> HIDE DEF eval
<1>11. eval[0] = none /\ \A i \in 1 .. MaxLinks : eval[i] = next(eval[i - 1])
  <2>1. \A n \in 0 .. MaxLinks : eval[n] = [p \in Path |-> IF n = 0 THEN Missing ELSE RealOf(f, eval[n - 1], p)]
    BY <1>10
  <2>2. eval[0] = none
    BY <1>1, <2>1 DEF none
  <2>3. ASSUME NEW i \in 1 .. MaxLinks PROVE eval[i] = next(eval[i - 1])
    <3>1. i \in 0 .. MaxLinks /\ i # 0
      BY <1>1
    <3> QED BY <2>1, <3>1 DEF next
  <2> QED BY <2>2, <2>3
<1> DEFINE S == {i \in Nat : i <= MaxLinks => eval[i] = g[i]}
<1>12. Nat \subseteq S
  <2>1. 0 \in S
    BY <1>7, <1>11
  <2>2. ASSUME NEW i \in Nat, i \in S PROVE i + 1 \in S
    <3> SUFFICES ASSUME i + 1 <= MaxLinks PROVE eval[i + 1] = g[i + 1]
      OBVIOUS
    <3>1. i + 1 \in 1 .. MaxLinks /\ (i + 1) - 1 = i /\ eval[i] = g[i]
      BY <1>1, <2>2
    <3> QED BY <1>8, <1>11, <3>1
  <2> HIDE DEF S
  <2> QED BY <2>1, <2>2, SetInduction
<1>13. MaxLinks - 1 \in Nat /\ eval[MaxLinks - 1] = g[MaxLinks - 1] /\ MaxLinks \in 1 .. MaxLinks
  BY <1>1, <1>12
<1>14. eval[MaxLinks - 1] \in A
  BY <1>7, <1>13
<1>15. \A p \in Path : EvalSymlinks(f, p) = RealOf(f, eval[MaxLinks - 1], p)
  BY <1>4, <1>11, <1>13 DEF next
<1> QED
  BY <1>14, <1>15 DEF A

(* EvalSymlinks, name by name.                                             *)
LEMMA EvalStep ==
    ASSUME NEW f, FileSystem(f)
    PROVE  /\ \A p \in Path : EvalSymlinks(f, p) \in Found(f) /\ EvalSymlinks(f, p) \in Answer
           /\ EvalSymlinks(f, <<>>) = <<>>
           /\ \E deeper \in [Path -> Found(f)] : \A p \in Path :
                 p # <<>> => EvalSymlinks(f, p) = Enter(f, deeper, EvalSymlinks(f, Parent(p)), p[Len(p)])
<1>1. PICK deeper \in [Path -> Found(f)] : \A p \in Path : EvalSymlinks(f, p) = RealOf(f, deeper, p)
  BY EvalDef
<1>2. ASSUME NEW p \in Path
      PROVE  \E real : Follows(real, f, deeper, p) /\ EvalSymlinks(f, p) = real[Len(p)]
  BY <1>1, RealOfDef
<1>3. ASSUME NEW p \in Path PROVE EvalSymlinks(f, p) \in Found(f)
  <2>1. PICK real : Follows(real, f, deeper, p) /\ EvalSymlinks(f, p) = real[Len(p)]
    BY <1>2
  <2>2. Len(p) \in 0 .. Len(p)
    BY DEF Path
  <2> QED BY <2>1, <2>2 DEF Follows
<1>4. EvalSymlinks(f, <<>>) = <<>>
  <2>0. <<>> \in Path /\ Len(<<>>) = 0
    BY DEF Path
  <2>1. PICK real : Follows(real, f, deeper, <<>>) /\ EvalSymlinks(f, <<>>) = real[Len(<<>>)]
    BY <1>2, <2>0
  <2> QED BY <2>0, <2>1 DEF Follows
<1>5. ASSUME NEW p \in Path, p # <<>>
      PROVE  EvalSymlinks(f, p) = Enter(f, deeper, EvalSymlinks(f, Parent(p)), p[Len(p)])
  <2> DEFINE q == Parent(p)
             m == Len(q)
  <2>1. q \in Path /\ Len(p) = m + 1 /\ m \in Nat /\ \A i \in 1 .. m : q[i] = p[i]
    <3>1. q \in Path /\ Len(q) = Len(p) - 1 /\ Len(p) \in Nat
      BY <1>5, ParentDef DEF Path
    <3>2. \A i \in 1 .. m : q[i] = p[i]
      BY <1>5, <3>1 DEF Parent, Path
    <3> QED BY <3>1, <3>2 DEF Path
  <2>2. PICK r : Follows(r, f, deeper, p) /\ EvalSymlinks(f, p) = r[Len(p)]
    BY <1>2
  <2>3. PICK s : Follows(s, f, deeper, q) /\ EvalSymlinks(f, q) = s[m]
    BY <1>2, <2>1
  <2> HIDE DEF q, m
  <2> DEFINE S == {i \in Nat : i <= m => r[i] = s[i]}
  <2>4. Nat \subseteq S
    <3>1. 0 \in S
      BY <2>2, <2>3 DEF Follows
    <3>2. ASSUME NEW i \in Nat, i \in S PROVE i + 1 \in S
      <4> SUFFICES ASSUME i + 1 <= m PROVE r[i + 1] = s[i + 1]
        OBVIOUS
      <4>1. r[i] = s[i] /\ i + 1 \in 1 .. m /\ i + 1 \in 1 .. Len(p) /\ (i + 1) - 1 = i /\ Len(q) = m
        BY <2>1, <3>2 DEF m
      <4> QED BY <2>1, <2>2, <2>3, <4>1 DEF Follows
    <3> HIDE DEF S
    <3> QED BY <3>1, <3>2, SetInduction
  <2>5. r[m] = s[m]
    BY <2>1, <2>4
  <2>6. Len(p) \in 1 .. Len(p) /\ Len(p) - 1 = m
    BY <2>1
  <2> QED BY <2>2, <2>3, <2>5, <2>6 DEF Follows, q
<1>6. \A p \in Found(f) : p \in Answer
  BY DEF Found, Answer, FileSystem
<1> QED
  BY <1>3, <1>4, <1>5, <1>6

(* A path of directories that ends in no link is real.                     *)
LEMMA RealPath ==
    ASSUME NEW f, FileSystem(f), NEW p \in DOMAIN f, f[p].kind # "link"
    PROVE  EvalSymlinks(f, p) = p
<1>0. p \in Path
  BY DEF FileSystem
<1>1. PICK deeper \in [Path -> Found(f)] : \A q \in Path :
         q # <<>> => EvalSymlinks(f, q) = Enter(f, deeper, EvalSymlinks(f, Parent(q)), q[Len(q)])
  BY EvalStep
<1> DEFINE S == {n \in Nat : \A q \in PathsTo(p) : Len(q) = n => EvalSymlinks(f, q) = q}
<1>2. 0 \in S
  <2>1. \A q \in PathsTo(p) : Len(q) = 0 => q = <<>>
    BY <1>0, PathsToDef DEF Path
  <2> QED BY <2>1, EvalStep
<1>3. ASSUME NEW n \in Nat, n \in S PROVE n + 1 \in S
  <2> SUFFICES ASSUME NEW q \in PathsTo(p), Len(q) = n + 1 PROVE EvalSymlinks(f, q) = q
    OBVIOUS
  <2>1. q \in Path /\ q # <<>> /\ within(p, q)
    BY <1>0, PathsToDef DEF Path
  <2>2. /\ Parent(q) \in Path /\ q[Len(q)] \in Name /\ q = Append(Parent(q), q[Len(q)]) /\ Len(Parent(q)) = n
    BY <2>1, ParentDef
  <2>3. within(q, Parent(q)) /\ Parent(q) # q
    <3>1. ASSUME NEW d \in Path, NEW x \in Name, q = Append(d, x) PROVE within(q, d) /\ d # q
      BY <3>1, Child
    <3> QED BY <2>2, <3>1
  <2>4. within(p, Parent(q)) /\ Parent(q) \in PathsTo(p) /\ Parent(q) # p
    BY <1>0, <2>1, <2>2, <2>3, WithinOrder, PathsToDef
  <2>5. Kind(f, Parent(q)) = "dir"
    BY <2>4 DEF FileSystem
  <2>6. q \in DOMAIN f /\ Kind(f, q) # "link" /\ Kind(f, q) # "none"
    <3>1. CASE q = p
      BY <3>1 DEF Kind, FileSystem
    <3>2. CASE q # p
      BY <3>2 DEF FileSystem, Kind
    <3> QED BY <3>1, <3>2
  <2>7. EvalSymlinks(f, Parent(q)) = Parent(q)
    BY <1>3, <2>2, <2>4
  <2> QED BY <1>1, <2>1, <2>2, <2>5, <2>6, <2>7 DEF Enter
<1>4. Nat \subseteq S
  <2> HIDE DEF S
  <2> QED BY <1>2, <1>3, SetInduction
<1>5. p \in PathsTo(p) /\ Len(p) \in Nat
  BY <1>0, PathsToDef, WithinOrder DEF Path
<1> QED
  BY <1>4, <1>5

(* What is above an entry is a directory.                                  *)
LEMMA Above ==
    ASSUME NEW f, FileSystem(f)
    PROVE  /\ <<>> \in DOMAIN f /\ f[<<>>] = Dir
           /\ \A p \in DOMAIN f : p \in Path
           /\ \A p \in DOMAIN f : \A q \in Path : within(p, q) /\ q # p => q \in DOMAIN f /\ f[q] = Dir
           /\ Missing \notin Path /\ Kind(f, Missing) = "none" /\ Dir.kind = "dir"
<1>1. \A q : Kind(f, q) = "dir" => q \in DOMAIN f /\ f[q] = Dir
  BY DEF FileSystem, Kind
<1>2. \A p \in DOMAIN f : p \in Path
  BY DEF FileSystem
<1>3. ASSUME NEW p \in DOMAIN f, NEW q \in Path, within(p, q), q # p PROVE q \in DOMAIN f /\ f[q] = Dir
  <2>1. q \in PathsTo(p) \ {p}
    BY <1>2, <1>3, PathsToDef
  <2> QED BY <1>1, <2>1 DEF FileSystem
<1>4. Missing \notin Path
  <2>1. Missing \in Path => Missing[1] \in Name
    BY DEF Missing, Path
  <2>2. Missing[1] = "missing"
    BY DEF Missing
  <2> QED BY <2>1, <2>2, PathAssumption
<1>5. Kind(f, Missing) = "none"
  BY <1>2, <1>4 DEF Kind
<1>6. <<>> \in DOMAIN f /\ f[<<>>] = Dir
  BY <1>1 DEF FileSystem
<1> QED
  BY <1>2, <1>3, <1>4, <1>5, <1>6 DEF Dir

(* A path where there can be something: all above it is directories.       *)
Open(f, p) == p \in Path /\ \A q \in Path : within(p, q) /\ q # p => q \in DOMAIN f /\ f[q] = Dir

(* There can be something where there is, and in a directory.              *)
LEMMA OpenDef ==
    ASSUME NEW f, FileSystem(f)
    PROVE  /\ \A p \in DOMAIN f : Open(f, p)
           /\ \A p, n : Kind(f, p) = "dir" /\ n \in Name => Open(f, Append(p, n))
<1>1. \A p \in DOMAIN f : Open(f, p)
  BY Above DEF Open
<1>2. ASSUME NEW p, NEW n \in Name, Kind(f, p) = "dir" PROVE Open(f, Append(p, n))
  <2>1. p \in DOMAIN f /\ f[p] = Dir /\ p \in Path
    BY <1>2 DEF Kind, FileSystem
  <2>2. Append(p, n) \in Path
    BY <2>1, Child
  <2>3. ASSUME NEW q \in Path, within(Append(p, n), q), q # Append(p, n) PROVE q \in DOMAIN f /\ f[q] = Dir
    <3>1. within(p, q)
      BY <2>1, <2>3, Child
    <3> QED BY <2>1, <3>1, Above
  <2> QED BY <2>2, <2>3 DEF Open
<1> QED
  BY <1>1, <1>2

(* The place of a path is one where there can be something, or there is    *)
(* none.                                                                   *)
LEMMA PlaceDef ==
    ASSUME NEW f, FileSystem(f), NEW p \in Path
    PROVE  /\ Place(f, p) = Missing \/ Open(f, Place(f, p))
           /\ EvalSymlinks(f, p) # Missing => Lstat(f, p) # "none"
           /\ Open(f, p) => Place(f, p) = p
<1>1. CASE p = <<>>
  <2>1. Place(f, p) = <<>>
    BY <1>1 DEF Place
  <2> QED BY <1>1, <2>1, Above, OpenDef DEF Lstat, Kind
<1>2. CASE p # <<>>
  <2> DEFINE d == Parent(p)
             n == p[Len(p)]
             e == EvalSymlinks(f, d)
  <2>1. d \in Path /\ n \in Name /\ p = Append(d, n)
    BY <1>2, ParentDef
  <2>2. Place(f, p) = IF Kind(f, e) = "dir" THEN Append(e, n) ELSE Missing
    BY <1>2 DEF Place
  <2>3. PICK deeper \in [Path -> Found(f)] : \A q \in Path :
           q # <<>> => EvalSymlinks(f, q) = Enter(f, deeper, EvalSymlinks(f, Parent(q)), q[Len(q)])
    BY EvalStep
  <2>4. EvalSymlinks(f, p) = Enter(f, deeper, e, n)
    BY <1>2, <2>3
  <2> HIDE DEF d, n, e
  <2>5. Place(f, p) = Missing \/ Open(f, Place(f, p))
    BY <2>1, <2>2, OpenDef
  <2>6. EvalSymlinks(f, p) # Missing => Lstat(f, p) # "none"
    BY <2>2, <2>4 DEF Enter, Lstat
  <2>7. ASSUME Open(f, p) PROVE Place(f, p) = p
    <3>1. within(p, d) /\ d # p
      BY <2>1, Child
    <3>2. d \in DOMAIN f /\ f[d] = Dir /\ Kind(f, d) = "dir" /\ f[d].kind # "link"
      BY <2>1, <2>7, <3>1, Above DEF Open, Kind
    <3>3. e = d
      BY <3>2, RealPath DEF e
    <3> QED BY <2>1, <2>2, <3>2, <3>3
  <2> QED BY <2>5, <2>6, <2>7
<1> QED
  BY <1>1, <1>2

(* What Resolve gives lies in the root; for something new, where it can    *)
(* be and not in the place of a link.                                      *)
LEMMA ResolveDef ==
    ASSUME NEW f, FileSystem(f), NEW p \in Path
    PROVE  /\ \A b : Resolve(f, p, b) # Missing => Resolve(f, p, b) \in Path /\ within(Resolve(f, p, b), Root)
           /\ Resolve(f, p, TRUE) # Missing => Open(f, Resolve(f, p, TRUE)) /\ Kind(f, Resolve(f, p, TRUE)) # "link"
<1>1. EvalSymlinks(f, p) \in Path \cup {Missing}
  BY EvalStep DEF Answer
<1>2. Place(f, p) = Missing \/ Open(f, Place(f, p))
  BY PlaceDef
<1> QED
  BY <1>1, <1>2 DEF Resolve, Lstat, Open

-----------------------------------------------------------------------------
(* System calls keep a file system one.                                    *)

Node(n) == n.kind \in {"dir", "file", "link"} /\ (n.kind = "dir" => n = Dir) /\ (n.kind = "link" => n.data \in Path)

(* A file system, by Open.                                                 *)
LEMMA FileSystemDef ==
    ASSUME NEW g, g = [p \in DOMAIN g |-> g[p]], <<>> \in DOMAIN g, g[<<>>] = Dir,
           \A p \in DOMAIN g : Node(g[p]) /\ Open(g, p)
    PROVE  FileSystem(g)
<1>1. DOMAIN g \subseteq Path
  BY DEF Open
<1>2. Kind(g, <<>>) = "dir"
  BY DEF Kind, Dir
<1>3. ASSUME NEW p \in DOMAIN g, NEW q \in PathsTo(p) \ {p} PROVE Kind(g, q) = "dir"
  <2>1. q \in Path /\ within(p, q)
    BY <1>1, PathsToDef
  <2> QED BY <2>1 DEF Open, Kind, Dir
<1> QED
  BY <1>1, <1>2, <1>3 DEF FileSystem, Node

(* The nodes of a file system are nodes.                                   *)
LEMMA NodeDef ==
    ASSUME NEW f, FileSystem(f)
    PROVE  /\ f = [p \in DOMAIN f |-> f[p]]
           /\ \A p \in DOMAIN f : Node(f[p])
           /\ \A p : Kind(f, p) = "none" <=> p \notin DOMAIN f
           /\ \A p : Kind(f, p) = "dir" <=> p \in DOMAIN f /\ f[p] = Dir
           /\ \A p \in DOMAIN f : Kind(f, p) = f[p].kind
           /\ \A p : Kind(f, p) \in {"none", "dir", "file", "link"}
  BY DEF FileSystem, Node, Kind, Dir

(* Something new is put where it can be, and nothing else in the place of  *)
(* a directory.                                                            *)
LEMMA PutFileSystem ==
    ASSUME NEW f, FileSystem(f), NEW p, Open(f, p), NEW n, Node(n), Kind(f, p) = "dir" => n = Dir
    PROVE  FileSystem(Put(f, p, n))
<1> DEFINE g == Put(f, p, n)
<1>1. DOMAIN g = DOMAIN f \cup {p} /\ g = [q \in DOMAIN g |-> g[q]]
  BY DEF Put
<1>2. g[p] = n /\ \A q \in DOMAIN f : q # p => g[q] = f[q]
  BY DEF Put
<1>3. \A q \in DOMAIN f : f[q] = Dir => q \in DOMAIN g /\ g[q] = Dir
  BY <1>1, <1>2, NodeDef
<1> HIDE DEF g
<1>4. \A q \in DOMAIN g : Node(g[q])
  BY <1>1, <1>2, NodeDef
<1>5. \A q : Open(f, q) => Open(g, q)
  BY <1>3 DEF Open
<1>6. \A q \in DOMAIN g : Open(g, q)
  BY <1>1, <1>5, OpenDef
<1>7. <<>> \in DOMAIN g /\ g[<<>>] = Dir
  BY <1>3, Above
<1>8. FileSystem(g)
  BY <1>1, <1>4, <1>6, <1>7, FileSystemDef
<1> QED
  BY <1>8 DEF g

(* What is removed is removed with all that it has.                        *)
LEMMA RemoveFileSystem ==
    ASSUME NEW f, FileSystem(f), NEW p \in Answer
    PROVE  /\ FileSystem(RemoveAll(f, p))
           /\ \A q \in DOMAIN RemoveAll(f, p) : q \in DOMAIN f /\ RemoveAll(f, p)[q] = f[q]
           /\ \A q \in DOMAIN f : ~within(q, p) => q \in DOMAIN RemoveAll(f, p)
           /\ \A q \in DOMAIN f : within(q, p) /\ q # <<>> => q \notin DOMAIN RemoveAll(f, p)
           /\ p = Missing => RemoveAll(f, p) = f
<1> DEFINE g == RemoveAll(f, p)
<1>1. DOMAIN g = {r \in DOMAIN f : ~within(r, p) \/ r = <<>>} /\ \A q \in DOMAIN g : g[q] = f[q]
  BY DEF RemoveAll
<1>2. g = [q \in DOMAIN g |-> g[q]]
  BY DEF RemoveAll
<1> HIDE DEF g
<1>3. ASSUME p = Missing PROVE g = f
  <2>1. ASSUME NEW q \in Path PROVE ~within(q, Missing)
    <3>1. SUFFICES ASSUME within(q, Missing) PROVE FALSE
      OBVIOUS
    <3>2. Len(Missing) = 1 /\ Len(q) >= 1 /\ SubSeq(q, 1, 1) = Missing /\ Missing[1] = "missing"
      BY <3>1 DEF within, Missing
    <3>3. q[1] \in Name /\ q[1] = "missing"
      BY <3>2 DEF Path
    <3> QED BY <3>3, PathAssumption
  <2>2. DOMAIN g = DOMAIN f
    BY <1>1, <1>3, <2>1, Above
  <2> QED BY <1>1, <1>2, <2>2, NodeDef
<1>4. ASSUME p \in Path PROVE FileSystem(g)
  <2>1. ASSUME NEW q \in DOMAIN g PROVE Open(g, q)
    <3>1. q \in Path /\ q \in DOMAIN f
      BY <1>1, Above
    <3>2. ASSUME NEW r \in Path, within(q, r), r # q PROVE r \in DOMAIN g /\ g[r] = Dir
      <4>1. r \in DOMAIN f /\ f[r] = Dir
        BY <3>1, <3>2, Above
      <4>2. within(r, p) => within(q, p)
        BY <1>4, <3>1, <3>2, WithinOrder
      <4>3. q # <<>>
        <5>1. within(r, <<>>) /\ <<>> \in Path
          BY WithinOrder DEF Path
        <5> QED BY <3>2, <5>1, WithinOrder
      <4> QED BY <1>1, <4>1, <4>2, <4>3
    <3> QED BY <3>1, <3>2 DEF Open
  <2>2. \A q \in DOMAIN g : Node(g[q])
    BY <1>1, NodeDef
  <2>3. <<>> \in DOMAIN g /\ g[<<>>] = Dir
    BY <1>1, Above
  <2> QED BY <1>2, <2>1, <2>2, <2>3, FileSystemDef
<1>5. FileSystem(g)
  BY <1>3, <1>4 DEF Answer
<1>6. /\ \A q \in DOMAIN g : q \in DOMAIN f /\ g[q] = f[q]
      /\ \A q \in DOMAIN f : ~within(q, p) => q \in DOMAIN g
      /\ \A q \in DOMAIN f : within(q, p) /\ q # <<>> => q \notin DOMAIN g
  BY <1>1
<1> QED
  BY <1>3, <1>5, <1>6 DEF g

(* Directories are made where nothing is in the way.                       *)
LEMMA MakeFileSystem ==
    ASSUME NEW f, FileSystem(f), NEW p \in Path
    PROVE  /\ InTheWay(f, p) = {} => FileSystem(MakeDirs(f, p))
           /\ DOMAIN MakeDirs(f, p) = DOMAIN f \cup PathsTo(p)
           /\ \A q \in DOMAIN f : MakeDirs(f, p)[q] = f[q]
           /\ \A q \in PathsTo(p) \ DOMAIN f : MakeDirs(f, p)[q] = Dir
           /\ InTheWay(f, p) = {} => MakeDirs(f, p)[p] = Dir
<1> DEFINE g == MakeDirs(f, p)
<1>1. /\ DOMAIN g = DOMAIN f \cup PathsTo(p) /\ (\A q \in DOMAIN f : g[q] = f[q])
      /\ (\A q \in PathsTo(p) \ DOMAIN f : g[q] = Dir) /\ g = [q \in DOMAIN g |-> g[q]]
  BY DEF MakeDirs
<1> HIDE DEF g
<1>2. ASSUME InTheWay(f, p) = {} PROVE FileSystem(g) /\ g[p] = Dir
  <2>1. ASSUME NEW q \in PathsTo(p) PROVE q \in DOMAIN g /\ g[q] = Dir
    <3>1. Kind(f, q) \in {"none", "dir"}
      BY <1>2, NodeDef DEF InTheWay
    <3> QED BY <1>1, <3>1, NodeDef
  <2>2. ASSUME NEW q \in DOMAIN g PROVE Open(g, q)
    <3>1. CASE q \in DOMAIN f
      BY <1>1, <3>1, Above DEF Open
    <3>2. CASE q \in PathsTo(p)
      <4>1. q \in Path /\ within(p, q)
        BY <3>2, PathsToDef
      <4>2. ASSUME NEW r \in Path, within(q, r), r # q PROVE r \in DOMAIN g /\ g[r] = Dir
        <5>1. within(p, r)
          BY <4>1, <4>2, WithinOrder
        <5> QED BY <2>1, <5>1, PathsToDef
      <4> QED BY <4>1, <4>2 DEF Open
    <3> QED BY <1>1, <3>1, <3>2
  <2>3. Node(Dir)
    BY DEF Node, Dir
  <2>4. \A q \in DOMAIN g : Node(g[q])
    BY <1>1, <2>3, NodeDef
  <2>5. p \in PathsTo(p) /\ <<>> \in PathsTo(p)
    <3>1. <<>> \in Path
      BY DEF Path
    <3> QED BY <3>1, PathsToDef, WithinOrder
  <2> QED BY <1>1, <2>1, <2>2, <2>4, <2>5, FileSystemDef
<1> QED
  BY <1>1, <1>2 DEF g

(* A move takes along all that is in what is moved.                        *)
LEMMA RenameFileSystem ==
    ASSUME NEW f, FileSystem(f), NEW from \in Path, NEW to \in Path, Open(f, to)
    PROVE  /\ FileSystem(rename(f, from, to).fs)
           /\ \A q \in Changed(f, rename(f, from, to).fs) : within(q, from) \/ within(q, to)
<1>0. \A q \in Changed(f, f) : FALSE
  BY DEF Changed
<1>1. CASE rename(f, from, to).fs = f
  BY <1>0, <1>1
<1>2. CASE rename(f, from, to).fs # f
  <2> DEFINE g == RemoveAll(RemoveAll(f, from), to)
             new == {to \o Rel(m, from) : m \in Inside(f, from)}
             h == [q \in DOMAIN g \cup new |-> IF within(q, to) THEN f[from \o Rel(q, to)] ELSE g[q]]
  <2>1. /\ rename(f, from, to).fs = h /\ from # to /\ ~within(to, from) /\ Kind(f, from) # "none"
        /\ Kind(f, to) = "none" \/ Inside(f, to) \subseteq {to}
    BY <1>2 DEF rename, Done, Failed
  <2>2. from \in DOMAIN f /\ <<>> \in Path
    BY <2>1, NodeDef DEF Path
  <2>3. from # <<>> /\ to # <<>>
    <3>1. from # <<>>
      BY <2>1, WithinOrder
    <3>2. ASSUME to = <<>> PROVE FALSE
      <4>1. Kind(f, to) # "none" /\ within(from, to)
        BY <2>2, <3>2, Above, NodeDef, WithinOrder
      <4> QED BY <2>1, <2>2, <4>1 DEF Inside
    <3> QED BY <3>1, <3>2
  <2>4. ASSUME NEW q PROVE q \in DOMAIN g <=> q \in DOMAIN f /\ ~within(q, from) /\ ~within(q, to)
    <3>1. FileSystem(RemoveAll(f, from)) /\ from \in Answer /\ to \in Answer
      BY RemoveFileSystem DEF Answer
    <3>2. ~within(<<>>, from) /\ ~within(<<>>, to)
      <4>1. \A r \in Path : within(r, <<>>)
        BY WithinOrder
      <4> QED BY <2>2, <2>3, <4>1, WithinOrder
    <3>3. q \in DOMAIN RemoveAll(f, from) <=> q \in DOMAIN f /\ ~within(q, from)
      BY <3>1, <3>2, RemoveFileSystem
    <3> QED BY <3>1, <3>2, <3>3, RemoveFileSystem
  <2>5. \A q \in DOMAIN g : g[q] = f[q]
    BY RemoveFileSystem DEF Answer, RemoveAll
  <2> HIDE DEF g
  <2>6. ASSUME NEW q \in new
        PROVE  q \in Path /\ within(q, to) /\ from \o Rel(q, to) \in DOMAIN f
    <3>1. PICK m \in DOMAIN f : within(m, from) /\ q = to \o Rel(m, from)
      BY DEF Inside
    <3>2. m \in Path
      BY Above
    <3>3. Rel(m, from) \in Path /\ m = from \o Rel(m, from)
      BY <3>1, <3>2, Joined
    <3>4. q \in Path /\ within(q, to) /\ Rel(q, to) = Rel(m, from)
      BY <3>1, <3>3, Joined
    <3> QED BY <3>3, <3>4
  <2>7. ASSUME NEW s \in Path, from \o s \in DOMAIN f PROVE to \o s \in new
    <3>1. from \o s \in Inside(f, from) /\ Rel(from \o s, from) = s
      BY <2>7, Joined DEF Inside
    <3> QED BY <3>1
  <2>8. /\ DOMAIN h = DOMAIN g \cup new /\ h = [q \in DOMAIN h |-> h[q]]
        /\ \A q \in new : h[q] = f[from \o Rel(q, to)]
        /\ \A q \in DOMAIN g : h[q] = f[q]
    BY <2>4, <2>5, <2>6
  <2> HIDE DEF h, new
  <2>9. ASSUME NEW q \in DOMAIN f, f[q] = Dir, ~within(q, from), ~within(q, to) PROVE q \in DOMAIN h /\ h[q] = Dir
    BY <2>4, <2>8, <2>9
  <2>10. ASSUME NEW q \in DOMAIN h PROVE Open(h, q) /\ Node(h[q])
    <3>1. CASE q \in new
      <4> DEFINE m == Rel(q, to)
      <4>1. q \in Path /\ within(q, to) /\ from \o m \in DOMAIN f /\ m \in Path /\ q = to \o m
        BY <2>6, <3>1, Joined
      <4>2. ASSUME NEW r \in Path, within(q, r), r # q PROVE r \in DOMAIN h /\ h[r] = Dir
        <5>1. CASE within(r, to)
          <6> DEFINE s == Rel(r, to)
          <6>1. s \in Path /\ r = to \o s
            BY <5>1, Joined
          <6> HIDE DEF m, s
          <6>2. within(m, s) /\ s # m
            BY <4>1, <4>2, <6>1, Below
          <6>3. within(from \o m, from \o s) /\ from \o s # from \o m /\ from \o s \in Path
            <7>1. within(from \o m, from \o s)
              BY <4>1, <6>1, <6>2, Below
            <7>2. from \o s # from \o m
              BY <4>1, <6>1, <6>2, Cancel
            <7>3. from \o s \in Path
              BY <6>1, Joined
            <7> QED BY <7>1, <7>2, <7>3
          <6>4. from \o s \in DOMAIN f /\ f[from \o s] = Dir
            BY <4>1, <6>3, Above
          <6>5. r \in new /\ Rel(r, to) = s
            BY <2>7, <6>1, <6>4, Joined
          <6> QED BY <2>8, <6>4, <6>5
        <5>2. CASE ~within(r, to)
          <6>1. within(to, r) /\ to # r
            BY <4>1, <4>2, <5>2, WithinOrder
          <6>2. r \in DOMAIN f /\ f[r] = Dir
            BY <6>1 DEF Open
          <6>3. ~within(r, from)
            BY <2>1, <6>1, WithinOrder
          <6> QED BY <2>9, <5>2, <6>2, <6>3
        <5> QED BY <5>1, <5>2
      <4>3. Node(h[q])
        BY <2>8, <3>1, <4>1, NodeDef
      <4> QED BY <4>1, <4>2, <4>3 DEF Open
    <3>2. CASE q \in DOMAIN g
      <4>1. q \in DOMAIN f /\ ~within(q, from) /\ ~within(q, to) /\ q \in Path
        BY <2>4, <3>2, Above
      <4>2. ASSUME NEW r \in Path, within(q, r), r # q PROVE r \in DOMAIN h /\ h[r] = Dir
        <5>1. r \in DOMAIN f /\ f[r] = Dir
          BY <4>1, <4>2, Above
        <5>2. ~within(r, from) /\ ~within(r, to)
          BY <4>1, <4>2, WithinOrder
        <5> QED BY <2>9, <5>1, <5>2
      <4>3. Node(h[q])
        BY <2>8, <3>2, <4>1, NodeDef
      <4> QED BY <4>1, <4>2, <4>3 DEF Open
    <3> QED BY <2>8, <3>1, <3>2
  <2>11. <<>> \in DOMAIN h /\ h[<<>>] = Dir
    <3>1. ~within(<<>>, from) /\ ~within(<<>>, to)
      <4>1. \A r \in Path : within(r, <<>>)
        BY WithinOrder
      <4> QED BY <2>2, <2>3, <4>1, WithinOrder
    <3> QED BY <2>9, <3>1, Above
  <2>12. FileSystem(h)
    BY <2>8, <2>10, <2>11, FileSystemDef
  <2>13. ASSUME NEW q \in Changed(f, h) PROVE within(q, from) \/ within(q, to)
    BY <2>4, <2>6, <2>8 DEF Changed
  <2> QED BY <2>1, <2>12, <2>13
<1> QED
  BY <1>1, <1>2

(* What Put, RemoveAll and MakeDirs change.                                *)
LEMMA ChangedDef ==
    ASSUME NEW f, FileSystem(f)
    PROVE  /\ Changed(f, f) = {}
           /\ \A p, n : Changed(f, Put(f, p, n)) \subseteq {p}
           /\ \A p \in Answer : \A q \in Changed(f, RemoveAll(f, p)) : q \in DOMAIN f /\ within(q, p)
           /\ \A p \in Path : \A q \in Changed(f, MakeDirs(f, p)) : q \in PathsTo(p) /\ q \notin DOMAIN f
<1>1. Changed(f, f) = {}
  BY DEF Changed
<1>2. ASSUME NEW p, NEW n PROVE Changed(f, Put(f, p, n)) \subseteq {p}
  BY DEF Changed, Put
<1>3. ASSUME NEW p \in Answer, NEW q \in Changed(f, RemoveAll(f, p)) PROVE q \in DOMAIN f /\ within(q, p)
  BY RemoveFileSystem DEF Changed
<1>4. ASSUME NEW p \in Path, NEW q \in Changed(f, MakeDirs(f, p)) PROVE q \in PathsTo(p) /\ q \notin DOMAIN f
  BY MakeFileSystem DEF Changed
<1> QED
  BY <1>1, <1>2, <1>3, <1>4

(* A request of another client keeps the file system one, and changes      *)
(* nothing outside the root.                                               *)
LEMMA ManageStep ==
    ASSUME NEW f, FileSystem(f), NEW r \in Request
    PROVE  /\ FileSystem(Manage(f, r).fs)
           /\ \A p \in Changed(f, Manage(f, r).fs) : within(p, Root)
<1> DEFINE p == Resolve(f, r.path, r.action \in Creating)
           q == IF r.action \in Pair THEN Resolve(f, r.target, r.action # "symlink") ELSE <<>>
           Fine(g) == FileSystem(g) /\ \A x \in Changed(f, g) : within(x, Root)
<1>0. r.path \in Path /\ r.target \in Path /\ Root \in Path
  BY PathAssumption DEF Request
<1>1. Fine(f)
  BY ChangedDef
<1>2. CASE p = Missing \/ q = Missing
  <2>1. Manage(f, r).fs = f
    BY <1>2 DEF Manage, Failed, Done
  <2> QED BY <1>1, <2>1
<1>3. CASE p # Missing /\ q # Missing
  <2>1. p \in Path /\ within(p, Root)
    BY <1>0, <1>3, ResolveDef
  <2>2. r.action \in Creating => Open(f, p) /\ Kind(f, p) # "link"
    BY <1>0, <1>3, ResolveDef
  <2>3. r.action \in Pair => q \in Path /\ within(q, Root)
    BY <1>0, <1>3, ResolveDef
  <2>4. r.action \in Pair \ {"symlink"} => Open(f, q) /\ Kind(f, q) # "link"
    BY <1>0, <1>3, ResolveDef
  <2> DEFINE Do(allowed, g) == IF allowed THEN Done(g) ELSE Failed(Done(f))
  <2>5. \A allowed, g : Do(allowed, g).fs = IF allowed THEN g ELSE f
    BY DEF Done, Failed
  <2>6. Manage(f, r) =
        CASE r.action = "delete" -> Do(r.recursive \/ Inside(f, p) \subseteq {p}, RemoveAll(f, p))
          [] r.action = "mkdir" -> Do(Kind(f, p) \in {"none", "dir"}, Put(f, p, Dir))
          [] r.action = "touch" -> Do(Kind(f, p) \in {"none", "file"},
                                      IF Kind(f, p) = "file" THEN f ELSE Put(f, p, File(<<>>)))
          [] r.action = "truncate" -> Do(Kind(f, p) = "file", Put(f, p, File(<<>>)))
          [] r.action = "copy" -> Do(Kind(f, p) = "file" /\ Kind(f, q) # "dir", Put(f, q, f[p]))
          [] r.action = "move" -> rename(f, p, q)
          [] r.action = "symlink" -> Do(Kind(f, p) = "none", Put(f, p, Link(q)))
    BY <1>3 DEF Manage
  <2> HIDE DEF p, q, Do
  <2>7. Node(Dir) /\ Node(File(<<>>)) /\ (q \in Path => Node(Link(q)))
    BY DEF Node, Dir, File, Link
  <2>8. ASSUME NEW x \in Path, within(x, Root), Open(f, x), NEW n, Node(n), Kind(f, x) = "dir" => n = Dir
        PROVE  Fine(Put(f, x, n))
    BY <2>8, PutFileSystem, ChangedDef
  <2>9. CASE r.action = "delete"
    <3>1. Fine(RemoveAll(f, p))
      <4>1. p \in Answer
        BY <2>1 DEF Answer
      <4>2. \A x \in Changed(f, RemoveAll(f, p)) : x \in Path /\ within(x, p)
        BY <4>1, ChangedDef, Above
      <4>3. \A x \in Changed(f, RemoveAll(f, p)) : within(x, Root)
        BY <1>0, <2>1, <4>2, WithinOrder
      <4> QED BY <4>1, <4>3, RemoveFileSystem
    <3>2. Manage(f, r).fs \in {f, RemoveAll(f, p)}
      BY <2>5, <2>6, <2>9
    <3> QED BY <1>1, <3>1, <3>2
  <2>10. CASE r.action = "mkdir"
    <3>1. Fine(Put(f, p, Dir))
      BY <2>1, <2>2, <2>7, <2>8, <2>10 DEF Creating
    <3>2. Manage(f, r).fs \in {f, Put(f, p, Dir)}
      BY <2>5, <2>6, <2>10
    <3> QED BY <1>1, <3>1, <3>2
  <2>11. CASE r.action = "touch"
    <3>1. Kind(f, p) # "dir" => Fine(Put(f, p, File(<<>>)))
      BY <2>1, <2>2, <2>7, <2>8, <2>11 DEF Creating
    <3>2. Manage(f, r).fs = f \/ (Manage(f, r).fs = Put(f, p, File(<<>>)) /\ Kind(f, p) # "dir")
      <4>1. Manage(f, r) = Do(Kind(f, p) \in {"none", "file"}, IF Kind(f, p) = "file" THEN f ELSE Put(f, p, File(<<>>)))
        BY <2>6, <2>11
      <4> QED BY <4>1 DEF Do, Done, Failed
    <3> QED BY <1>1, <3>1, <3>2
  <2>12. CASE r.action = "truncate"
    <3>1. Kind(f, p) = "file" => Fine(Put(f, p, File(<<>>)))
      <4>1. Kind(f, p) = "file" => Open(f, p)
        BY OpenDef, NodeDef
      <4> QED BY <2>1, <2>7, <2>8, <4>1
    <3>2. Manage(f, r).fs = f \/ (Manage(f, r).fs = Put(f, p, File(<<>>)) /\ Kind(f, p) = "file")
      <4>1. Manage(f, r) = Do(Kind(f, p) = "file", Put(f, p, File(<<>>)))
        BY <2>6, <2>12
      <4> QED BY <4>1 DEF Do, Done, Failed
    <3> QED BY <1>1, <3>1, <3>2
  <2>13. CASE r.action = "copy"
    <3>1. Kind(f, p) = "file" /\ Kind(f, q) # "dir" => Fine(Put(f, q, f[p]))
      <4>1. Kind(f, p) = "file" => Node(f[p])
        BY NodeDef
      <4>2. q \in Path /\ within(q, Root) /\ Open(f, q)
        BY <2>3, <2>4, <2>13 DEF Pair
      <4> QED BY <2>8, <4>1, <4>2
    <3>2. \/ Manage(f, r).fs = f
          \/ Manage(f, r).fs = Put(f, q, f[p]) /\ Kind(f, p) = "file" /\ Kind(f, q) # "dir"
      <4>1. Manage(f, r) = Do(Kind(f, p) = "file" /\ Kind(f, q) # "dir", Put(f, q, f[p]))
        BY <2>6, <2>13
      <4> QED BY <4>1 DEF Do, Done, Failed
    <3> QED BY <1>1, <3>1, <3>2
  <2>14. CASE r.action = "move"
    <3>1. q \in Path /\ within(q, Root) /\ Open(f, q)
      BY <2>3, <2>4, <2>14 DEF Pair
    <3>2. Manage(f, r) = rename(f, p, q)
      BY <2>6, <2>14
    <3> DEFINE h == rename(f, p, q).fs
    <3>3. FileSystem(h) /\ \A x \in Changed(f, h) : within(x, p) \/ within(x, q)
      BY <2>1, <3>1, RenameFileSystem
    <3> HIDE DEF h
    <3>4. \A x \in Changed(f, h) : x \in Path
      BY <3>3, Above DEF Changed
    <3>5. \A x \in Changed(f, h) : within(x, Root)
      BY <1>0, <2>1, <3>1, <3>3, <3>4, WithinOrder
    <3> QED BY <3>2, <3>3, <3>5 DEF h
  <2>15. CASE r.action = "symlink"
    <3>1. Kind(f, p) = "none" => Fine(Put(f, p, Link(q)))
      <4>1. q \in Path /\ Open(f, p)
        BY <2>2, <2>3, <2>15 DEF Pair, Creating
      <4> QED BY <2>1, <2>7, <2>8, <4>1
    <3>2. Manage(f, r).fs = f \/ (Manage(f, r).fs = Put(f, p, Link(q)) /\ Kind(f, p) = "none")
      <4>1. Manage(f, r) = Do(Kind(f, p) = "none", Put(f, p, Link(q)))
        BY <2>6, <2>15
      <4> QED BY <4>1 DEF Do, Done, Failed
    <3> QED BY <1>1, <3>1, <3>2
  <2>16. r.action \in {"delete", "mkdir", "touch", "truncate", "copy", "move", "symlink"}
    BY DEF Request, Creating, Pair
  <2> QED BY <2>9, <2>10, <2>11, <2>12, <2>13, <2>14, <2>15, <2>16
<1> QED
  BY <1>2, <1>3

-----------------------------------------------------------------------------
(* The work on one entry.                                                  *)

Result == [deleted : SUBSET Path, deletions : Nat, skipped : SUBSET Path, copied : Nat, created : Nat]
Work(w) ==
    /\ w = [err |-> w.err, fs |-> w.fs, res |-> w.res]
    /\ w.err \in {"none", "failed"}
    /\ FileSystem(w.fs)
    /\ w.res \in Result

(* A deletion is added to a result.                                        *)
LEMMA ListedDef ==
    ASSUME NEW r \in Result, NEW path \in Path
    PROVE  /\ Listed(r, path) \in Result
           /\ Listed(r, path).deleted = r.deleted \cup {path} /\ Listed(r, path).deletions = r.deletions + 1
           /\ Listed(r, path).skipped = r.skipped
<1> DEFINE once == [r EXCEPT !.deletions = @ + 1]
<1>1. once \in Result /\ once.deleted = r.deleted /\ once.deletions = r.deletions + 1 /\ once.skipped = r.skipped
  BY DEF Result
<1> HIDE DEF once
<1>2. Listed(r, path) = [once EXCEPT !.deleted = @ \cup {path}]
  BY DEF Listed, once
<1> QED
  BY <1>1, <1>2 DEF Result

(* The operators that carry the work along.                                *)
LEMMA WorkDef ==
    ASSUME NEW w, Work(w)
    PROVE  /\ Failed(w) = [err |-> "failed", fs |-> w.fs, res |-> w.res] /\ Work(Failed(w))
           /\ \A p : Making(w, p) = [err |-> w.err, fs |-> MakeDirs(w.fs, p), res |-> w.res]
           /\ \A p, q : Deleting(w, p, q) = [err |-> w.err, fs |-> RemoveAll(w.fs, p), res |-> Listed(w.res, q)]
           /\ \A p \in Answer : \A q \in Path : Work(Deleting(w, p, q))
<1>1. Failed(w) = [err |-> "failed", fs |-> w.fs, res |-> w.res]
  BY DEF Work, Failed
<1>2. \A p : Making(w, p) = [err |-> w.err, fs |-> MakeDirs(w.fs, p), res |-> w.res]
  BY DEF Making, With
<1>3. ASSUME NEW p, NEW q
      PROVE  Deleting(w, p, q) = [err |-> w.err, fs |-> RemoveAll(w.fs, p), res |-> Listed(w.res, q)]
  BY DEF Deleting, With
<1>5. Work(Failed(w))
  BY <1>1 DEF Work
<1>6. ASSUME NEW p \in Answer, NEW q \in Path PROVE Work(Deleting(w, p, q))
  <2>1. FileSystem(RemoveAll(w.fs, p))
    BY RemoveFileSystem DEF Work
  <2>2. Listed(w.res, q) \in Result
    BY ListedDef DEF Work
  <2> QED BY <1>3, <2>1, <2>2 DEF Work
<1> QED
  BY <1>1, <1>2, <1>3, <1>5, <1>6

(* At most one file or link is in the way of a path.                       *)
LEMMA OneInTheWay ==
    ASSUME NEW f, FileSystem(f), NEW p \in Path, NEW x \in InTheWay(f, p)
    PROVE  /\ x \in DOMAIN f /\ x \in Path /\ x # <<>> /\ within(p, x) /\ f[x] # Dir
           /\ InTheWay(f, p) = {x}
           /\ \A y \in DOMAIN f : within(y, x) => y = x
<1>1. x \in DOMAIN f /\ x \in Path /\ within(p, x) /\ f[x] # Dir
  BY PathsToDef, NodeDef, Above DEF InTheWay
<1>2. \A y \in DOMAIN f : within(y, x) => y = x
  BY <1>1, Above
<1>3. ASSUME NEW y \in InTheWay(f, p) PROVE y = x
  <2>1. y \in DOMAIN f /\ y \in Path /\ within(p, y) /\ f[y] # Dir
    BY PathsToDef, NodeDef, Above DEF InTheWay
  <2>2. within(x, y) \/ within(y, x)
    BY <1>1, <2>1, WithinOrder
  <2> QED BY <1>1, <1>2, <2>1, <2>2, Above
<1> QED
  BY <1>1, <1>2, <1>3, Above

(* Directories down from base, one in the place of a file perhaps.         *)
Lays(f, g, base, full) ==
    /\ FileSystem(g)
    /\ full \in DOMAIN g /\ g[full] = Dir
    /\ \A y \in Changed(f, g) :
           y \in PathsTo(full) /\ within(y, base) /\ y # base /\ y \in DOMAIN g /\ g[y] = Dir

(* Directories are made below one that exists.                             *)
LEMMA MakingLays ==
    ASSUME NEW f, FileSystem(f), NEW base, Kind(f, base) = "dir", NEW full \in Path, within(full, base)
    PROVE  /\ InTheWay(f, full) = {} => /\ Lays(f, MakeDirs(f, full), base, full)
                                        /\ \A y \in Changed(f, MakeDirs(f, full)) : y \notin DOMAIN f
           /\ \A x \in InTheWay(f, full) :
                 LET g == MakeDirs(RemoveAll(f, x), full) IN
                 /\ Lays(f, g, base, full) /\ within(x, base)
                 /\ \A y \in Changed(f, g) : y \in DOMAIN f => y = x
<1>0. base \in DOMAIN f /\ f[base] = Dir /\ base \in Path
  BY NodeDef, Above
<1>1. ASSUME NEW y \in PathsTo(full), y \notin DOMAIN f \/ f[y] # Dir
      PROVE  y \in Path /\ within(y, base) /\ y # base
  <2>1. y \in Path /\ within(full, y)
    BY PathsToDef
  <2>2. within(y, base) \/ within(base, y)
    BY <1>0, <2>1, WithinOrder
  <2> QED BY <1>0, <1>1, <2>1, <2>2, Above
<1>2. ASSUME InTheWay(f, full) = {}
      PROVE  /\ Lays(f, MakeDirs(f, full), base, full)
             /\ \A y \in Changed(f, MakeDirs(f, full)) : y \notin DOMAIN f
  <2> DEFINE g == MakeDirs(f, full)
  <2>1. FileSystem(g) /\ DOMAIN g = DOMAIN f \cup PathsTo(full) /\ g[full] = Dir
    BY <1>2, MakeFileSystem
  <2>2. full \in PathsTo(full)
    BY PathsToDef, WithinOrder
  <2>3. \A y \in Changed(f, g) : y \in PathsTo(full) /\ y \notin DOMAIN f
    BY ChangedDef
  <2>4. \A y \in PathsTo(full) \ DOMAIN f : g[y] = Dir
    BY MakeFileSystem
  <2> HIDE DEF g
  <2>5. Lays(f, g, base, full)
    BY <1>1, <2>1, <2>2, <2>3, <2>4 DEF Lays
  <2> QED BY <2>3, <2>5 DEF g
<1>3. ASSUME NEW x \in InTheWay(f, full)
      PROVE  LET g == MakeDirs(RemoveAll(f, x), full) IN
                 /\ Lays(f, g, base, full) /\ within(x, base)
                 /\ \A y \in Changed(f, g) : y \in DOMAIN f => y = x
  <2> DEFINE h == RemoveAll(f, x)
             g == MakeDirs(h, full)
  <2>1. /\ x \in DOMAIN f /\ x \in Path /\ x # <<>> /\ within(full, x) /\ f[x] # Dir
        /\ InTheWay(f, full) = {x} /\ \A y \in DOMAIN f : within(y, x) => y = x
    BY OneInTheWay
  <2>2. x \in PathsTo(full) /\ x \in Answer
    BY <2>1, PathsToDef DEF Answer
  <2>3. within(x, base) /\ x # base
    BY <1>1, <2>1, <2>2
  <2>4. /\ FileSystem(h)
        /\ \A q : q \in DOMAIN h <=> q \in DOMAIN f /\ q # x
        /\ \A q \in DOMAIN h : h[q] = f[q]
    <3>1. within(x, x)
      BY <2>1, WithinOrder
    <3> QED BY <2>1, <2>2, <3>1, RemoveFileSystem
  <2>5. InTheWay(h, full) = {}
    <3>1. \A q \in PathsTo(full) : Kind(h, q) \in {"file", "link"} => Kind(f, q) \in {"file", "link"} /\ q # x
      BY <2>4 DEF Kind
    <3> QED BY <2>1, <3>1 DEF InTheWay
  <2> HIDE DEF h
  <2>6. /\ FileSystem(g) /\ DOMAIN g = DOMAIN h \cup PathsTo(full) /\ g[full] = Dir
        /\ (\A q \in DOMAIN h : g[q] = h[q]) /\ \A q \in PathsTo(full) \ DOMAIN h : g[q] = Dir
    BY <2>4, <2>5, MakeFileSystem
  <2> HIDE DEF g
  <2>7. full \in PathsTo(full)
    BY PathsToDef, WithinOrder
  <2>8. ASSUME NEW y \in Changed(f, g)
        PROVE  y \in PathsTo(full) /\ y \in DOMAIN g /\ g[y] = Dir /\ (y \in DOMAIN f => y = x)
    BY <2>2, <2>4, <2>6 DEF Changed
  <2>9. ASSUME NEW y \in Changed(f, g) PROVE within(y, base) /\ y # base
    BY <1>1, <2>1, <2>3, <2>8
  <2>10. Lays(f, g, base, full)
    BY <2>6, <2>7, <2>8, <2>9 DEF Lays
  <2> QED BY <2>3, <2>8, <2>10 DEF g, h
<1> QED
  BY <1>2, <1>3

(* What ensureTreeParent does: nothing, or it lays directories, one in the *)
(* place of a file that it reports perhaps.                                *)
Parents(w, e, root, rel, replace) ==
    LET base == EvalSymlinks(w.fs, root)
        full == base \o rel
    IN  /\ rel # <<>> /\ Kind(w.fs, base) = "dir" /\ base \in Path
        /\ Lays(w.fs, e.fs, base, full)
        /\ e.err = w.err
        /\ \/ e.res = w.res /\ \A y \in Changed(w.fs, e.fs) : y \notin DOMAIN w.fs
           \/ replace /\ \E x \in InTheWay(w.fs, full) :
                 /\ within(x, base)
                 /\ e.res = Listed(w.res, root \o Rel(x, base))
                 /\ \A y \in Changed(w.fs, e.fs) : y \in DOMAIN w.fs => y = x

(* The cases of ensureTreeParent.                                          *)
LEMMA ParentCases ==
    ASSUME NEW w, Work(w), NEW root \in Path, NEW rel \in Path, NEW replace \in BOOLEAN
    PROVE  LET e == ensureTreeParent(w, root, rel, replace) IN
           /\ Work(e)
           /\ \/ e.fs = w.fs /\ e.res = w.res /\ ((rel = <<>> /\ e = w) \/ ~Ok(e))
              \/ Parents(w, e, root, rel, replace)
<1> DEFINE e == ensureTreeParent(w, root, rel, replace)
           base == EvalSymlinks(w.fs, root)
           full == base \o rel
           found == InTheWay(w.fs, full)
           first == CHOOSE p \in found : TRUE
<1>0. FileSystem(w.fs) /\ w.res \in Result /\ w.err \in {"none", "failed"}
  BY DEF Work
<1>1. CASE rel = <<>>
  <2>1. e = w
    BY <1>1 DEF ensureTreeParent
  <2> QED BY <1>1, <2>1
<1>2. CASE rel # <<>> /\ e = Failed(w)
  <2>1. ~Ok(e) /\ e.fs = w.fs /\ e.res = w.res
    BY <1>2, WorkDef DEF Ok
  <2>2. Work(e)
    BY <1>2, WorkDef
  <2> QED BY <2>1, <2>2
<1>3. ASSUME rel # <<>>, Kind(w.fs, base) = "dir"
      PROVE  base \in Path /\ full \in Path /\ within(full, base)
  <2>1. base \in Path
    BY <1>0, <1>3, NodeDef, Above
  <2> QED BY <2>1, Joined
<1>4. CASE rel # <<>> /\ Kind(w.fs, base) = "dir" /\ found = {} /\ e = Making(w, full)
  <2>1. e = [err |-> w.err, fs |-> MakeDirs(w.fs, full), res |-> w.res]
    BY <1>4, WorkDef
  <2>2. e.fs = MakeDirs(w.fs, full) /\ e.res = w.res /\ e.err = w.err
    BY <2>1
  <2>3. Lays(w.fs, e.fs, base, full) /\ \A y \in Changed(w.fs, e.fs) : y \notin DOMAIN w.fs
    BY <1>0, <1>3, <1>4, <2>2, MakingLays
  <2>4. Work(e)
    BY <1>0, <2>1, <2>2, <2>3 DEF Work, Lays
  <2> QED BY <1>3, <1>4, <2>2, <2>3, <2>4 DEF Parents
<1>5. CASE /\ rel # <<>> /\ Kind(w.fs, base) = "dir" /\ found # {} /\ replace
           /\ e = Making(Deleting(w, first, root \o Rel(first, base)), full)
  <2> DEFINE name == root \o Rel(first, base)
             d == Deleting(w, first, name)
  <2>1. first \in found
    BY <1>5
  <2> HIDE DEF first
  <2>2. first \in Path
    BY <1>0, <1>3, <1>5, <2>1, OneInTheWay
  <2>3. Lays(w.fs, MakeDirs(RemoveAll(w.fs, first), full), base, full) /\ within(first, base)
    BY <1>0, <1>3, <1>5, <2>1, MakingLays
  <2>4. \A y \in Changed(w.fs, MakeDirs(RemoveAll(w.fs, first), full)) : y \in DOMAIN w.fs => y = first
    BY <1>0, <1>3, <1>5, <2>1, MakingLays
  <2>5. name \in Path
    BY <1>3, <1>5, <2>2, <2>3, Joined
  <2>6. d = [err |-> w.err, fs |-> RemoveAll(w.fs, first), res |-> Listed(w.res, name)] /\ Work(d)
    BY <2>2, <2>5, WorkDef DEF Answer
  <2>7. e = [err |-> d.err, fs |-> MakeDirs(d.fs, full), res |-> d.res]
    BY <1>5, <2>6, WorkDef
  <2>8. e.fs = MakeDirs(RemoveAll(w.fs, first), full) /\ e.res = Listed(w.res, name) /\ e.err = w.err
    BY <2>6, <2>7
  <2>9. e = [err |-> e.err, fs |-> e.fs, res |-> e.res]
    BY <2>7
  <2>10. Work(e)
    BY <1>0, <2>3, <2>5, <2>8, <2>9, ListedDef DEF Work, Lays
  <2> QED BY <1>3, <1>5, <2>1, <2>3, <2>4, <2>8, <2>10 DEF Parents
<1> HIDE DEF first
<1>6. rel = <<>> \/ e = Failed(w)
         \/ (Kind(w.fs, base) = "dir" /\ found = {} /\ e = Making(w, full))
         \/ (Kind(w.fs, base) = "dir" /\ found # {} /\ replace
               /\ e = Making(Deleting(w, first, root \o Rel(first, base)), full))
  BY DEF ensureTreeParent, first
<1> QED
  BY <1>1, <1>2, <1>4, <1>5, <1>6

(* The work goes on: deletions are only added, and only if asked for.      *)
Grows(w, e, replace) ==
    /\ Work(e)
    /\ w.res.deleted \subseteq e.res.deleted
    /\ e.res.skipped = w.res.skipped
    /\ ~replace => e.res.deleted = w.res.deleted

(* A name leads where it says, or nowhere.                                 *)
Straight(f, p) == EvalSymlinks(f, p) \in {p, Missing}

(* Changes stay below a path, and what was there is replaced by something  *)
(* of another kind only at or below a path that is reported.               *)
Careful(w, e, top) ==
    /\ \A p \in Changed(w.fs, e.fs) : within(p, top)
    /\ \A p \in DOMAIN w.fs : Kind(e.fs, p) # Kind(w.fs, p) => \E d \in e.res.deleted : within(p, d)

(* Work that changes nothing, and work that goes on from other work.       *)
LEMMA CarefulSteps ==
    ASSUME NEW w, Work(w), NEW top \in Path
    PROVE  /\ \A e : e.fs = w.fs => Careful(w, e, top)
           /\ \A replace : Grows(w, w, replace)
           /\ \A d, e : Careful(w, d, top) /\ Careful(d, e, top) /\ d.res.deleted \subseteq e.res.deleted => Careful(w, e, top)
           /\ \A replace : \A d, e : Grows(w, d, replace) /\ Grows(d, e, replace) => Grows(w, e, replace)
<1>1. FileSystem(w.fs)
  BY DEF Work
<1>2. \A e : e.fs = w.fs => Careful(w, e, top)
  BY <1>1, ChangedDef DEF Careful
<1>3. ASSUME NEW d, NEW e, Careful(w, d, top), Careful(d, e, top), d.res.deleted \subseteq e.res.deleted
      PROVE  Careful(w, e, top)
  <2>1. \A p \in Changed(w.fs, e.fs) : p \in Changed(w.fs, d.fs) \/ p \in Changed(d.fs, e.fs)
    BY DEF Changed
  <2>2. ASSUME NEW p \in DOMAIN w.fs, Kind(e.fs, p) # Kind(w.fs, p) PROVE \E x \in e.res.deleted : within(p, x)
    <3>1. CASE Kind(d.fs, p) # Kind(w.fs, p)
      BY <1>3, <3>1 DEF Careful
    <3>2. CASE Kind(d.fs, p) = Kind(w.fs, p)
      <4>1. p \in DOMAIN d.fs
        <5>1. Kind(w.fs, p) # "none"
          BY <1>1, NodeDef
        <5> QED BY <3>2, <5>1 DEF Kind
      <4> QED BY <1>3, <2>2, <3>2, <4>1 DEF Careful
    <3> QED BY <3>1, <3>2
  <2> QED BY <1>3, <2>1, <2>2 DEF Careful
<1> QED
  BY <1>2, <1>3 DEF Grows

(* ensureTreeParent goes on, carefully where its root is straight.         *)
LEMMA ParentStep ==
    ASSUME NEW w, Work(w), NEW root \in Path, NEW rel \in Path, NEW replace \in BOOLEAN
    PROVE  LET e == ensureTreeParent(w, root, rel, replace) IN
           /\ Grows(w, e, replace)
           /\ Straight(w.fs, root) => /\ Careful(w, e, root)
                                      /\ Ok(e) /\ rel # <<>> => Kind(e.fs, root \o rel) = "dir"
<1> DEFINE e == ensureTreeParent(w, root, rel, replace)
           base == EvalSymlinks(w.fs, root)
           full == base \o rel
<1>0. FileSystem(w.fs) /\ w.res \in Result /\ Work(e)
  BY ParentCases DEF Work
<1>1. CASE e.fs = w.fs /\ e.res = w.res /\ ((rel = <<>> /\ e = w) \/ ~Ok(e))
  <2>1. Grows(w, e, replace)
    BY <1>0, <1>1 DEF Grows
  <2>2. Careful(w, e, root)
    BY <1>1, CarefulSteps
  <2> QED BY <1>1, <2>1, <2>2
<1>2. CASE Parents(w, e, root, rel, replace)
  <2>1. /\ rel # <<>> /\ Kind(w.fs, base) = "dir" /\ base \in Path
        /\ Lays(w.fs, e.fs, base, full)
        /\ \/ e.res = w.res /\ \A y \in Changed(w.fs, e.fs) : y \notin DOMAIN w.fs
           \/ replace /\ \E x \in InTheWay(w.fs, full) :
                 /\ within(x, base)
                 /\ e.res = Listed(w.res, root \o Rel(x, base))
                 /\ \A y \in Changed(w.fs, e.fs) : y \in DOMAIN w.fs => y = x
    BY <1>2 DEF Parents
  <2> HIDE DEF e
  <2>2. full \in Path /\ FileSystem(e.fs) /\ Kind(e.fs, full) = "dir"
    <3>1. full \in DOMAIN e.fs /\ e.fs[full] = Dir /\ FileSystem(e.fs)
      BY <2>1 DEF Lays
    <3> QED BY <2>1, <3>1, Joined, NodeDef
  <2>3. ASSUME NEW p \in DOMAIN w.fs, Kind(e.fs, p) # Kind(w.fs, p) PROVE p \in Changed(w.fs, e.fs)
    BY <2>3 DEF Changed, Kind
  <2>4. CASE e.res = w.res /\ \A y \in Changed(w.fs, e.fs) : y \notin DOMAIN w.fs
    <3>1. Grows(w, e, replace)
      BY <1>0, <2>4 DEF Grows
    <3>2. Straight(w.fs, root) => base = root
      BY <2>1, <1>0, Above DEF Straight
    <3>3. (\A p \in Changed(w.fs, e.fs) : within(p, base))
      BY <2>1 DEF Lays
    <3>4. base = root => Careful(w, e, root)
      BY <2>3, <2>4, <3>3 DEF Careful
    <3> QED BY <2>2, <3>1, <3>2, <3>4 DEF e
  <2>5. ASSUME replace, NEW x \in InTheWay(w.fs, full), within(x, base), e.res = Listed(w.res, root \o Rel(x, base)),
               \A y \in Changed(w.fs, e.fs) : y \in DOMAIN w.fs => y = x
        PROVE  Grows(w, e, replace) /\ (base = root => Careful(w, e, root))
    <3>1. x \in Path
      BY <1>0, <2>2, <2>5, OneInTheWay
    <3>2. root \o Rel(x, base) \in Path /\ (base = root => root \o Rel(x, base) = x) /\ within(x, x)
      <4>1. Rel(x, base) \in Path /\ x = base \o Rel(x, base)
        BY <2>1, <2>5, <3>1, Joined
      <4>2. root \o Rel(x, base) \in Path
        BY <4>1, Joined
      <4>3. within(x, x)
        BY <3>1, WithinOrder
      <4> QED BY <4>1, <4>2, <4>3
    <3>3. e.res.deleted = w.res.deleted \cup {root \o Rel(x, base)} /\ e.res.skipped = w.res.skipped
      <4> DEFINE name == root \o Rel(x, base)
      <4>1. name \in Path /\ e.res = Listed(w.res, name)
        BY <2>5, <3>2
      <4> HIDE DEF name
      <4>2. e.res.deleted = w.res.deleted \cup {name} /\ e.res.skipped = w.res.skipped
        BY <1>0, <4>1, ListedDef
      <4> QED BY <4>2 DEF name
    <3>4. Grows(w, e, replace)
      BY <1>0, <2>5, <3>3 DEF Grows
    <3>5. ASSUME base = root PROVE Careful(w, e, root)
      <4>1. \A p \in Changed(w.fs, e.fs) : within(p, base)
        BY <2>1 DEF Lays
      <4>2. x \in e.res.deleted
        BY <3>2, <3>3, <3>5
      <4> QED BY <2>3, <2>5, <3>2, <3>5, <4>1, <4>2 DEF Careful
    <3> QED BY <3>4, <3>5
  <2>6. Straight(w.fs, root) => base = root
    BY <2>1, <1>0, Above DEF Straight
  <2> QED BY <2>1, <2>2, <2>4, <2>5, <2>6 DEF e
<1> QED
  BY <1>1, <1>2, ParentCases

(* ensureTreeDirectory, too.                                               *)
LEMMA DirectoryStep ==
    ASSUME NEW w, Work(w), NEW root \in Path, NEW rel \in Path, NEW replace \in BOOLEAN
    PROVE  LET e == ensureTreeDirectory(w, root, rel, replace)
               d == ensureTreeParent(w, root, rel, replace)
           IN  /\ e.err = d.err /\ e.fs = d.fs /\ e.res.deleted = d.res.deleted /\ e.res.deletions = d.res.deletions
               /\ Grows(w, e, replace)
               /\ Straight(w.fs, root) => Careful(w, e, root)
<1> DEFINE e == ensureTreeDirectory(w, root, rel, replace)
           d == ensureTreeParent(w, root, rel, replace)
           r == [d.res EXCEPT !.created = @ + 1]
<1>1. Work(d) /\ Grows(w, d, replace) /\ (Straight(w.fs, root) => Careful(w, d, root))
  BY ParentStep DEF Grows
<1>2. e = d \/ e = [err |-> d.err, fs |-> d.fs, res |-> r]
  BY DEF ensureTreeDirectory, With
<1> HIDE DEF d, e
<1>3. r \in Result /\ r.deleted = d.res.deleted /\ r.deletions = d.res.deletions /\ r.skipped = d.res.skipped
  BY <1>1 DEF Work, Result
<1> HIDE DEF r
<1>4. e.err = d.err /\ e.fs = d.fs /\ e.res.deleted = d.res.deleted /\ e.res.deletions = d.res.deletions
  BY <1>2, <1>3
<1>5. Grows(w, e, replace)
  BY <1>1, <1>2, <1>3 DEF Grows, Work
<1>6. Straight(w.fs, root) => Careful(w, e, root)
  BY <1>1, <1>4 DEF Careful
<1> QED
  BY <1>4, <1>5, <1>6 DEF d, e

(* The parent of a path below a root.                                      *)
LEMMA ParentBelow ==
    ASSUME NEW root \in Path, NEW rel \in Path, rel # <<>>
    PROVE  /\ Parent(rel) \in Path /\ rel[Len(rel)] \in Name /\ root \o Parent(rel) \in Path
           /\ root \o rel = Append(root \o Parent(rel), rel[Len(rel)])
<1> DEFINE n == rel[Len(rel)]
           up == Parent(rel)
<1>1. n \in Name /\ up \in Path /\ rel = Append(up, n)
  BY ParentDef
<1> HIDE DEF n, up
<1>2. root \o Append(up, n) = Append(root \o up, n)
  BY <1>1, Below
<1>3. root \o up \in Path
  BY <1>1, Joined
<1> QED
  BY <1>1, <1>2, <1>3 DEF n, up

(* A path below a root is in its place, if its parent is.                  *)
LEMMA PlaceBelow ==
    ASSUME NEW f, FileSystem(f), NEW root \in Path, NEW rel \in Path, rel # <<>>,
           Kind(f, root \o Parent(rel)) = "dir" \/ (Parent(rel) = <<>> /\ Straight(f, root))
    PROVE  Place(f, root \o rel) \in {root \o rel, Missing}
<1> DEFINE n == rel[Len(rel)]
           up == root \o Parent(rel)
           full == root \o rel
<1>1. n \in Name /\ Parent(rel) \in Path /\ up \in Path /\ full = Append(up, n)
  BY ParentBelow
<1>2. Parent(full) = up /\ full # <<>> /\ full \in Path
  <2>1. Parent(full) = up /\ full # <<>>
    BY Below
  <2> QED BY <2>1, Joined
<1> HIDE DEF n, up, full
<1>4. CASE Kind(f, up) = "dir"
  <2>1. Open(f, full)
    BY <1>1, <1>2, <1>4, OpenDef
  <2> QED BY <1>2, <2>1, PlaceDef DEF full
<1>5. CASE Parent(rel) = <<>> /\ Straight(f, root)
  <2>1. up = root
    BY <1>5, Joined DEF up
  <2>2. full[Len(full)] = n
    BY <1>1, Child
  <2>3. CASE EvalSymlinks(f, root) = Missing
    <3>1. Kind(f, EvalSymlinks(f, Parent(full))) # "dir"
      BY <1>2, <2>1, <2>3, Above
    <3> QED BY <1>2, <3>1 DEF Place, full
  <2>4. CASE EvalSymlinks(f, root) = root
    BY <1>1, <1>2, <2>1, <2>2, <2>4 DEF Place, full
  <2> QED BY <1>5, <2>3, <2>4 DEF Straight
<1> QED
  BY <1>4, <1>5 DEF up

(* prepareTreeFileDestination goes on, too, and leaves a file or nothing   *)
(* in the place.                                                           *)
LEMMA DestinationStep ==
    ASSUME NEW w, Work(w), NEW root \in Path, NEW rel \in Path, rel # <<>>, NEW replace \in BOOLEAN
    PROVE  LET e == prepareTreeFileDestination(w, root, rel, replace) IN
           /\ Grows(w, e, replace)
           /\ Straight(w.fs, root) =>
                  /\ Careful(w, e, root)
                  /\ Ok(e) => Place(e.fs, root \o rel) = root \o rel /\ Kind(e.fs, root \o rel) \in {"none", "file"}
<1> DEFINE e == prepareTreeFileDestination(w, root, rel, replace)
           d == ensureTreeParent(w, root, Parent(rel), replace)
           full == root \o rel
           place == Place(d.fs, full)
           kind == Kind(d.fs, place)
<1>1. Parent(rel) \in Path /\ full \in Path /\ within(full, root) /\ full # <<>>
  BY ParentDef, Joined, Below
<1>2. /\ Work(d) /\ Grows(w, d, replace)
      /\ Straight(w.fs, root) => Careful(w, d, root)
      /\ Straight(w.fs, root) /\ Ok(d) /\ Parent(rel) # <<>> => Kind(d.fs, root \o Parent(rel)) = "dir"
      /\ Parent(rel) = <<>> => d.fs = w.fs
  <2>1. Parent(rel) = <<>> => d = w
    BY DEF ensureTreeParent
  <2> QED BY <1>1, <2>1, ParentStep DEF Grows
<1>3. \/ e = d /\ ~Ok(d)
      \/ e = Failed(d)
      \/ e = Deleting(d, place, full) /\ Ok(d) /\ kind = "dir" /\ place # Missing /\ replace
      \/ e = d /\ Ok(d) /\ kind # "dir" /\ kind # "link" /\ place # Missing
  BY DEF prepareTreeFileDestination
<1>4. FileSystem(d.fs) /\ d.res \in Result
  BY <1>2 DEF Work
<1> HIDE DEF d, e
<1>5. place = Missing \/ Open(d.fs, place)
  BY <1>1, <1>4, PlaceDef
<1>6. ASSUME Straight(w.fs, root), Ok(d) PROVE place \in {full, Missing}
  <2>1. Kind(d.fs, root \o Parent(rel)) = "dir" \/ (Parent(rel) = <<>> /\ Straight(d.fs, root))
    BY <1>2, <1>6
  <2> QED BY <1>4, <2>1, PlaceBelow
<1>7. CASE e = d /\ ~Ok(d)
  BY <1>2, <1>7 DEF e
<1>8. CASE e = Failed(d)
  <2>1. Work(e) /\ ~Ok(e) /\ e.fs = d.fs /\ e.res = d.res
    BY <1>2, <1>8, WorkDef DEF Ok
  <2>2. Grows(w, e, replace) /\ (Straight(w.fs, root) => Careful(w, e, root))
    BY <1>2, <2>1 DEF Grows, Careful
  <2> QED BY <2>1, <2>2 DEF e
<1>9. CASE e = Deleting(d, place, full) /\ Ok(d) /\ kind = "dir" /\ place # Missing /\ replace
  <2>1. place \in Answer /\ Open(d.fs, place) /\ place \in Path
    BY <1>5, <1>9 DEF Open, Answer
  <2> HIDE DEF place, full
  <2>2. e = [err |-> d.err, fs |-> RemoveAll(d.fs, place), res |-> Listed(d.res, full)] /\ Work(e)
    BY <1>1, <1>2, <1>9, <2>1, WorkDef
  <2>3. /\ e.fs = RemoveAll(d.fs, place) /\ e.res.deleted = d.res.deleted \cup {full}
        /\ e.res.skipped = d.res.skipped /\ e.err = d.err
    BY <1>1, <1>4, <2>2, ListedDef
  <2>4. Grows(d, e, replace)
    BY <1>9, <2>2, <2>3 DEF Grows
  <2>5. Grows(w, e, replace)
    BY <1>2, <2>4, CarefulSteps
  <2>6. ASSUME Straight(w.fs, root)
        PROVE  Careful(w, e, root) /\ Place(e.fs, full) = full /\ Kind(e.fs, full) \in {"none", "file"}
    <3>1. place = full
      BY <1>6, <1>9, <2>6
    <3>2. \A q \in Changed(d.fs, e.fs) : q \in DOMAIN d.fs /\ within(q, full) /\ q \in Path
      BY <1>4, <2>1, <2>3, <3>1, ChangedDef, Above
    <3>3. \A q \in DOMAIN d.fs : Kind(e.fs, q) # Kind(d.fs, q) => q \in Changed(d.fs, e.fs)
      BY DEF Changed, Kind
    <3>4. full \in e.res.deleted
      BY <2>3
    <3>5. \A q \in Path : within(q, full) => within(q, root)
      BY <1>1, WithinOrder
    <3>6. Careful(d, e, root)
      BY <3>2, <3>3, <3>4, <3>5 DEF Careful
    <3>7. Careful(w, e, root)
      BY <1>2, <2>3, <2>6, <3>6, CarefulSteps
    <3>9. full \in DOMAIN d.fs
      BY <1>9, <3>1 DEF Kind
    <3>10. full \notin DOMAIN e.fs /\ FileSystem(e.fs)
      <4>1. within(full, full)
        BY <1>1, WithinOrder
      <4> QED BY <1>1, <1>4, <2>1, <2>3, <3>1, <3>9, <4>1, RemoveFileSystem
    <3>11. Open(e.fs, full)
      <4>1. ASSUME NEW q \in Path, within(full, q), q # full PROVE q \in DOMAIN e.fs /\ e.fs[q] = Dir
        <5>1. q \in DOMAIN d.fs /\ d.fs[q] = Dir
          BY <2>1, <3>1, <4>1 DEF Open
        <5>2. ~within(q, full)
          BY <1>1, <4>1, WithinOrder
        <5> QED BY <1>4, <2>1, <2>3, <3>1, <5>1, <5>2, RemoveFileSystem
      <4> QED BY <1>1, <4>1 DEF Open
    <3> QED BY <1>1, <3>7, <3>10, <3>11, PlaceDef DEF Kind
  <2> QED BY <2>5, <2>6 DEF e, full
<1>10. CASE e = d /\ Ok(d) /\ kind # "dir" /\ kind # "link" /\ place # Missing
  <2>1. Straight(w.fs, root) => place = full
    BY <1>6, <1>10
  <2>2. kind \in {"none", "file"}
    BY <1>4, <1>10, NodeDef
  <2> QED BY <1>2, <1>10, <2>1, <2>2 DEF e
<1> QED
  BY <1>3, <1>7, <1>8, <1>9, <1>10 DEF e

(* copyFileAtomic puts a file where one is or nothing.                     *)
LEMMA CopyStep ==
    ASSUME NEW w, Work(w), NEW from \in Path, NEW to \in Path, NEW top \in Path, within(to, top), NEW replace \in BOOLEAN
    PROVE  LET e == copyFileAtomic(w, from, to) IN
           /\ Grows(w, e, replace)
           /\ e.res.deleted = w.res.deleted /\ e.res.deletions = w.res.deletions
           /\ (Ok(w) => Place(w.fs, to) = to /\ Kind(w.fs, to) \in {"none", "file"}) => Careful(w, e, top)
           /\ Ok(e) => /\ Ok(w) /\ Place(w.fs, to) # Missing
                       /\ e.fs = Put(w.fs, Place(w.fs, to), w.fs[Place(w.fs, from)])
<1> DEFINE e == copyFileAtomic(w, from, to)
           file == Place(w.fs, from)
           place == Place(w.fs, to)
           r == [w.res EXCEPT !.copied = @ + 1]
           g == Put(w.fs, place, w.fs[file])
<1>1. \/ e = Failed(w)
      \/ /\ Ok(w) /\ Kind(w.fs, file) = "file" /\ place # Missing /\ Kind(w.fs, place) # "dir"
         /\ e = [err |-> w.err, fs |-> g, res |-> r]
  BY DEF copyFileAtomic, With
<1>2. FileSystem(w.fs) /\ w.res \in Result /\ w.err \in {"none", "failed"}
  BY DEF Work
<1>3. place = Missing \/ Open(w.fs, place)
  BY <1>2, PlaceDef
<1>4. r \in Result /\ r.deleted = w.res.deleted /\ r.deletions = w.res.deletions /\ r.skipped = w.res.skipped
  BY <1>2 DEF Result
<1> HIDE DEF e, file, place, r
<1>5. CASE e = Failed(w)
  <2>1. Work(e) /\ ~Ok(e) /\ e.fs = w.fs /\ e.res = w.res
    BY <1>5, WorkDef DEF Ok
  <2>2. Grows(w, e, replace) /\ Careful(w, e, top)
    BY <2>1, CarefulSteps DEF Grows
  <2> QED BY <2>1, <2>2 DEF e
<1>6. CASE /\ Ok(w) /\ Kind(w.fs, file) = "file" /\ place # Missing /\ Kind(w.fs, place) # "dir"
           /\ e = [err |-> w.err, fs |-> g, res |-> r]
  <2>1. file \in DOMAIN w.fs /\ Node(w.fs[file]) /\ w.fs[file].kind = "file"
    BY <1>2, <1>6, NodeDef
  <2>2. FileSystem(g)
    BY <1>2, <1>3, <1>6, <2>1, PutFileSystem
  <2>3. Changed(w.fs, g) \subseteq {place}
    BY <1>2, ChangedDef
  <2>4. g[place] = w.fs[file] /\ place \in DOMAIN g
    BY DEF Put
  <2> HIDE DEF g
  <2>5. e.fs = g /\ e.res = r /\ e.err = w.err /\ e = [err |-> e.err, fs |-> e.fs, res |-> e.res]
    BY <1>6
  <2>6. Work(e)
    BY <1>2, <1>4, <2>2, <2>5 DEF Work
  <2>7. Grows(w, e, replace)
    BY <1>4, <2>5, <2>6 DEF Grows
  <2>8. ASSUME place = to, Kind(w.fs, to) \in {"none", "file"} PROVE Careful(w, e, top)
    <3>1. ASSUME NEW p \in DOMAIN w.fs PROVE Kind(e.fs, p) = Kind(w.fs, p)
      <4>1. CASE p = to
        <5>1. Kind(w.fs, p) = "file"
          BY <1>2, <2>8, <4>1, NodeDef
        <5>2. Kind(e.fs, p) = "file"
          BY <2>1, <2>4, <2>5, <2>8, <4>1 DEF Kind
        <5> QED BY <5>1, <5>2
      <4>2. CASE p # to
        BY <2>3, <2>5, <2>8, <4>2 DEF Changed, Kind
      <4> QED BY <4>1, <4>2
    <3> QED BY <2>3, <2>5, <2>8, <3>1 DEF Careful
  <2> QED BY <1>4, <1>6, <2>5, <2>7, <2>8 DEF e, g, file, place
<1> QED
  BY <1>1, <1>5, <1>6 DEF g

(* The work on a file.                                                     *)
FileWork(w, root, rel, replace, from) ==
    copyFileAtomic(prepareTreeFileDestination(w, root, rel, replace), from, root \o rel)

(* It goes on, too, carefully where its root is straight.                  *)
LEMMA FileStep ==
    ASSUME NEW w, Work(w), NEW root \in Path, NEW rel \in Path, rel # <<>>, NEW replace \in BOOLEAN, NEW from \in Path
    PROVE  LET e == FileWork(w, root, rel, replace, from) IN
           /\ Grows(w, e, replace)
           /\ Straight(w.fs, root) => Careful(w, e, root)
<1> DEFINE d == prepareTreeFileDestination(w, root, rel, replace)
           to == root \o rel
           e == copyFileAtomic(d, from, to)
<1>1. to \in Path /\ within(to, root)
  BY Joined
<1>2. Work(d) /\ Grows(w, d, replace)
  BY DestinationStep DEF Grows
<1>3. Straight(w.fs, root) => Careful(w, d, root) /\ (Ok(d) => Place(d.fs, to) = to /\ Kind(d.fs, to) \in {"none", "file"})
  BY DestinationStep
<1> HIDE DEF d, to
<1>4. Grows(d, e, replace) /\ e.res.deleted = d.res.deleted
  BY <1>1, <1>2, CopyStep
<1>5. (Ok(d) => Place(d.fs, to) = to /\ Kind(d.fs, to) \in {"none", "file"}) => Careful(d, e, root)
  BY <1>1, <1>2, CopyStep
<1> HIDE DEF e
<1>6. Grows(w, e, replace)
  BY <1>2, <1>4, CarefulSteps
<1>7. Straight(w.fs, root) => Careful(w, e, root)
  BY <1>3, <1>4, <1>5, CarefulSteps
<1> QED
  BY <1>6, <1>7 DEF FileWork, e, d, to

-----------------------------------------------------------------------------
(* The target is prepared.                                                 *)

(* What a path leads to exists.                                            *)
LEMMA EvalExists ==
    ASSUME NEW f, FileSystem(f), NEW p \in Path, EvalSymlinks(f, p) # Missing
    PROVE  EvalSymlinks(f, p) \in DOMAIN f /\ EvalSymlinks(f, p) \in Path /\ Kind(f, EvalSymlinks(f, p)) # "link"
<1>1. EvalSymlinks(f, p) \in Found(f)
  BY EvalStep
<1> QED
  BY <1>1, Above, NodeDef DEF Found

(* A directory is made only below the closest ancestor that exists, which  *)
(* authorizeParent has looked at.                                          *)
LEMMA MadeInRoot ==
    ASSUME NEW f, FileSystem(f), NEW t \in Path, Lstat(f, t) = "none", authorizeParent(f, t)
    PROVE  LET made == MkdirAll(f, t) IN
           FileSystem(made.fs) /\ \A y \in Changed(f, made.fs) : within(y, Root)
<1> DEFINE K == {q \in PathsTo(t) : EvalSymlinks(f, q) # Missing}
           C == {q \in PathsTo(Parent(t)) : Lstat(f, q) # "none"}
           known == Longest(K)
           closest == Longest(C)
           real == EvalSymlinks(f, known)
           full == real \o Rel(t, known)
<1>1. t # <<>>
  <2>1. Lstat(f, <<>>) = "dir"
    BY Above DEF Lstat, Place, Kind
  <2> QED BY <2>1
<1>2. Parent(t) \in Path /\ \A q \in Path : within(t, q) <=> q = t \/ within(Parent(t), q)
  <2> DEFINE up == Parent(t)
             n == t[Len(t)]
  <2>1. up \in Path /\ n \in Name /\ t = Append(up, n)
    BY <1>1, ParentDef
  <2> HIDE DEF up, n
  <2>2. \A q \in Path : within(Append(up, n), q) <=> q = Append(up, n) \/ within(up, q)
    BY <2>1, Child
  <2> QED BY <2>1, <2>2 DEF up
<1>3. <<>> \in Path /\ <<>> \in K /\ <<>> \in C
  <2>1. <<>> \in Path /\ within(t, <<>>) /\ within(Parent(t), <<>>)
    BY <1>2, WithinOrder, Above
  <2>2. <<>> \in PathsTo(t) /\ <<>> \in PathsTo(Parent(t))
    BY <1>2, <2>1, PathsToDef
  <2>3. EvalSymlinks(f, <<>>) # Missing
    BY <2>1, EvalStep, Above
  <2>4. Lstat(f, <<>>) # "none"
    BY Above DEF Lstat, Place, Kind
  <2> QED BY <2>1, <2>2, <2>3, <2>4
<1>4. known \in K /\ \A q \in K : within(known, q)
  <2> HIDE DEF known
  <2>1. K \subseteq PathsTo(t) /\ K # {}
    BY <1>3
  <2> HIDE DEF K
  <2> QED BY <2>1, LongestDef DEF known
<1>5. closest \in C /\ \A q \in C : within(closest, q)
  <2>1. C \subseteq PathsTo(Parent(t)) /\ C # {}
    BY <1>3
  <2> HIDE DEF C
  <2> QED BY <1>2, <2>1, LongestDef
<1>6. EvalSymlinks(f, closest) # Missing /\ within(EvalSymlinks(f, closest), Root)
  BY DEF authorizeParent
<1>7. MkdirAll(f, t) = IF InTheWay(f, full) = {} THEN Done(MakeDirs(f, full)) ELSE Failed(Done(f))
  BY DEF MkdirAll
<1> HIDE DEF known, closest
<1>8. known \in Path /\ closest \in Path /\ within(t, known) /\ within(Parent(t), closest)
  BY <1>2, <1>4, <1>5, PathsToDef
<1>9. known = closest
  <2>1. closest \in K
    BY <1>2, <1>6, <1>8, PathsToDef
  <2>2. Lstat(f, known) # "none"
    BY <1>4, <1>8, PlaceDef
  <2>3. known \in C
    BY <1>2, <1>8, <2>2, PathsToDef
  <2> QED BY <1>4, <1>5, <1>8, <2>1, <2>3, WithinOrder
<1>10. real \in DOMAIN f /\ real \in Path /\ within(real, Root)
  BY <1>6, <1>8, <1>9, EvalExists
<1>11. full \in Path /\ within(full, real)
  BY <1>8, <1>10, Joined
<1> HIDE DEF real, full
<1>12. CASE InTheWay(f, full) = {}
  <2>1. MkdirAll(f, t).fs = MakeDirs(f, full)
    BY <1>7, <1>12 DEF Done
  <2>2. ASSUME NEW y \in Changed(f, MakeDirs(f, full)) PROVE within(y, Root)
    <3>1. y \in PathsTo(full) /\ y \notin DOMAIN f
      BY <1>11, ChangedDef
    <3>2. y \in Path /\ within(full, y)
      BY <1>11, <3>1, PathsToDef
    <3>3. within(y, real) \/ within(real, y)
      BY <1>10, <1>11, <3>2, WithinOrder
    <3>4. within(y, real)
      BY <1>10, <3>1, <3>2, <3>3, Above
    <3> QED BY <1>10, <3>2, <3>4, WithinOrder, PathAssumption
  <2>3. FileSystem(MakeDirs(f, full))
    BY <1>11, <1>12, MakeFileSystem
  <2> QED BY <2>1, <2>2, <2>3
<1>13. CASE InTheWay(f, full) # {}
  <2>1. MkdirAll(f, t).fs = f
    BY <1>7, <1>13 DEF Done, Failed
  <2> QED BY <2>1, ChangedDef
<1> QED
  BY <1>12, <1>13

(* The target that prepareTreeTarget gives is a directory in the root, and *)
(* nothing outside the root is made.                                       *)
LEMMA TargetStep ==
    ASSUME NEW f, FileSystem(f), NEW t \in Path
    PROVE  LET prepared == prepareTreeTarget(f, t)
               path == prepared.path
           IN  /\ FileSystem(prepared.fs)
               /\ \A y \in Changed(f, prepared.fs) : within(y, Root)
               /\ path # Missing => path \in Path /\ within(path, Root) /\ Kind(prepared.fs, path) = "dir"
<1> DEFINE exists == Lstat(f, t) # "none"
           made == MkdirAll(f, t)
           allowed == IF exists THEN Lstat(f, t) = "dir" ELSE authorizeParent(f, t) /\ Ok(made)
           g == IF ~exists /\ allowed THEN made.fs ELSE f
           created == Resolve(g, t, TRUE)
           resolved == IF created = Missing THEN Missing ELSE Resolve(g, created, FALSE)
<1>1. prepareTreeTarget(f, t) = [fs |-> g, path |-> IF allowed /\ Kind(g, resolved) = "dir" THEN resolved ELSE Missing]
  BY DEF prepareTreeTarget
<1>2. FileSystem(g) /\ \A y \in Changed(f, g) : within(y, Root)
  <2>1. CASE ~exists /\ allowed
    BY <2>1, MadeInRoot
  <2>2. CASE ~(~exists /\ allowed)
    BY <2>2, ChangedDef
  <2> QED BY <2>1, <2>2
<1> HIDE DEF g
<1>3. created # Missing => created \in Path
  BY <1>2, ResolveDef
<1> HIDE DEF created
<1>4. resolved # Missing => resolved \in Path /\ within(resolved, Root)
  BY <1>2, <1>3, ResolveDef
<1> HIDE DEF resolved, allowed
<1>5. /\ prepareTreeTarget(f, t).fs = g
      /\ prepareTreeTarget(f, t).path # Missing =>
             prepareTreeTarget(f, t).path = resolved /\ Kind(g, resolved) = "dir" /\ resolved # Missing
  BY <1>1
<1> QED
  BY <1>2, <1>4, <1>5

(* What exists stays as it is.                                             *)
LEMMA TargetKeeps ==
    ASSUME NEW f, FileSystem(f), NEW t \in Path, NEW y \in Changed(f, prepareTreeTarget(f, t).fs)
    PROVE  y \notin DOMAIN f
<1>1. prepareTreeTarget(f, t).fs \in {f, MkdirAll(f, t).fs}
  BY DEF prepareTreeTarget
<1>2. \E full : MkdirAll(f, t).fs = f \/ MkdirAll(f, t).fs = MakeDirs(f, full)
  BY DEF MkdirAll, Done, Failed
<1>3. \A full : \A q \in Changed(f, MakeDirs(f, full)) : q \notin DOMAIN f
  BY DEF Changed, MakeDirs
<1> QED
  BY <1>1, <1>2, <1>3, ChangedDef

-----------------------------------------------------------------------------
(* The type invariant.                                                     *)

Placed(s, t) ==
    /\ s \in Path /\ t \in Path
    /\ within(s, Root) /\ within(t, Root)
    /\ ~within(s, t) /\ ~within(t, s)

Read(e, top) == e.path \in Path /\ within(e.path, top) /\ e = [path |-> e.path, kind |-> e.kind]

(* Source and target are apart, and a walk is over what lies in one of     *)
(* them.                                                                   *)
Typed ==
    /\ FileSystem(fs) /\ FileSystem(start)
    /\ pc \in {"idle", "walk", "extras", "done", "failed"}
    /\ delete \in BOOLEAN /\ strayed \in BOOLEAN
    /\ res \in Result
    /\ entries \subseteq Path
    /\ source # Missing \/ target # Missing => Placed(source, target)
    /\ pc \in {"walk", "extras", "done"} => Placed(source, target)
    /\ pc = "idle" => source = Missing /\ target = Missing /\ res = NoResult /\ entries = {<<>>} /\ touched = {}
    /\ pc = "walk" => \A e \in pending : Read(e, source)
    /\ pc = "extras" => delete /\ \A e \in pending : Read(e, target)

(* The work to begin with.                                                 *)
LEMMA SyncDef ==
    ASSUME Typed
    PROVE  Work(Sync) /\ Sync.fs = fs /\ Sync.res = res /\ Sync.err = "none" /\ Ok(Sync)
  BY DEF Typed, Sync, Work, Ok

(* A step of one of the walks.                                             *)
SyncStep(w, e, into) ==
    /\ Work(w)
    /\ Walked(w, e, into)
    /\ into \in BOOLEAN
    /\ e \in pending
    /\ pc \in {"walk", "extras"}
    /\ entries' \subseteq Path
    /\ res.deleted \subseteq w.res.deleted
    /\ ~delete => w.res.deleted = res.deleted
    /\ Settled => Careful(Sync, w, target)

(* Visit is such a step.                                                   *)
LEMMA VisitStep ==
    ASSUME Typed, NEW e \in pending, Visit(e)
    PROVE  \E w, into : SyncStep(w, e, into)
<1> DEFINE rel == Rel(e.path, source)
<1>1. pc = "walk" /\ Placed(source, target) /\ Read(e, source)
  BY DEF Typed, Visit
<1>2. e.path \in Path /\ rel \in Path /\ source \in Path /\ target \in Path
  BY <1>1, Joined DEF Read, Placed
<1>3. entries' \subseteq Path
  BY <1>2 DEF Typed, Visit
<1>4. Work(Sync) /\ Sync.fs = fs /\ Sync.res = res /\ Sync.err = "none" /\ delete \in BOOLEAN /\ res \in Result /\ FileSystem(fs)
  BY SyncDef DEF Typed
<1>5. Settled => Straight(fs, target)
  BY DEF Settled, Straight
<1>6. ASSUME NEW w, Grows(Sync, w, delete), Straight(fs, target) => Careful(Sync, w, target),
             NEW into \in BOOLEAN, Walked(w, e, into)
      PROVE  SyncStep(w, e, into)
  <2>1. Work(w) /\ res.deleted \subseteq w.res.deleted /\ (~delete => w.res.deleted = res.deleted)
    BY <1>4, <1>6 DEF Grows
  <2>2. Settled => Careful(Sync, w, target)
    BY <1>5, <1>6
  <2> QED BY <1>1, <1>3, <1>6, <2>1, <2>2 DEF SyncStep
<1>7. Grows(Sync, Sync, delete) /\ Careful(Sync, Sync, target)
  BY <1>2, <1>4, CarefulSteps
<1>8. Grows(Sync, Failed(Sync), delete) /\ Careful(Sync, Failed(Sync), target)
  <2>1. Work(Failed(Sync)) /\ Failed(Sync).fs = fs /\ Failed(Sync).res = res
    <3>1. Failed(Sync) = [err |-> "failed", fs |-> Sync.fs, res |-> Sync.res] /\ Work(Failed(Sync))
      BY <1>4, WorkDef
    <3> QED BY <1>4, <3>1
  <2>2. Grows(Sync, Failed(Sync), delete)
    BY <1>4, <2>1 DEF Grows
  <2> QED BY <1>2, <1>4, <2>1, <2>2, CarefulSteps
<1>9. CASE rel = <<>> /\ Walked(Sync, e, TRUE)
  BY <1>6, <1>7, <1>9
<1>10. CASE Walked(With(Sync, fs, [res EXCEPT !.skipped = @ \cup {e.path}]), e, FALSE)
  <2> DEFINE r == [res EXCEPT !.skipped = @ \cup {e.path}]
             w == [err |-> "none", fs |-> fs, res |-> r]
  <2>1. With(Sync, fs, r) = w
    BY <1>4 DEF With
  <2>2. r \in Result /\ r.deleted = res.deleted
    BY <1>2, <1>4 DEF Result
  <2> HIDE DEF r
  <2>3. Work(w) /\ w.fs = fs /\ w.res = r
    BY <1>4, <2>2 DEF Work
  <2>4. Careful(Sync, w, target)
    BY <1>2, <1>4, <2>3, CarefulSteps
  <2>5. Walked(w, e, FALSE)
    BY <1>10, <2>1 DEF r
  <2> HIDE DEF w
  <2>6. SyncStep(w, e, FALSE)
    BY <1>1, <1>3, <2>2, <2>3, <2>4, <2>5 DEF SyncStep
  <2> QED BY <2>6
<1>11. CASE Walked(Failed(Sync), e, TRUE) \/ Walked(Failed(Sync), e, FALSE)
  BY <1>6, <1>8, <1>11
<1>12. CASE Walked(ensureTreeDirectory(Sync, target, rel, delete), e, TRUE)
  <2> DEFINE w == ensureTreeDirectory(Sync, target, rel, delete)
  <2>1. Grows(Sync, w, delete) /\ (Straight(fs, target) => Careful(Sync, w, target))
    BY <1>2, <1>4, DirectoryStep
  <2> HIDE DEF w
  <2>2. SyncStep(w, e, TRUE)
    BY <1>6, <1>12, <2>1 DEF w
  <2> QED BY <2>2
<1>13. CASE rel # <<>> /\ Walked(FileWork(Sync, target, rel, delete, e.path), e, FALSE)
  <2> DEFINE w == FileWork(Sync, target, rel, delete, e.path)
  <2>1. Grows(Sync, w, delete) /\ (Straight(fs, target) => Careful(Sync, w, target))
    BY <1>2, <1>4, <1>13, FileStep
  <2> HIDE DEF w
  <2>2. SyncStep(w, e, FALSE)
    BY <1>6, <1>13, <2>1 DEF w
  <2> QED BY <2>2
<1> HIDE DEF rel
<1> QED
  BY <1>9, <1>10, <1>11, <1>12, <1>13 DEF Visit, FileWork, rel

(* CopyFails, too.                                                         *)
LEMMA CopyFailsStep ==
    ASSUME Typed, NEW e \in pending, CopyFails(e)
    PROVE  \E w, into : SyncStep(w, e, into)
<1> DEFINE rel == Rel(e.path, source)
           ready == prepareTreeFileDestination(Sync, target, rel, delete)
           copied == copyFileAtomic(ready, e.path, target \o rel)
           late == With(copied, copied.fs, ready.res)
<1>1. pc = "walk" /\ Placed(source, target) /\ Read(e, source) /\ rel # <<>>
  BY DEF Typed, CopyFails
<1>2. e.path \in Path /\ rel \in Path /\ source \in Path /\ target \in Path
  BY <1>1, Joined DEF Read, Placed
<1>3. entries' \subseteq Path
  BY <1>2 DEF Typed, CopyFails
<1>4. Work(Sync) /\ Sync.fs = fs /\ Sync.res = res /\ delete \in BOOLEAN
  BY SyncDef DEF Typed
<1>5. Settled => Straight(fs, target)
  BY DEF Settled, Straight
<1>6. Grows(Sync, ready, delete) /\ (Straight(fs, target) => Careful(Sync, ready, target))
  BY <1>1, <1>2, <1>4, DestinationStep
<1>7. Grows(Sync, copied, delete) /\ (Straight(fs, target) => Careful(Sync, copied, target))
  <2>1. copied = FileWork(Sync, target, rel, delete, e.path)
    BY DEF FileWork
  <2> HIDE DEF copied
  <2> QED BY <1>1, <1>2, <1>4, <2>1, FileStep
<1>8. copied.res.deleted = ready.res.deleted
  <2> HIDE DEF ready
  <2>1. target \o rel \in Path /\ within(target \o rel, target) /\ Work(ready)
    BY <1>2, <1>6, Joined DEF Grows
  <2> QED BY <1>2, <1>4, <2>1, CopyStep
<1>9. Walked(Failed(ready), e, FALSE) \/ Walked(Failed(late), e, FALSE)
  BY DEF CopyFails
<1> HIDE DEF ready, copied
<1>10. ASSUME NEW w, Grows(Sync, w, delete), Straight(fs, target) => Careful(Sync, w, target), Walked(Failed(w), e, FALSE)
       PROVE  SyncStep(Failed(w), e, FALSE)
  <2>1. Work(w) /\ Work(Failed(w)) /\ Failed(w) = [err |-> "failed", fs |-> w.fs, res |-> w.res]
    BY <1>10, WorkDef DEF Grows
  <2>2. Failed(w).fs = w.fs /\ Failed(w).res = w.res
    BY <2>1
  <2>3. res.deleted \subseteq w.res.deleted /\ (~delete => w.res.deleted = res.deleted)
    BY <1>4, <1>10 DEF Grows
  <2>4. Settled => Careful(Sync, Failed(w), target)
    BY <1>5, <1>10, <2>2 DEF Careful
  <2> QED BY <1>1, <1>3, <1>10, <2>1, <2>2, <2>3, <2>4 DEF SyncStep
<1>11. Grows(Sync, late, delete) /\ (Straight(fs, target) => Careful(Sync, late, target))
  <2>1. late.err = copied.err /\ late.fs = copied.fs /\ late.res = ready.res
        /\ late = [err |-> late.err, fs |-> late.fs, res |-> late.res]
    BY DEF With
  <2> HIDE DEF late
  <2>2. Work(copied) /\ Work(ready)
    BY <1>6, <1>7 DEF Grows
  <2>3. Work(late)
    BY <2>1, <2>2 DEF Work
  <2>4. Grows(Sync, late, delete)
    BY <1>6, <2>1, <2>3 DEF Grows
  <2> QED BY <1>7, <1>8, <2>1, <2>4 DEF Careful
<1> QED
  BY <1>6, <1>9, <1>10, <1>11

(* And deleteTreeExtras.                                                   *)
LEMMA ExtrasStep ==
    ASSUME Typed, NEW e \in pending, deleteTreeExtras(e)
    PROVE  \E w, into : SyncStep(w, e, into)
<1> DEFINE place == Place(fs, e.path)
           gone == Deleting(Sync, place, e.path)
<1>1. pc = "extras" /\ Placed(source, target) /\ Read(e, target) /\ delete
  BY DEF Typed, deleteTreeExtras
<1>2. e.path \in Path /\ target \in Path /\ within(e.path, target) /\ entries' \subseteq Path
  BY <1>1 DEF Read, Placed, Typed, deleteTreeExtras
<1>3. Work(Sync) /\ Sync.fs = fs /\ Sync.res = res /\ FileSystem(fs) /\ res \in Result
  BY SyncDef DEF Typed
<1>4. ASSUME NEW w, Work(w), w.fs = fs, w.res = res, NEW into \in BOOLEAN, Walked(w, e, into) PROVE SyncStep(w, e, into)
  <2>1. Careful(Sync, w, target)
    BY <1>2, <1>3, <1>4, CarefulSteps
  <2> QED BY <1>1, <1>2, <1>4, <2>1 DEF SyncStep
<1>5. Work(Failed(Sync)) /\ Failed(Sync).fs = fs /\ Failed(Sync).res = res
  <2>1. Failed(Sync) = [err |-> "failed", fs |-> Sync.fs, res |-> Sync.res] /\ Work(Failed(Sync))
    BY <1>3, WorkDef
  <2> QED BY <1>3, <2>1
<1>6. place = Missing \/ Open(fs, place)
  BY <1>2, <1>3, PlaceDef
<1>7. Settled => place \in {e.path, Missing}
  BY <1>2 DEF Settled
<1> HIDE DEF place
<1>8. place \in Answer
  BY <1>6 DEF Open, Answer
<1>9. gone = [err |-> "none", fs |-> RemoveAll(fs, place), res |-> Listed(res, e.path)] /\ Work(gone)
  BY <1>2, <1>3, <1>8, WorkDef, SyncDef
<1>10. gone.fs = RemoveAll(fs, place) /\ gone.res.deleted = res.deleted \cup {e.path}
  BY <1>2, <1>3, <1>9, ListedDef
<1>11. Settled => Careful(Sync, gone, target)
  <2>1. \A q \in Changed(fs, gone.fs) : q \in DOMAIN fs /\ within(q, place) /\ q \in Path
    BY <1>3, <1>8, <1>10, ChangedDef, Above
  <2>2. \A q \in DOMAIN fs : Kind(gone.fs, q) # Kind(fs, q) => q \in Changed(fs, gone.fs)
    BY DEF Changed, Kind
  <2>3. CASE place = Missing
    <3>1. gone.fs = fs
      BY <1>3, <1>8, <1>10, <2>3, RemoveFileSystem
    <3> QED BY <1>2, <1>3, <3>1, CarefulSteps
  <2>4. CASE place = e.path
    <3>1. \A q \in Path : within(q, e.path) => within(q, target)
      BY <1>2, WithinOrder
    <3>2. e.path \in gone.res.deleted
      BY <1>10
    <3> QED BY <1>3, <2>1, <2>2, <2>4, <3>1, <3>2 DEF Careful
  <2> QED BY <1>7, <2>3, <2>4
<1>12. CASE Walked(gone, e, FALSE)
  BY <1>1, <1>2, <1>9, <1>10, <1>11, <1>12 DEF SyncStep
<1>13. CASE Walked(Sync, e, TRUE) \/ Walked(Sync, e, FALSE) \/ Walked(Failed(Sync), e, FALSE)
  BY <1>3, <1>4, <1>5, <1>13
<1>14. Walked(Sync, e, e.kind = "dir") => Walked(Sync, e, TRUE) \/ Walked(Sync, e, FALSE)
  <2>1. CASE e.kind = "dir"
    BY <2>1 DEF Walked
  <2>2. CASE e.kind # "dir"
    BY <2>2 DEF Walked
  <2> QED BY <2>1, <2>2
<1> QED
  BY <1>12, <1>13, <1>14 DEF deleteTreeExtras, place

(* Every step of the walks is such a step.                                 *)
LEMMA EveryStep ==
    ASSUME Typed, Next
    PROVE  \/ \E s \in Sources, t \in Targets, d \in BOOLEAN : Begin(s, t, d)
           \/ \E e \in pending : \E w, into : SyncStep(w, e, into)
           \/ EndWalk \/ EndExtras
           \/ \E r \in Requests : Other(r)
  BY VisitStep, CopyFailsStep, ExtrasStep DEF Next

(* A directory is read entry by entry, below its own path.                 *)
LEMMA ReadDirDef ==
    ASSUME NEW f, NEW p \in Path, NEW top \in Path, within(p, top), NEW d \in ReadDir(f, p)
    PROVE  Read(d, top)
<1>1. PICK n \in Name : d = [path |-> Append(p, n), kind |-> f[Append(EvalSymlinks(f, p), n)].kind]
  BY DEF ReadDir
<1>2. d.path = Append(p, n) /\ d = [path |-> d.path, kind |-> d.kind]
  BY <1>1
<1>3. d.path \in Path /\ within(d.path, p)
  BY <1>2, Child
<1>4. within(d.path, top)
  BY <1>3, WithinOrder
<1> QED
  BY <1>2, <1>3, <1>4 DEF Read

(* Begin leaves source and target apart, in the root.                      *)
LEMMA BeginStep ==
    ASSUME Typed, NEW s \in Sources, NEW t \in Targets, NEW d \in BOOLEAN, Begin(s, t, d)
    PROVE  /\ Typed'
           /\ \A p \in Changed(fs, fs') : within(p, Root)
           /\ pc' = "walk" => /\ Kind(fs', source') = "dir" /\ Kind(fs', target') = "dir"
                              /\ pending' = {[path |-> source', kind |-> "dir"]}
<1> DEFINE from == Resolve(fs, s, FALSE)
           early == IF Place(fs, t) = Missing THEN t ELSE Place(fs, t)
           bad == from = Missing \/ Kind(fs, from) # "dir" \/ overlap(from, early)
           prepared == prepareTreeTarget(fs, t)
           ok == ~bad /\ prepared.path # Missing /\ ~overlap(from, prepared.path)
<1>1. /\ pc = "idle"
      /\ fs' = IF bad THEN fs ELSE prepared.fs
      /\ pc' = IF ok THEN "walk" ELSE "failed"
      /\ delete' = d
      /\ source' = IF ok THEN from ELSE Missing
      /\ target' = IF ok THEN prepared.path ELSE Missing
      /\ pending' = IF ok THEN {[path |-> from, kind |-> "dir"]} ELSE {}
      /\ start' = fs'
      /\ UNCHANGED <<entries, res, touched, strayed, others>>
  BY DEF Begin, Started
<1>2. s \in Path /\ t \in Path /\ FileSystem(fs)
  BY TreeAssumption DEF Typed
<1>3. /\ FileSystem(prepared.fs)
      /\ \A y \in Changed(fs, prepared.fs) : within(y, Root)
      /\ prepared.path # Missing => /\ prepared.path \in Path /\ within(prepared.path, Root)
                                    /\ Kind(prepared.fs, prepared.path) = "dir"
  BY <1>2, TargetStep
<1>4. from # Missing => from \in Path /\ within(from, Root)
  BY <1>2, ResolveDef
<1> HIDE DEF from, prepared, early
<1>5. FileSystem(fs') /\ \A p \in Changed(fs, fs') : within(p, Root)
  BY <1>1, <1>2, <1>3, ChangedDef
<1>6. ok => Placed(from, prepared.path)
  BY <1>3, <1>4 DEF Placed, overlap
<1>7. CASE ok
  <2>1. Kind(prepared.fs, from) = "dir"
    <3>1. from \in DOMAIN fs /\ Kind(fs, from) = "dir"
      BY <1>2, <1>7, NodeDef
    <3>2. from \notin Changed(fs, prepared.fs)
      BY <1>2, <3>1, TargetKeeps DEF prepared
    <3> QED BY <3>1, <3>2 DEF Changed, Kind
  <2>2. fs' = prepared.fs /\ source' = from /\ target' = prepared.path /\ pc' = "walk"
        /\ pending' = {[path |-> from, kind |-> "dir"]}
    BY <1>1, <1>7
  <2>3. Read([path |-> from, kind |-> "dir"], from)
    BY <1>4, <1>7, WithinOrder DEF Read
  <2>4. Typed'
    BY <1>1, <1>5, <1>6, <1>7, <2>2, <2>3 DEF Typed
  <2> QED BY <1>3, <1>5, <1>7, <2>1, <2>2, <2>4
<1>8. CASE ~ok
  <2>1. Typed'
    BY <1>1, <1>5, <1>8 DEF Typed
  <2> QED BY <1>1, <1>5, <1>8, <2>1
<1> QED
  BY <1>7, <1>8

(* A step of a walk keeps the types.                                       *)
LEMMA WalkedTyped ==
    ASSUME Typed, NEW e, NEW w, NEW into, SyncStep(w, e, into)
    PROVE  Typed'
<1> DEFINE ok == Ok(w) /\ (into => Kind(w.fs, EvalSymlinks(w.fs, e.path)) = "dir")
           inside == IF into THEN ReadDir(w.fs, e.path) ELSE {}
<1>1. /\ fs' = w.fs
      /\ res' = w.res
      /\ pending' = IF ok THEN (pending \ {e}) \cup inside ELSE {}
      /\ pc' = IF ok THEN pc ELSE "failed"
      /\ strayed' = (strayed \/ ~Settled)
      /\ UNCHANGED <<delete, source, target, start, touched, others>>
  BY DEF SyncStep, Walked
<1>2. e \in pending /\ pc \in {"walk", "extras"} /\ entries' \subseteq Path /\ FileSystem(w.fs) /\ w.res \in Result
  BY DEF SyncStep, Work
<1>3. Placed(source, target) /\ FileSystem(start) /\ delete \in BOOLEAN /\ strayed' \in BOOLEAN
  BY <1>1, <1>2 DEF Typed
<1>4. ASSUME NEW top \in Path, \A d \in pending : Read(d, top) PROVE \A d \in pending' : Read(d, top)
  <2>1. e.path \in Path /\ within(e.path, top)
    BY <1>2, <1>4 DEF Read
  <2>2. \A d \in inside : Read(d, top)
    BY <2>1, ReadDirDef
  <2> HIDE DEF inside, ok
  <2> QED BY <1>1, <1>4, <2>2
<1> HIDE DEF ok, inside
<1>5. pc' = "walk" => \A d \in pending' : Read(d, source')
  BY <1>1, <1>2, <1>3, <1>4 DEF Typed, Placed
<1>6. pc' = "extras" => delete' /\ \A d \in pending' : Read(d, target')
  BY <1>1, <1>2, <1>3, <1>4 DEF Typed, Placed
<1>7. pc' \in {"walk", "extras", "failed"}
  BY <1>1, <1>2
<1>8. Placed(source', target') /\ FileSystem(start') /\ delete' \in BOOLEAN /\ FileSystem(fs') /\ res' \in Result
  BY <1>1, <1>2, <1>3
<1> QED
  BY <1>2, <1>3, <1>5, <1>6, <1>7, <1>8 DEF Typed

(* Typed is an invariant of the file service.                              *)
THEOREM TreesAreTyped == Spec => []Typed
<1>1. Init => Typed
  <2> SUFFICES ASSUME Init PROVE Typed
    OBVIOUS
  <2>1. NoResult \in Result
    BY DEF NoResult, Result
  <2>2. <<>> \in Path
    BY DEF Path
  <2>3. FileSystem(fs) /\ FileSystem(start)
    BY TreeAssumption DEF Init
  <2> QED BY <2>1, <2>2, <2>3 DEF Init, Typed
<1>2. Typed /\ [Next]_vars => Typed'
  <2> SUFFICES ASSUME Typed, [Next]_vars PROVE Typed'
    OBVIOUS
  <2>1. ASSUME NEW s \in Sources, NEW t \in Targets, NEW d \in BOOLEAN, Begin(s, t, d) PROVE Typed'
    BY <2>1, BeginStep
  <2>2. ASSUME NEW e \in pending, NEW w, NEW into, SyncStep(w, e, into) PROVE Typed'
    BY <2>2, WalkedTyped
  <2>3. CASE EndWalk
    <3>1. UNCHANGED <<fs, delete, source, target, entries, res, start, touched, strayed, others>> /\ pc = "walk"
      BY <2>3 DEF EndWalk
    <3>2. \/ pending' = {} /\ pc' \in {"done", "failed"}
          \/ delete /\ pc' = "extras" /\ pending' = {[path |-> target, kind |-> Lstat(fs, target)]}
      BY <2>3 DEF EndWalk, Finish
    <3>3. Placed(source, target) /\ \A k : Read([path |-> target, kind |-> k], target)
      BY <3>1, WithinOrder DEF Typed, Placed, Read
    <3> QED BY <3>1, <3>2, <3>3 DEF Typed
  <2>4. CASE EndExtras
    <3>1. UNCHANGED <<fs, delete, source, target, pending, entries, res, start, touched, strayed, others>>
          /\ pc = "extras" /\ pc' \in {"done", "failed"}
      BY <2>4 DEF EndExtras, Finish
    <3> QED BY <3>1 DEF Typed
  <2>5. ASSUME NEW r \in Requests, Other(r) PROVE Typed'
    <3>1. r \in Request /\ FileSystem(fs)
      BY TreeAssumption DEF Typed
    <3>2. FileSystem(fs')
      BY <2>5, <3>1, ManageStep DEF Other
    <3> QED BY <2>5, <3>2 DEF Other, Typed, syncVars
  <2>6. CASE UNCHANGED vars
    BY <2>6 DEF vars, syncVars, Typed
  <2> QED BY <2>1, <2>2, <2>3, <2>4, <2>5, <2>6, EveryStep
<1> QED
  BY <1>1, <1>2, PTL DEF Spec

(* StaysInRoot: no step of the synchronisation changes anything outside    *)
(* the allowed root, where the names it goes by lead where they say, and   *)
(* no step of the preparation and of another client does at all (Resolve,  *)
(* authorizeParent, ensureTreeParent).                                     *)
THEOREM StaysInRootHolds == Spec => StaysInRoot
<1>1. Typed /\ [Next]_vars => [pc = "idle" \/ others' # others \/ Settled => \A p \in Changed(fs, fs') : within(p, Root)]_vars
  <2> SUFFICES ASSUME Typed, Next, pc = "idle" \/ others' # others \/ Settled, NEW p \in Changed(fs, fs')
               PROVE  within(p, Root)
    OBVIOUS
  <2>1. ASSUME NEW s \in Sources, NEW t \in Targets, NEW d \in BOOLEAN, Begin(s, t, d) PROVE within(p, Root)
    BY <2>1, BeginStep
  <2>2. ASSUME NEW e \in pending, NEW w, NEW into, SyncStep(w, e, into) PROVE within(p, Root)
    <3>1. pc # "idle" /\ others' = others /\ fs' = w.fs
      BY <2>2 DEF SyncStep, Walked
    <3>2. Settled
      BY <3>1
    <3>3. within(p, target)
      BY <2>2, <3>1, <3>2, SyncDef DEF SyncStep, Careful
    <3>4. Placed(source, target) /\ FileSystem(fs) /\ FileSystem(fs')
      BY <2>2, <3>1 DEF SyncStep, Typed, Work
    <3>5. p \in Path
      BY <3>4, Above DEF Changed
    <3> QED BY <3>3, <3>4, <3>5, WithinOrder, PathAssumption DEF Placed
  <2>3. ASSUME EndWalk \/ EndExtras PROVE FALSE
    <3>1. fs' = fs /\ FileSystem(fs)
      BY <2>3 DEF EndWalk, EndExtras, Typed
    <3> QED BY <3>1, ChangedDef
  <2>4. ASSUME NEW r \in Requests, Other(r) PROVE within(p, Root)
    <3>1. r \in Request /\ FileSystem(fs) /\ fs' = Manage(fs, r).fs
      BY <2>4, TreeAssumption DEF Other, Typed
    <3> QED BY <3>1, ManageStep
  <2> QED BY <2>1, <2>2, <2>3, <2>4, EveryStep
<1> QED
  BY <1>1, TreesAreTyped, PTL DEF Spec, StaysInRoot

-----------------------------------------------------------------------------
(* The work on an entry whose directory is in place already.               *)

(* Nothing is deleted, or one path.                                        *)
DeletesOnly(w, e, full) ==
    \/ e.res.deleted = w.res.deleted /\ e.res.deletions = w.res.deletions
    \/ e.res.deleted = w.res.deleted \cup {full} /\ e.res.deletions = w.res.deletions + 1

(* One path and what lies in it have changed.                              *)
PutsAt(f, g, full, node) == full \in DOMAIN g /\ g[full] = node /\ \A y \in Changed(f, g) : within(y, full)

(* File systems without a difference are the same.                         *)
LEMMA NoChange ==
    ASSUME NEW f, FileSystem(f), NEW g, FileSystem(g), Changed(f, g) = {}
    PROVE  f = g
<1>1. f = [p \in DOMAIN f |-> f[p]] /\ g = [p \in DOMAIN g |-> g[p]]
  BY NodeDef
<1>2. \A p : p \in DOMAIN f <=> p \in DOMAIN g
  BY DEF Changed
<1>3. \A p \in DOMAIN f : f[p] = g[p]
  BY <1>2 DEF Changed
<1>4. DOMAIN f = DOMAIN g
  BY <1>2
<1> QED
  BY <1>1, <1>3, <1>4

(* All that is above a directory, and the directory, are directories.      *)
LEMMA DirsAbove ==
    ASSUME NEW f, FileSystem(f), NEW p, Kind(f, p) = "dir"
    PROVE  p \in Path /\ EvalSymlinks(f, p) = p /\ \A q \in Path : within(p, q) => q \in DOMAIN f /\ f[q] = Dir
<1>1. p \in DOMAIN f /\ f[p] = Dir /\ p \in Path
  BY NodeDef, Above
<1>2. EvalSymlinks(f, p) = p
  BY <1>1, RealPath DEF Dir
<1> QED
  BY <1>1, <1>2, Above

(* There is nothing to do for the parents of an entry in place.            *)
LEMMA ParentKeeps ==
    ASSUME NEW w, Work(w), NEW root \in Path, NEW rel \in Path, NEW replace \in BOOLEAN,
           Kind(w.fs, root) = "dir", Kind(w.fs, root \o rel) = "dir"
    PROVE  LET d == ensureTreeParent(w, root, rel, replace) IN Work(d) /\ d.fs = w.fs /\ d.res = w.res
<1> DEFINE d == ensureTreeParent(w, root, rel, replace)
           full == root \o rel
<1>1. Work(d) /\ FileSystem(w.fs) /\ FileSystem(d.fs)
  BY ParentCases DEF Work
<1>2. EvalSymlinks(w.fs, root) = root /\ \A q \in Path : within(full, q) => q \in DOMAIN w.fs /\ w.fs[q] = Dir
  BY <1>1, DirsAbove
<1>3. full \in Path
  BY Joined
<1>4. CASE Parents(w, d, root, rel, replace)
  <2>1. /\ Lays(w.fs, d.fs, root, full)
        /\ \/ d.res = w.res
           \/ \E x \in InTheWay(w.fs, full) : TRUE
    BY <1>2, <1>4 DEF Parents
  <2>2. Changed(w.fs, d.fs) = {}
    <3>1. ASSUME NEW y \in Changed(w.fs, d.fs) PROVE FALSE
      <4>1. y \in PathsTo(full) /\ y \in DOMAIN d.fs /\ d.fs[y] = Dir
        BY <2>1 DEF Lays
      <4>2. y \in Path /\ within(full, y)
        BY <1>3, <4>1, PathsToDef
      <4> QED BY <1>2, <4>1, <4>2 DEF Changed
    <3> QED BY <3>1
  <2>3. \A x \in InTheWay(w.fs, full) : FALSE
    BY <1>1, <1>2, <1>3, OneInTheWay
  <2> QED BY <1>1, <2>1, <2>2, <2>3, NoChange
<1> QED
  BY <1>1, <1>4, ParentCases

(* A directory in its place.                                               *)
LEMMA DirectoryExact ==
    ASSUME NEW w, Work(w), NEW root \in Path, NEW rel \in Path, rel # <<>>, NEW replace \in BOOLEAN,
           Kind(w.fs, root) = "dir", Kind(w.fs, root \o Parent(rel)) = "dir"
    PROVE  LET e == ensureTreeDirectory(w, root, rel, replace) IN
           /\ DeletesOnly(w, e, root \o rel)
           /\ Ok(e) => PutsAt(w.fs, e.fs, root \o rel, Dir) /\ \A y \in Changed(w.fs, e.fs) : y = root \o rel
<1> DEFINE e == ensureTreeDirectory(w, root, rel, replace)
           d == ensureTreeParent(w, root, rel, replace)
           full == root \o rel
           up == root \o Parent(rel)
<1>1. e.err = d.err /\ e.fs = d.fs /\ e.res.deleted = d.res.deleted /\ e.res.deletions = d.res.deletions
  BY DirectoryStep
<1>2. Work(d) /\ FileSystem(w.fs) /\ w.res \in Result /\ full \in Path
  BY ParentCases, Joined DEF Work
<1>3. /\ \/ d.fs = w.fs /\ d.res = w.res /\ ~Ok(d)
         \/ Parents(w, d, root, rel, replace)
  BY ParentCases
<1> HIDE DEF d, e
<1>4. EvalSymlinks(w.fs, root) = root /\ \A q \in Path : within(up, q) => q \in DOMAIN w.fs /\ w.fs[q] = Dir
  BY <1>2, DirsAbove
<1>5. ASSUME NEW q \in Path, within(full, q), q # full PROVE q \in DOMAIN w.fs /\ w.fs[q] = Dir
  <2> DEFINE n == rel[Len(rel)]
  <2>1. n \in Name /\ up \in Path /\ full = Append(up, n)
    BY ParentBelow
  <2> HIDE DEF n, full, up
  <2>4. within(up, q)
    BY <1>5, <2>1, Child
  <2> QED BY <1>4, <2>4
<1>6. CASE d.fs = w.fs /\ d.res = w.res /\ ~Ok(d)
  <2>1. DeletesOnly(w, e, full) /\ ~Ok(e)
    BY <1>1, <1>6 DEF DeletesOnly, Ok
  <2> QED BY <2>1 DEF e
<1>7. CASE Parents(w, d, root, rel, replace)
  <2>1. /\ Lays(w.fs, d.fs, root, full)
        /\ \/ d.res = w.res
           \/ \E x \in InTheWay(w.fs, full) : within(x, root) /\ d.res = Listed(w.res, root \o Rel(x, root))
    BY <1>4, <1>7 DEF Parents
  <2>2. ASSUME NEW x \in InTheWay(w.fs, full), within(x, root), d.res = Listed(w.res, root \o Rel(x, root))
        PROVE  d.res = Listed(w.res, full)
    <3>1. x \in Path /\ within(full, x) /\ w.fs[x] # Dir
      BY <1>2, <2>2, OneInTheWay
    <3>2. x = full
      BY <1>5, <3>1
    <3>3. root \o Rel(x, root) = x
      BY <2>2, <3>1, Joined
    <3> QED BY <2>2, <3>2, <3>3
  <2>3. d.res = w.res \/ d.res = Listed(w.res, full)
    BY <2>1, <2>2
  <2> HIDE DEF full
  <2>4. DeletesOnly(w, e, full)
    BY <1>1, <1>2, <2>3, ListedDef DEF DeletesOnly
  <2>5. ASSUME NEW y \in Changed(w.fs, e.fs) PROVE y = full
    <3>1. y \in PathsTo(full) /\ y \in DOMAIN e.fs /\ e.fs[y] = Dir
      BY <1>1, <2>1 DEF Lays
    <3>2. y \in Path /\ within(full, y)
      BY <1>2, <3>1, PathsToDef
    <3> QED BY <1>5, <3>1, <3>2 DEF Changed
  <2>6. PutsAt(w.fs, e.fs, full, Dir)
    BY <1>1, <1>2, <2>1, <2>5, WithinOrder DEF Lays, PutsAt
  <2> QED BY <2>4, <2>5, <2>6 DEF e, full
<1> QED
  BY <1>3, <1>6, <1>7

(* The place of a file.                                                    *)
LEMMA DestinationExact ==
    ASSUME NEW w, Work(w), NEW root \in Path, NEW rel \in Path, rel # <<>>, NEW replace \in BOOLEAN,
           Kind(w.fs, root) = "dir", Kind(w.fs, root \o Parent(rel)) = "dir"
    PROVE  LET e == prepareTreeFileDestination(w, root, rel, replace) IN
           /\ DeletesOnly(w, e, root \o rel)
           /\ \A y \in Changed(w.fs, e.fs) : within(y, root \o rel)
<1> DEFINE e == prepareTreeFileDestination(w, root, rel, replace)
           d == ensureTreeParent(w, root, Parent(rel), replace)
           full == root \o rel
           place == Place(d.fs, full)
<1>1. \/ e = d
      \/ e = Failed(d)
      \/ e = Deleting(d, place, full)
  BY DEF prepareTreeFileDestination
<1>2. FileSystem(w.fs) /\ w.res \in Result /\ full \in Path /\ Parent(rel) \in Path
  BY ParentBelow, Joined DEF Work
<1>3. Work(d) /\ d.fs = w.fs /\ d.res = w.res
  BY <1>2, ParentKeeps
<1> HIDE DEF d, e
<1>4. place = full
  <2>1. Open(w.fs, Append(root \o Parent(rel), rel[Len(rel)]))
    BY <1>2, ParentBelow, OpenDef
  <2>2. Open(w.fs, full)
    BY <2>1, ParentBelow
  <2> HIDE DEF full
  <2> QED BY <1>2, <1>3, <2>2, PlaceDef
<1> HIDE DEF place, full
<1>5. CASE e = d \/ e = Failed(d)
  <2>1. e.fs = w.fs /\ e.res = w.res
    <3>1. Failed(d) = [err |-> "failed", fs |-> d.fs, res |-> d.res]
      BY <1>3, WorkDef
    <3> QED BY <1>3, <1>5, <3>1
  <2>2. DeletesOnly(w, e, full) /\ Changed(w.fs, e.fs) = {}
    BY <1>2, <2>1, ChangedDef DEF DeletesOnly
  <2> QED BY <2>2 DEF e, full
<1>6. CASE e = Deleting(d, place, full)
  <2>1. e = [err |-> d.err, fs |-> RemoveAll(w.fs, full), res |-> Listed(w.res, full)]
    BY <1>3, <1>4, <1>6, WorkDef
  <2>2. e.fs = RemoveAll(w.fs, full) /\ e.res = Listed(w.res, full)
    BY <2>1
  <2>3. DeletesOnly(w, e, full)
    BY <1>2, <2>2, ListedDef DEF DeletesOnly
  <2>4. \A y \in Changed(w.fs, e.fs) : within(y, full)
    BY <1>2, <2>2, ChangedDef DEF Answer
  <2> QED BY <2>3, <2>4 DEF e, full
<1> QED
  BY <1>1, <1>5, <1>6

(* A file in its place.                                                    *)
LEMMA FileExact ==
    ASSUME NEW w, Work(w), NEW root \in Path, NEW rel \in Path, rel # <<>>, NEW replace \in BOOLEAN,
           Kind(w.fs, root) = "dir", Kind(w.fs, root \o Parent(rel)) = "dir",
           NEW from \in DOMAIN w.fs, ~within(from, root \o rel)
    PROVE  LET e == FileWork(w, root, rel, replace, from) IN
           /\ DeletesOnly(w, e, root \o rel)
           /\ Ok(e) => PutsAt(w.fs, e.fs, root \o rel, w.fs[from])
<1> DEFINE d == prepareTreeFileDestination(w, root, rel, replace)
           full == root \o rel
           e == copyFileAtomic(d, from, full)
<1>1. FileSystem(w.fs) /\ from \in Path /\ full \in Path /\ within(full, root)
  BY Joined, Above DEF Work
<1>2. DeletesOnly(w, d, full) /\ \A y \in Changed(w.fs, d.fs) : within(y, full)
  BY DestinationExact
<1>3. Work(d) /\ FileSystem(d.fs)
  BY DestinationStep DEF Grows, Work
<1>4. Ok(d) => Place(d.fs, full) = full
  <2>1. Straight(w.fs, root)
    BY <1>1, DirsAbove DEF Straight
  <2> QED BY <2>1, DestinationStep
<1> HIDE DEF d, full
<1>5. /\ e.res.deleted = d.res.deleted /\ e.res.deletions = d.res.deletions
      /\ Ok(e) => /\ Ok(d)
                  /\ e.fs = Put(d.fs, Place(d.fs, full), d.fs[Place(d.fs, from)])
  BY <1>1, <1>3, CopyStep
<1> HIDE DEF e
<1>6. DeletesOnly(w, e, full)
  BY <1>2, <1>5 DEF DeletesOnly
<1>7. from \in DOMAIN d.fs /\ d.fs[from] = w.fs[from] /\ Place(d.fs, from) = from
  <2>1. from \notin Changed(w.fs, d.fs)
    BY <1>2 DEF full
  <2>2. from \in DOMAIN d.fs /\ d.fs[from] = w.fs[from]
    BY <2>1 DEF Changed
  <2>3. Open(d.fs, from)
    BY <1>3, <2>2, OpenDef
  <2> QED BY <1>1, <1>3, <2>2, <2>3, PlaceDef
<1>8. ASSUME Ok(e) PROVE PutsAt(w.fs, e.fs, full, w.fs[from])
  <2>1. e.fs = Put(d.fs, full, w.fs[from])
    BY <1>4, <1>5, <1>7, <1>8
  <2>2. full \in DOMAIN e.fs /\ e.fs[full] = w.fs[from] /\ Changed(d.fs, e.fs) \subseteq {full}
    <3>1. full \in DOMAIN e.fs /\ e.fs[full] = w.fs[from]
      BY <2>1 DEF Put
    <3> QED BY <1>3, <2>1, <3>1, ChangedDef
  <2>3. ASSUME NEW y \in Changed(w.fs, e.fs) PROVE within(y, full)
    <3>1. y \in Changed(w.fs, d.fs) \/ y \in Changed(d.fs, e.fs)
      BY DEF Changed
    <3> QED BY <1>1, <1>2, <2>2, <3>1, WithinOrder
  <2> QED BY <2>2, <2>3 DEF PutsAt
<1> QED
  BY <1>6, <1>8 DEF FileWork, e, d, full

-----------------------------------------------------------------------------
(* A walk that nobody disturbs.                                            *)

(* Nothing in the source has changed, and every entry so far is copied or  *)
(* skipped.                                                                *)
Based == <<>> \in entries /\ Kind(start, source) = "dir"
Kept == \A p \in Changed(start, fs) : ~within(p, source)
CopiedSoFar ==
    \A rel \in entries : LET p == source \o rel
                             q == target \o rel
                         IN  /\ p \in DOMAIN start
                             /\ start[p].kind # "link" => q \in DOMAIN fs /\ fs[q] = start[p]
SkippedSoFar == res.skipped = {p \in Inside(start, source) : start[p].kind = "link" /\ Rel(p, source) \in entries}

(* A path is reported as deleted once: it is an entry by now, or gone for  *)
(* good.                                                                   *)
Counted == IsFiniteSet(res.deleted) /\ res.deletions = Cardinality(res.deleted)
DeletedBefore ==
    \A d \in res.deleted : within(d, target) /\ (Rel(d, target) \in entries \/ (pc # "walk" /\ d \notin DOMAIN fs))

(* What is still to come was read as it is, does not overlap, and comes    *)
(* after the directories above it and before all that lies in it.          *)
Apart(todo) == \A d, e \in todo : within(d.path, e.path) => d = e
Truthful(f, todo) == \A e \in todo : e.path \in DOMAIN f /\ e.kind = f[e.path].kind
Ahead ==
    \A e \in pending :
        /\ \A q \in PathsTo(e.path) : within(q, source) /\ q # e.path => Rel(q, source) \in entries
        /\ \A rel \in entries : rel # <<>> => ~within(source \o rel, e.path)

(* Everything in a tree is an entry of the source, or still to come.       *)
Covered(f, top) == \A p \in Inside(f, top) : Rel(p, top) \in entries \/ \E e \in pending : within(p, e.path)

Complete == \A p \in Inside(start, source) : Rel(p, source) \in entries

(* The inductive invariant of such a walk.                                 *)
Undisturbed ==
    touched = {} =>
        /\ Counted
        /\ pc \in {"walk", "extras", "done"} => Based /\ Kept /\ CopiedSoFar /\ SkippedSoFar /\ DeletedBefore
        /\ pc \in {"walk", "extras"} => Apart(pending)
        /\ pc = "walk" => Truthful(start, pending) /\ Ahead
        /\ pc = "extras" => Truthful(fs, pending)
        /\ pc \in {"extras", "done"} => Complete
        /\ pc = "walk" => Covered(start, source)
        /\ pc = "extras" \/ (pc = "done" /\ delete) => Covered(fs, target)
        /\ pc = "done" => pending = {}

(* What lies in a directory.                                               *)
Children(f, p) ==
    {[path |-> Append(p, n), kind |-> f[Append(p, n)].kind] : n \in {m \in Name : Append(p, m) \in DOMAIN f}}

(* A walk goes into a directory: the entries in it take its place.         *)
After(f, todo, e) == (todo \ {e}) \cup (IF e.kind = "dir" THEN Children(f, e.path) ELSE {})

(* The entries that are still to come stay apart and as they were read,    *)
(* and all that lies in the directory is among them.                       *)
LEMMA GoesInto ==
    ASSUME NEW f, FileSystem(f), NEW todo, \A d \in todo : d.path \in Path, NEW e \in todo, Apart(todo), Truthful(f, todo)
    PROVE  /\ Apart(After(f, todo, e)) /\ Truthful(f, After(f, todo, e))
           /\ \A d \in After(f, todo, e) :
                  \/ d \in todo /\ d # e
                  \/ /\ d.path \in Path /\ within(d.path, e.path) /\ d.path # e.path
                     /\ \A q \in Path : within(d.path, q) => q = d.path \/ within(e.path, q)
           /\ \A p \in DOMAIN f : within(p, e.path) /\ p # e.path => \E d \in After(f, todo, e) : within(p, d.path)
<1> DEFINE new == After(f, todo, e)
           p == e.path
<1>1. p \in DOMAIN f /\ e.kind = f[p].kind /\ p \in Path
  BY DEF Truthful
<1>2. ASSUME NEW d \in Children(f, p)
      PROVE  /\ d.path \in DOMAIN f /\ d.kind = f[d.path].kind
             /\ d.path \in Path /\ within(d.path, p) /\ d.path # p /\ ~within(p, d.path)
             /\ \A q \in Path : within(d.path, q) => q = d.path \/ within(p, q)
             /\ d = [path |-> d.path, kind |-> f[d.path].kind]
  <2>1. PICK n \in Name : Append(p, n) \in DOMAIN f /\ d = [path |-> Append(p, n), kind |-> f[Append(p, n)].kind]
    BY <1>2 DEF Children
  <2>2. d.path = Append(p, n) /\ d.kind = f[Append(p, n)].kind
    BY <2>1
  <2>3. /\ Append(p, n) \in Path /\ within(Append(p, n), p) /\ ~within(p, Append(p, n)) /\ Append(p, n) # p
        /\ \A q \in Path : within(Append(p, n), q) => q = Append(p, n) \/ within(p, q)
    BY <1>1, Child
  <2> QED BY <2>1, <2>2, <2>3
<1>3. \A d \in new : (d \in todo /\ d # e) \/ d \in Children(f, p)
  BY DEF After
<1>4. Truthful(f, new)
  BY <1>2, <1>3 DEF Truthful
<1>5. ASSUME NEW c \in new, NEW d \in new, within(c.path, d.path) PROVE c = d
  <2>1. CASE c \in todo /\ c # e /\ d \in todo /\ d # e
    BY <1>5, <2>1 DEF Apart
  <2>2. CASE c \in Children(f, p) /\ d \in Children(f, p)
    <3>1. c.path = d.path
      BY <1>2, <1>5, <2>2
    <3>2. c = [path |-> c.path, kind |-> f[c.path].kind]
      BY <1>2, <2>2
    <3>3. d = [path |-> d.path, kind |-> f[d.path].kind]
      BY <1>2, <2>2
    <3> QED BY <3>1, <3>2, <3>3
  <2>3. CASE c \in Children(f, p) /\ d \in todo /\ d # e
    <3>1. d.path = c.path \/ within(p, d.path)
      BY <1>2, <1>5, <2>3
    <3>2. within(d.path, e.path) \/ within(e.path, d.path)
      BY <1>2, <2>3, <3>1
    <3> QED BY <2>3, <3>2 DEF Apart
  <2>4. CASE c \in todo /\ c # e /\ d \in Children(f, p)
    <3>1. c.path \in Path /\ d.path \in Path /\ within(d.path, p)
      BY <1>2, <2>4
    <3>2. within(c.path, e.path)
      BY <1>1, <1>5, <3>1, WithinOrder
    <3> QED BY <2>4, <3>2 DEF Apart
  <2> QED BY <1>3, <2>1, <2>2, <2>3, <2>4
<1>6. ASSUME NEW q \in DOMAIN f, within(q, p), q # p PROVE \E d \in new : within(q, d.path)
  <2>1. q \in Path
    BY Above
  <2>2. PICK n \in Name : within(q, Append(p, n))
    BY <1>1, <1>6, <2>1, InChild
  <2>3. Append(p, n) \in Path /\ Append(p, n) \in DOMAIN f
    <3>1. Append(p, n) \in Path
      BY <1>1, Child
    <3> QED BY <1>6, <2>2, <3>1, Above
  <2>4. e.kind = "dir"
    <3>1. f[p] = Dir
      BY <1>1, <1>6, Above
    <3> QED BY <1>1, <3>1 DEF Dir
  <2> DEFINE d == [path |-> Append(p, n), kind |-> f[Append(p, n)].kind]
  <2>5. d \in Children(f, p)
    BY <2>3 DEF Children
  <2>6. d \in new /\ d.path = Append(p, n)
    BY <2>4, <2>5 DEF After
  <2> QED BY <2>2, <2>6
<1>7. Apart(new)
  BY <1>5 DEF Apart
<1> QED
  BY <1>2, <1>3, <1>4, <1>6, <1>7

(* A directory that is in its place is read as it is.                      *)
LEMMA ReadsChildren ==
    ASSUME NEW f, FileSystem(f), NEW p, Kind(f, p) = "dir"
    PROVE  ReadDir(f, p) = Children(f, p) /\ Kind(f, EvalSymlinks(f, p)) = "dir"
  BY DirsAbove DEF ReadDir, Children

(* The entry that the walk comes to: its directory is in place, and it was *)
(* not there before.                                                       *)
LEMMA NextEntry ==
    ASSUME Typed, Undisturbed, touched = {}, pc = "walk", NEW e \in pending, Rel(e.path, source) # <<>>
    PROVE  LET rel == Rel(e.path, source)
               full == target \o rel
           IN  /\ rel \in Path /\ full \in Path /\ within(full, target) /\ Rel(full, target) = rel
               /\ e.path = source \o rel /\ rel \notin entries
               /\ Kind(fs, target) = "dir" /\ Kind(fs, target \o Parent(rel)) = "dir"
               /\ ~within(e.path, full) /\ full \notin res.deleted
               /\ \A known \in entries : ~within(target \o known, full)
<1> DEFINE rel == Rel(e.path, source)
           full == target \o rel
<1>1. Placed(source, target) /\ Read(e, source) /\ FileSystem(fs) /\ FileSystem(start) /\ entries \subseteq Path
  BY DEF Typed
<1>2. source \in Path /\ target \in Path /\ e.path \in Path /\ rel \in Path /\ e.path = source \o rel
  BY <1>1, Joined DEF Placed, Read
<1>3. full \in Path /\ within(full, target) /\ Rel(full, target) = rel
  BY <1>2, Joined
<1>4. Based /\ Kept /\ CopiedSoFar /\ DeletedBefore /\ Truthful(start, pending) /\ Ahead
  BY DEF Undisturbed
<1>5. within(e.path, e.path) /\ rel # <<>>
  BY <1>2, WithinOrder
<1> HIDE DEF rel, full
<1>6. rel \notin entries
  BY <1>2, <1>4, <1>5 DEF Ahead
<1>7. ASSUME NEW known \in entries, Kind(start, source \o known) = "dir" PROVE Kind(fs, target \o known) = "dir"
  <2>1. source \o known \in DOMAIN start /\ start[source \o known] = Dir
    BY <1>1, <1>7, NodeDef
  <2>2. target \o known \in DOMAIN fs /\ fs[target \o known] = Dir
    BY <1>4, <2>1 DEF CopiedSoFar, Dir
  <2> QED BY <1>1, <2>2, NodeDef
<1>8. Kind(fs, target) = "dir"
  <2>1. source \o <<>> = source /\ target \o <<>> = target
    BY <1>2, Joined
  <2> QED BY <1>4, <1>7, <2>1 DEF Based
<1>9. Kind(fs, target \o Parent(rel)) = "dir"
  <2> DEFINE up == source \o Parent(rel)
  <2>1. Parent(rel) \in Path /\ rel[Len(rel)] \in Name /\ up \in Path /\ source \o rel = Append(up, rel[Len(rel)])
    BY <1>2, <1>5, ParentBelow
  <2>2. within(e.path, up) /\ up # e.path
    BY <1>2, <2>1, Child
  <2>3. within(up, source) /\ Rel(up, source) = Parent(rel)
    BY <1>2, <2>1, Joined
  <2> HIDE DEF up
  <2>4. up \in PathsTo(e.path)
    BY <1>2, <2>1, <2>2, PathsToDef
  <2>5. Parent(rel) \in entries
    BY <1>4, <2>2, <2>3, <2>4 DEF Ahead
  <2>6. Kind(start, up) = "dir"
    <3>1. e.path \in DOMAIN start
      BY <1>4 DEF Truthful
    <3>2. up \in DOMAIN start /\ start[up] = Dir
      BY <1>1, <2>1, <2>2, <3>1, Above
    <3> QED BY <1>1, <3>2, NodeDef
  <2> QED BY <1>7, <2>5, <2>6 DEF up
<1>10. ~within(e.path, full)
  <2>1. ASSUME within(e.path, full) PROVE FALSE
    <3>1. within(e.path, target) /\ within(e.path, source)
      BY <1>1, <1>2, <1>3, <2>1, WithinOrder DEF Read
    <3>2. within(target, source) \/ within(source, target)
      BY <1>2, <3>1, WithinOrder
    <3> QED BY <1>1, <3>2 DEF Placed
  <2> QED BY <2>1
<1>11. full \notin res.deleted
  BY <1>3, <1>4, <1>6 DEF DeletedBefore
<1>12. ASSUME NEW known \in entries, within(target \o known, full) PROVE FALSE
  <2>1. known \in Path
    BY <1>1
  <2>2. within(known, rel)
    BY <1>2, <1>12, <2>1, Below DEF full
  <2>3. within(source \o known, e.path)
    BY <1>2, <2>1, <2>2, Below
  <2>4. known # <<>>
    <3>1. ASSUME known = <<>> PROVE FALSE
      <4>1. within(rel, known)
        BY <1>2, <3>1, WithinOrder
      <4> QED BY <1>2, <1>5, <2>1, <2>2, <3>1, <4>1, WithinOrder
    <3> QED BY <3>1
  <2> QED BY <1>4, <2>3, <2>4 DEF Ahead
<1> QED
  BY <1>2, <1>3, <1>6, <1>8, <1>9, <1>10, <1>11, <1>12 DEF rel, full

(* One more deletion is counted.                                           *)
LEMMA CountedOnce ==
    ASSUME Typed, Counted, NEW w, Work(w), NEW full, full \notin res.deleted, DeletesOnly(Sync, w, full), res' = w.res
    PROVE  Counted'
<1>1. Sync.res = res
  BY SyncDef
<1>2. CASE res'.deleted = res.deleted /\ res'.deletions = res.deletions
  BY <1>2 DEF Counted
<1>3. CASE res'.deleted = res.deleted \cup {full} /\ res'.deletions = res.deletions + 1
  <2>1. IsFiniteSet(res.deleted) /\ res.deletions = Cardinality(res.deleted)
    BY DEF Counted
  <2>2. IsFiniteSet(res.deleted \cup {full}) /\ Cardinality(res.deleted \cup {full}) = Cardinality(res.deleted) + 1
    BY <2>1, FS_AddElement
  <2> QED BY <1>3, <2>1, <2>2 DEF Counted
<1> QED
  BY <1>1, <1>2, <1>3 DEF DeletesOnly

(* What is still to come, after a step of the walk over the source.        *)
LEMMA WalkAhead ==
    ASSUME Typed, Undisturbed, touched = {}, pc = "walk", NEW e \in pending,
           pending' = After(start, pending, e), entries' = entries \cup {Rel(e.path, source)},
           UNCHANGED <<start, source>>
    PROVE  Apart(pending') /\ Truthful(start', pending') /\ Ahead' /\ Covered(start, source)'
<1> DEFINE rel == Rel(e.path, source)
           new == After(start, pending, e)
<1>1. Placed(source, target) /\ (\A d \in pending : Read(d, source)) /\ FileSystem(start) /\ entries \subseteq Path
  BY DEF Typed
<1>2. source \in Path /\ e.path \in Path /\ rel \in Path /\ e.path = source \o rel /\ within(e.path, source)
  BY <1>1, Joined DEF Placed, Read
<1>3. Apart(pending) /\ Truthful(start, pending) /\ Ahead /\ Covered(start, source)
  BY DEF Undisturbed
<1>4. \A d \in pending : d.path \in Path
  BY <1>1 DEF Read
<1>5. /\ Apart(new) /\ Truthful(start, new)
      /\ \A d \in new :
             \/ d \in pending /\ d # e
             \/ /\ d.path \in Path /\ within(d.path, e.path) /\ d.path # e.path
                /\ \A q \in Path : within(d.path, q) => q = d.path \/ within(e.path, q)
      /\ \A p \in DOMAIN start : within(p, e.path) /\ p # e.path => \E d \in new : within(p, d.path)
  BY <1>1, <1>3, <1>4, GoesInto
<1>6. \A d \in pending : d = e \/ d \in new
  BY DEF After
<1> HIDE DEF new, rel
<1>7. pending' = new /\ entries' = entries \cup {rel}
  BY DEF new, rel
<1>8. ASSUME NEW d \in new, NEW q \in PathsTo(d.path), within(q, source), q # d.path PROVE Rel(q, source) \in entries'
  <2>1. CASE d \in pending /\ d # e
    BY <1>3, <1>7, <1>8, <2>1 DEF Ahead
  <2>2. CASE /\ d.path \in Path
             /\ \A p \in Path : within(d.path, p) => p = d.path \/ within(e.path, p)
    <3>1. q \in Path /\ within(d.path, q)
      BY <1>8, <2>2, PathsToDef
    <3>2. within(e.path, q)
      BY <1>8, <2>2, <3>1
    <3>3. q \in PathsTo(e.path)
      BY <1>2, <3>1, <3>2, PathsToDef
    <3>4. CASE q = e.path
      BY <1>7, <3>4 DEF rel
    <3>5. CASE q # e.path
      BY <1>3, <1>7, <1>8, <3>3, <3>5 DEF Ahead
    <3> QED BY <3>4, <3>5
  <2> QED BY <1>5, <2>1, <2>2
<1>9. ASSUME NEW d \in new, NEW known \in entries', known # <<>>, within(source \o known, d.path) PROVE FALSE
  <2>1. CASE known \in entries /\ d \in pending
    BY <1>3, <1>9, <2>1 DEF Ahead
  <2>2. CASE known \in entries /\ d.path \in Path /\ within(d.path, e.path)
    <3>1. source \o known \in Path
      BY <1>1, <1>2, <2>2, Joined
    <3>2. within(source \o known, e.path)
      BY <1>2, <1>9, <2>2, <3>1, WithinOrder
    <3> QED BY <1>3, <1>9, <2>2, <3>2 DEF Ahead
  <2>3. CASE known = rel /\ d \in pending /\ d # e
    <3>1. within(e.path, d.path)
      BY <1>2, <1>9, <2>3
    <3> QED BY <1>3, <2>3, <3>1 DEF Apart
  <2>4. CASE known = rel /\ d.path \in Path /\ within(d.path, e.path) /\ d.path # e.path
    <3>1. within(e.path, d.path)
      BY <1>2, <1>9, <2>4
    <3> QED BY <1>2, <2>4, <3>1, WithinOrder
  <2> QED BY <1>5, <1>7, <1>9, <2>1, <2>2, <2>3, <2>4
<1>10. ASSUME NEW p \in Inside(start, source)
       PROVE  Rel(p, source) \in entries' \/ \E d \in new : within(p, d.path)
  <2>1. p \in DOMAIN start
    BY <1>10 DEF Inside
  <2>2. CASE Rel(p, source) \in entries
    BY <1>7, <2>2
  <2>3. ASSUME NEW d \in pending, within(p, d.path) PROVE Rel(p, source) \in entries' \/ \E c \in new : within(p, c.path)
    <3>1. CASE d # e
      BY <1>6, <2>3, <3>1
    <3>2. CASE d = e /\ p = e.path
      BY <1>7, <3>2 DEF rel
    <3>3. CASE d = e /\ p # e.path
      BY <1>5, <2>1, <2>3, <3>3
    <3> QED BY <3>1, <3>2, <3>3
  <2> QED BY <1>3, <2>2, <2>3 DEF Covered
<1>11. Ahead'
  BY <1>7, <1>8, <1>9 DEF Ahead
<1>12. Covered(start, source)'
  BY <1>7, <1>10 DEF Covered
<1> QED
  BY <1>5, <1>7, <1>11, <1>12

(* What is copied, after the walk has put an entry in its place.           *)
LEMMA WalkFiles ==
    ASSUME Typed, Undisturbed, touched = {}, pc = "walk", NEW e \in pending, Rel(e.path, source) # <<>>,
           e.kind # "link", NEW w, Work(w), DeletesOnly(Sync, w, target \o Rel(e.path, source)),
           fs' = w.fs, res' = w.res, w.res.skipped = res.skipped,
           PutsAt(fs, fs', target \o Rel(e.path, source), start[e.path]),
           entries' = entries \cup {Rel(e.path, source)}, UNCHANGED <<start, source, target>>
    PROVE  Based' /\ Kept' /\ CopiedSoFar' /\ SkippedSoFar' /\ DeletedBefore'
<1> DEFINE rel == Rel(e.path, source)
           full == target \o rel
<1>1. Placed(source, target) /\ Read(e, source) /\ FileSystem(fs) /\ FileSystem(start) /\ entries \subseteq Path /\ FileSystem(fs')
  BY DEF Typed, Work
<1>2. Based /\ Kept /\ CopiedSoFar /\ SkippedSoFar /\ DeletedBefore /\ Truthful(start, pending)
  BY DEF Undisturbed
<1>3. /\ rel \in Path /\ full \in Path /\ within(full, target) /\ Rel(full, target) = rel
      /\ e.path = source \o rel /\ rel \notin entries
      /\ \A known \in entries : ~within(target \o known, full)
  BY NextEntry
<1>4. e.path \in DOMAIN start /\ start[e.path].kind # "link"
  BY <1>2 DEF Truthful
<1> HIDE DEF rel, full
<1>5. full \in DOMAIN fs' /\ fs'[full] = start[e.path] /\ \A y \in Changed(fs, fs') : within(y, full)
  BY DEF PutsAt, rel, full
<1>6. entries' = entries \cup {rel} /\ DeletesOnly(Sync, w, full)
  BY DEF rel, full
<1>7. Based'
  BY <1>2, <1>6 DEF Based
<1>8. Kept'
  <2>1. ASSUME NEW p \in Changed(start, fs'), within(p, source) PROVE FALSE
    <3>1. p \in Changed(start, fs) \/ p \in Changed(fs, fs')
      BY <2>1 DEF Changed
    <3>2. p \in Path
      BY <1>1, <2>1, Above DEF Changed
    <3>3. CASE p \in Changed(start, fs)
      BY <1>2, <2>1, <3>3 DEF Kept
    <3>4. CASE within(p, full)
      <4>1. within(p, target)
        BY <1>1, <1>3, <3>2, <3>4, WithinOrder DEF Placed
      <4>2. within(target, source) \/ within(source, target)
        BY <1>1, <2>1, <3>2, <4>1, WithinOrder DEF Placed
      <4> QED BY <1>1, <4>2 DEF Placed
    <3> QED BY <1>5, <3>1, <3>3, <3>4
  <2> QED BY <2>1 DEF Kept
<1>9. CopiedSoFar'
  <2>1. ASSUME NEW known \in entries', known = rel
        PROVE  /\ source \o known \in DOMAIN start
               /\ target \o known \in DOMAIN fs' /\ fs'[target \o known] = start[source \o known]
    BY <1>3, <1>4, <1>5, <2>1 DEF full
  <2>2. ASSUME NEW known \in entries
        PROVE  /\ source \o known \in DOMAIN start
               /\ start[source \o known].kind # "link" =>
                      target \o known \in DOMAIN fs' /\ fs'[target \o known] = start[source \o known]
    <3>1. target \o known \notin Changed(fs, fs')
      BY <1>3, <1>5
    <3> QED BY <1>2, <3>1 DEF CopiedSoFar, Changed
  <2> QED BY <1>6, <2>1, <2>2 DEF CopiedSoFar
<1>10. SkippedSoFar'
  <2>1. ASSUME NEW p \in Inside(start, source), Rel(p, source) = rel PROVE p = e.path
    <3>1. p \in Path /\ within(p, source)
      BY <1>1, <2>1, Above DEF Inside
    <3>2. p = source \o rel
      BY <1>1, <2>1, <3>1, Joined DEF Placed
    <3> QED BY <1>3, <3>2
  <2>2. \A p \in Inside(start, source) :
            start[p].kind = "link" => (Rel(p, source) \in entries' <=> Rel(p, source) \in entries)
    BY <1>4, <1>6, <2>1
  <2>3. {p \in Inside(start, source) : start[p].kind = "link" /\ Rel(p, source) \in entries'} = res.skipped
    BY <1>2, <2>2 DEF SkippedSoFar
  <2> QED BY <2>3 DEF SkippedSoFar
<1>11. DeletedBefore'
  <2>1. Sync.res = res
    BY SyncDef
  <2>2. \A d \in res'.deleted : d \in res.deleted \/ d = full
    BY <1>6, <2>1 DEF DeletesOnly
  <2>3. \A d \in res.deleted : within(d, target) /\ Rel(d, target) \in entries
    BY <1>2 DEF DeletedBefore
  <2> QED BY <1>3, <1>6, <2>2, <2>3 DEF DeletedBefore
<1> QED
  BY <1>7, <1>8, <1>9, <1>10, <1>11

(* A directory in which nothing has changed holds the same.                *)
LEMMA SameChildren ==
    ASSUME NEW f, NEW g, NEW p \in Path, \A q \in Changed(f, g) : ~within(q, p)
    PROVE  Children(f, p) = Children(g, p)
<1>1. ASSUME NEW n \in Name
      PROVE  /\ Append(p, n) \in DOMAIN f <=> Append(p, n) \in DOMAIN g
             /\ Append(p, n) \in DOMAIN f => f[Append(p, n)] = g[Append(p, n)]
  <2>1. Append(p, n) \notin Changed(f, g)
    BY Child
  <2> QED BY <2>1 DEF Changed
<1>2. {m \in Name : Append(p, m) \in DOMAIN f} = {m \in Name : Append(p, m) \in DOMAIN g}
  BY <1>1
<1>3. ASSUME NEW d PROVE d \in Children(f, p) <=> d \in Children(g, p)
  BY <1>1, <1>2 DEF Children
<1> QED
  BY <1>3

CopyInv == Based /\ Kept /\ CopiedSoFar /\ SkippedSoFar /\ DeletedBefore

(* A step of the walk over the source keeps the invariant, if its work     *)
(* does.                                                                   *)
LEMMA WalksOn ==
    ASSUME Typed, Undisturbed, touched = {}, pc = "walk", NEW e \in pending, entries' = entries \cup {Rel(e.path, source)},
           NEW w, Work(w), NEW into \in BOOLEAN, Walked(w, e, into), into <=> e.kind = "dir",
           Counted', Ok(w) => CopyInv'
    PROVE  Undisturbed'
<1> DEFINE ok == Ok(w) /\ (into => Kind(w.fs, EvalSymlinks(w.fs, e.path)) = "dir")
           inside == IF into THEN ReadDir(w.fs, e.path) ELSE {}
<1>1. /\ fs' = w.fs
      /\ pending' = IF ok THEN (pending \ {e}) \cup inside ELSE {}
      /\ pc' = IF ok THEN "walk" ELSE "failed"
      /\ UNCHANGED <<delete, source, target, start, touched, others>>
  BY DEF Walked
<1>2. CASE ~ok
  <2>1. pc' = "failed"
    BY <1>1, <1>2
  <2> QED BY <2>1 DEF Undisturbed
<1>3. CASE ok
  <2>1. CopyInv' /\ pc' = "walk" /\ pending' = (pending \ {e}) \cup inside
    BY <1>1, <1>3
  <2>2. Read(e, source) /\ FileSystem(start) /\ FileSystem(w.fs) /\ Placed(source, target)
    BY DEF Typed, Work
  <2>3. e.path \in Path /\ within(e.path, source) /\ source \in Path
    BY <2>2 DEF Read, Placed
  <2>4. e.path \in DOMAIN start /\ e.kind = start[e.path].kind
    BY DEF Undisturbed, Truthful
  <2>5. \A q \in Changed(start, w.fs) : ~within(q, e.path)
    <3>1. \A q \in Changed(start, w.fs) : ~within(q, source) /\ q \in Path
      BY <1>1, <2>1, <2>2, Above DEF CopyInv, Kept, Changed
    <3> QED BY <2>3, <3>1, WithinOrder
  <2>6. inside = IF e.kind = "dir" THEN Children(start, e.path) ELSE {}
    <3>1. CASE into
      <4>1. e.path \notin Changed(start, w.fs)
        BY <2>3, <2>5, WithinOrder
      <4>2. e.path \in DOMAIN w.fs /\ w.fs[e.path] = start[e.path]
        BY <2>4, <4>1 DEF Changed
      <4>3. Kind(w.fs, e.path) = "dir"
        BY <2>2, <2>4, <3>1, <4>2, NodeDef
      <4>4. inside = Children(w.fs, e.path)
        BY <2>2, <3>1, <4>3, ReadsChildren
      <4> QED BY <2>3, <2>5, <3>1, <4>4, SameChildren
    <3>2. CASE ~into
      BY <3>2
    <3> QED BY <3>1, <3>2
  <2>7. pending' = After(start, pending, e)
    BY <2>1, <2>6 DEF After
  <2>8. Apart(pending') /\ Truthful(start', pending') /\ Ahead' /\ Covered(start, source)'
    BY <1>1, <2>7, WalkAhead
  <2> HIDE DEF ok, inside
  <2> QED BY <2>1, <2>8 DEF Undisturbed, CopyInv
<1> QED
  BY <1>2, <1>3

(* Visit keeps the invariant.                                              *)
LEMMA VisitKeeps ==
    ASSUME Typed, Undisturbed, touched = {}, NEW e \in pending, Visit(e)
    PROVE  Undisturbed'
<1> DEFINE rel == Rel(e.path, source)
           full == target \o rel
<1>1. pc = "walk" /\ entries' = entries \cup {rel} /\ delete \in BOOLEAN
  BY DEF Visit, Typed
<1>2. Placed(source, target) /\ Read(e, source) /\ FileSystem(fs) /\ FileSystem(start) /\ res \in Result /\ entries \subseteq Path
  BY <1>1 DEF Typed
<1>3. Counted /\ CopyInv /\ Truthful(start, pending)
  BY <1>1 DEF Undisturbed, CopyInv
<1>4. Work(Sync) /\ Sync.fs = fs /\ Sync.res = res /\ Ok(Sync)
  BY SyncDef
<1>5. source \in Path /\ target \in Path /\ e.path \in Path /\ rel \in Path
  BY <1>2, Joined DEF Read, Placed
<1>6. e.path \in DOMAIN start /\ e.kind = start[e.path].kind
  BY <1>3 DEF Truthful
<1>7. ASSUME NEW w, NEW into, Walked(w, e, into) PROVE fs' = w.fs /\ res' = w.res /\ UNCHANGED <<start, source, target>>
  BY <1>7 DEF Walked
<1>8. CASE rel = <<>> /\ Walked(Sync, e, TRUE)
  <2>1. fs' = fs /\ res' = res /\ UNCHANGED <<start, source, target>> /\ entries' = entries
    BY <1>1, <1>3, <1>4, <1>7, <1>8 DEF CopyInv, Based
  <2>2. pc' \in {"walk", "failed"}
    BY <1>1, <1>8 DEF Walked
  <2>3. Counted' /\ CopyInv'
    BY <1>1, <1>3, <2>1 DEF Counted, CopyInv, Based, Kept, CopiedSoFar, SkippedSoFar, DeletedBefore
  <2>4. e.path = source
    BY <1>2, <1>5, <1>8, Joined DEF Read
  <2>5. e.kind = "dir"
    BY <1>3, <1>6, <2>4 DEF CopyInv, Based, Kind
  <2> QED BY <1>1, <1>4, <1>8, <2>3, <2>5, WalksOn
<1>9. CASE rel # <<>> /\ e.kind = "link" /\ Walked(With(Sync, fs, [res EXCEPT !.skipped = @ \cup {e.path}]), e, FALSE)
  <2> DEFINE r == [res EXCEPT !.skipped = @ \cup {e.path}]
             w == With(Sync, fs, r)
  <2>1. r \in Result /\ r.deleted = res.deleted /\ r.deletions = res.deletions /\ r.skipped = res.skipped \cup {e.path}
    BY <1>2, <1>5 DEF Result
  <2>2. w = [err |-> Sync.err, fs |-> fs, res |-> r]
    BY DEF With
  <2>3. Walked(w, e, FALSE)
    BY <1>9
  <2> HIDE DEF r
  <2>4. Work(w) /\ w.fs = fs /\ w.res = r
    BY <1>2, <2>1, <2>2, SyncDef DEF Work
  <2> HIDE DEF w
  <2>5. fs' = fs /\ res' = r /\ UNCHANGED <<start, source, target>>
    BY <1>7, <2>3, <2>4
  <2>6. Counted'
    BY <1>3, <2>1, <2>5 DEF Counted
  <2>7. Based' /\ Kept'
    BY <1>1, <1>3, <2>5 DEF CopyInv, Based, Kept
  <2>8. e.path = source \o rel
    BY <1>2, <1>5, Joined DEF Read
  <2>9. CopiedSoFar'
    <3>1. ASSUME NEW known \in entries'
          PROVE  /\ source \o known \in DOMAIN start
                 /\ start[source \o known].kind # "link" =>
                        target \o known \in DOMAIN fs /\ fs[target \o known] = start[source \o known]
      <4>1. CASE known \in entries
        BY <1>3, <4>1 DEF CopyInv, CopiedSoFar
      <4>2. CASE known = rel
        BY <1>6, <1>9, <2>8, <4>2
      <4> QED BY <1>1, <4>1, <4>2
    <3> QED BY <2>5, <3>1 DEF CopiedSoFar
  <2>10. SkippedSoFar'
    <3> DEFINE K(all) == {p \in Inside(start, source) : start[p].kind = "link" /\ Rel(p, source) \in all}
    <3>1. ASSUME NEW p \in Inside(start, source), Rel(p, source) = rel PROVE p = e.path
      <4>1. p \in Path /\ within(p, source)
        BY <1>2, <3>1, Above DEF Inside
      <4> QED BY <1>5, <2>8, <3>1, <4>1, Joined
    <3>2. e.path \in Inside(start, source) /\ start[e.path].kind = "link"
      BY <1>2, <1>6, <1>9 DEF Inside, Read
    <3>3. K(entries') = K(entries) \cup {e.path}
      BY <1>1, <3>1, <3>2
    <3>4. res.skipped = K(entries)
      BY <1>3 DEF CopyInv, SkippedSoFar
    <3>5. res'.skipped = K(entries')
      BY <2>1, <2>5, <3>3, <3>4
    <3> QED BY <2>5, <3>5 DEF SkippedSoFar
  <2>11. DeletedBefore'
    <3>1. \A d \in res.deleted : within(d, target) /\ Rel(d, target) \in entries
      BY <1>1, <1>3 DEF CopyInv, DeletedBefore
    <3> QED BY <1>1, <2>1, <2>5, <3>1 DEF DeletedBefore
  <2>12. CopyInv'
    BY <2>7, <2>9, <2>10, <2>11 DEF CopyInv
  <2> QED BY <1>1, <1>9, <2>3, <2>4, <2>6, <2>12, WalksOn
<1>10. ASSUME NEW w, Work(w), NEW into \in BOOLEAN, Walked(w, e, into), into <=> e.kind = "dir", rel # <<>>, e.kind # "link",
              DeletesOnly(Sync, w, full), Ok(w) => PutsAt(fs, w.fs, full, start[e.path]), w.res.skipped = res.skipped
       PROVE  Undisturbed'
  <2>1. fs' = w.fs /\ res' = w.res /\ UNCHANGED <<start, source, target>>
    BY <1>7, <1>10
  <2>2. full \notin res.deleted
    BY <1>1, <1>10, NextEntry
  <2>3. Counted'
    BY <1>3, <1>10, <2>1, <2>2, CountedOnce
  <2>4. Ok(w) => CopyInv'
    BY <1>1, <1>10, <2>1, WalkFiles DEF CopyInv
  <2> QED BY <1>1, <1>10, <2>3, <2>4, WalksOn
<1>11. DeletesOnly(Sync, Failed(Sync), full) /\ Work(Failed(Sync)) /\ ~Ok(Failed(Sync)) /\ Failed(Sync).res.skipped = res.skipped
  <2>1. Failed(Sync) = [err |-> "failed", fs |-> Sync.fs, res |-> Sync.res] /\ Work(Failed(Sync))
    BY <1>4, WorkDef
  <2>2. Failed(Sync).res = res /\ Failed(Sync).err = "failed"
    BY <1>4, <2>1
  <2> QED BY <1>4, <2>1, <2>2 DEF DeletesOnly, Ok
<1>12. CASE rel # <<>> /\ e.kind = "dir" /\ Walked(Failed(Sync), e, TRUE)
  BY <1>10, <1>11, <1>12
<1>13. CASE rel # <<>> /\ e.kind = "file" /\ Walked(Failed(Sync), e, FALSE)
  BY <1>10, <1>11, <1>13
<1>14. ASSUME rel # <<>>
       PROVE  /\ Kind(fs, target) = "dir" /\ Kind(fs, target \o Parent(rel)) = "dir" /\ ~within(e.path, full)
              /\ e.path \in DOMAIN fs /\ fs[e.path] = start[e.path]
  <2>1. e.path \notin Changed(start, fs)
    BY <1>2, <1>3 DEF CopyInv, Kept, Read
  <2> QED BY <1>1, <1>6, <1>14, <2>1, NextEntry DEF Changed
<1>15. CASE rel # <<>> /\ e.kind = "dir" /\ Walked(ensureTreeDirectory(Sync, target, rel, delete), e, TRUE)
  <2> DEFINE w == ensureTreeDirectory(Sync, target, rel, delete)
  <2>1. DeletesOnly(Sync, w, full) /\ (Ok(w) => PutsAt(fs, w.fs, full, Dir))
    BY <1>1, <1>4, <1>5, <1>14, <1>15, DirectoryExact
  <2>2. Work(w) /\ w.res.skipped = res.skipped
    <3>1. Grows(Sync, w, delete)
      BY <1>1, <1>4, <1>5, DirectoryStep
    <3> QED BY <1>4, <3>1 DEF Grows
  <2>3. start[e.path] = Dir
    BY <1>2, <1>6, <1>15, NodeDef DEF Node
  <2> HIDE DEF w
  <2>4. Walked(w, e, TRUE)
    BY <1>15 DEF w
  <2> QED BY <1>10, <1>15, <2>1, <2>2, <2>3, <2>4
<1>16. CASE rel # <<>> /\ e.kind = "file" /\ Walked(FileWork(Sync, target, rel, delete, e.path), e, FALSE)
  <2> DEFINE w == FileWork(Sync, target, rel, delete, e.path)
  <2>1. DeletesOnly(Sync, w, full) /\ (Ok(w) => PutsAt(fs, w.fs, full, fs[e.path]))
    BY <1>1, <1>4, <1>5, <1>14, <1>16, FileExact
  <2>2. Work(w) /\ w.res.skipped = res.skipped
    BY <1>1, <1>4, <1>5, <1>16, FileStep DEF Grows
  <2> HIDE DEF w
  <2>3. Walked(w, e, FALSE)
    BY <1>16 DEF w
  <2> QED BY <1>10, <1>14, <1>16, <2>1, <2>2, <2>3
<1> HIDE DEF rel
<1> QED
  BY <1>8, <1>9, <1>12, <1>13, <1>15, <1>16 DEF Visit, FileWork, rel

(* So does CopyFails, which ends the walk: the deletions are counted.      *)
LEMMA CopyFailsKeeps ==
    ASSUME Typed, Undisturbed, touched = {}, NEW e \in pending, CopyFails(e)
    PROVE  Undisturbed'
<1> DEFINE rel == Rel(e.path, source)
           ready == prepareTreeFileDestination(Sync, target, rel, delete)
           copied == copyFileAtomic(ready, e.path, target \o rel)
           late == With(copied, copied.fs, ready.res)
<1>1. pc = "walk" /\ rel # <<>> /\ delete \in BOOLEAN /\ target \in Path
  BY DEF CopyFails, Typed, Placed
<1>2. Work(Sync) /\ Sync.fs = fs
  BY SyncDef
<1>3. /\ rel \in Path /\ target \o rel \notin res.deleted
      /\ Kind(fs, target) = "dir" /\ Kind(fs, target \o Parent(rel)) = "dir"
  BY <1>1, NextEntry
<1>4. DeletesOnly(Sync, ready, target \o rel)
  BY <1>1, <1>2, <1>3, DestinationExact
<1>5. Work(ready)
  BY <1>1, <1>2, <1>3, DestinationStep DEF Grows
<1>6. Walked(Failed(ready), e, FALSE) \/ Walked(Failed(late), e, FALSE)
  BY DEF CopyFails
<1>7. late = [err |-> copied.err, fs |-> copied.fs, res |-> ready.res]
  BY DEF With
<1> HIDE DEF ready, copied, late
<1>8. ~Ok(Failed(ready)) /\ Failed(ready).res = ready.res
  <2>1. Failed(ready) = [err |-> "failed", fs |-> ready.fs, res |-> ready.res]
    BY <1>5, WorkDef
  <2> QED BY <2>1 DEF Ok
<1>9. ~Ok(Failed(late)) /\ Failed(late).res = ready.res
  BY <1>7 DEF Failed, Ok
<1>10. pc' = "failed" /\ res' = ready.res /\ touched' = {}
  BY <1>6, <1>8, <1>9 DEF Walked
<1>11. Counted'
  BY <1>3, <1>4, <1>5, <1>10, CountedOnce DEF Undisturbed
<1> QED
  BY <1>10, <1>11 DEF Undisturbed

(* And deleteTreeExtras, whether it goes into a directory or deletes.      *)
LEMMA ExtrasKeeps ==
    ASSUME Typed, Undisturbed, touched = {}, NEW e \in pending, deleteTreeExtras(e)
    PROVE  Undisturbed'
<1> DEFINE rel == Rel(e.path, target)
<1>1. pc = "extras" /\ entries' = entries
  BY DEF deleteTreeExtras
<1>2. /\ Placed(source, target) /\ (\A d \in pending : Read(d, target))
      /\ FileSystem(fs) /\ FileSystem(start) /\ res \in Result /\ entries \subseteq Path
  BY <1>1 DEF Typed
<1>3. Counted /\ CopyInv /\ Apart(pending) /\ Truthful(fs, pending) /\ Complete /\ Covered(fs, target)
  BY <1>1 DEF Undisturbed, CopyInv
<1>4. Work(Sync) /\ Sync.fs = fs /\ Sync.res = res /\ Sync.err = "none" /\ Ok(Sync)
  BY SyncDef
<1>5. source \in Path /\ target \in Path /\ e.path \in Path /\ within(e.path, target) /\ rel \in Path /\ e.path = target \o rel
  BY <1>2, Joined DEF Read, Placed
<1>6. e.path \in DOMAIN fs /\ e.kind = fs[e.path].kind /\ Place(fs, e.path) = e.path
  <2>1. e.path \in DOMAIN fs /\ e.kind = fs[e.path].kind
    BY <1>3 DEF Truthful
  <2>2. Open(fs, e.path)
    BY <1>2, <2>1, OpenDef
  <2> QED BY <1>2, <1>5, <2>1, <2>2, PlaceDef
<1>7. \A d \in pending : d.path \in Path
  BY <1>2 DEF Read
<1>8. ASSUME NEW w, NEW into, Walked(w, e, into)
      PROVE  /\ fs' = w.fs /\ res' = w.res /\ UNCHANGED <<start, source, target, touched, delete>>
             /\ pc' \in {"extras", "failed"} /\ (~Ok(w) => pc' = "failed")
  BY <1>1, <1>8 DEF Walked
<1>9. CASE rel \in entries /\ Walked(Sync, e, e.kind = "dir")
  <2>1. fs' = fs /\ res' = res /\ UNCHANGED <<start, source, target, touched, delete>> /\ pc' \in {"extras", "failed"}
    BY <1>4, <1>8, <1>9
  <2>2. Counted' /\ CopyInv' /\ Complete'
    BY <1>1, <1>3, <2>1 DEF Counted, CopyInv, Based, Kept, CopiedSoFar, SkippedSoFar, DeletedBefore, Complete
  <2>3. e.kind = "dir" => ReadDir(fs, e.path) = Children(fs, e.path) /\ Kind(fs, EvalSymlinks(fs, e.path)) = "dir"
    <3>1. e.kind = "dir" => Kind(fs, e.path) = "dir"
      BY <1>2, <1>6, NodeDef
    <3> QED BY <1>2, <3>1, ReadsChildren
  <2>4. pending' = After(fs, pending, e)
    <3>1. CASE e.kind = "dir"
      BY <1>4, <1>9, <2>3, <3>1 DEF Walked, After
    <3>2. CASE e.kind # "dir"
      BY <1>4, <1>9, <3>2 DEF Walked, After
    <3> QED BY <3>1, <3>2
  <2> DEFINE new == After(fs, pending, e)
  <2>5. /\ Apart(new) /\ Truthful(fs, new)
        /\ \A p \in DOMAIN fs : within(p, e.path) /\ p # e.path => \E d \in new : within(p, d.path)
    BY <1>2, <1>3, <1>7, GoesInto
  <2>6. \A d \in pending : d = e \/ d \in new
    BY DEF After
  <2> HIDE DEF new
  <2>7. ASSUME NEW p \in Inside(fs, target) PROVE Rel(p, target) \in entries \/ \E d \in new : within(p, d.path)
    <3>1. p \in DOMAIN fs
      BY <2>7 DEF Inside
    <3>2. ASSUME NEW d \in pending, within(p, d.path) PROVE Rel(p, target) \in entries \/ \E c \in new : within(p, c.path)
      <4>1. CASE d # e
        BY <2>6, <3>2, <4>1
      <4>2. CASE d = e /\ p = e.path
        BY <1>9, <4>2
      <4>3. CASE d = e /\ p # e.path
        BY <2>5, <3>1, <3>2, <4>3
      <4> QED BY <4>1, <4>2, <4>3
    <3> QED BY <1>3, <2>7, <3>2 DEF Covered
  <2>8. pending' = new
    BY <2>4 DEF new
  <2>9. Apart(pending') /\ Truthful(fs', pending') /\ Covered(fs, target)'
    BY <1>1, <2>1, <2>5, <2>7, <2>8 DEF Covered
  <2> QED BY <2>1, <2>2, <2>9 DEF Undisturbed, CopyInv
<1>10. CASE rel \notin entries /\ Walked(Deleting(Sync, e.path, e.path), e, FALSE)
  <2> DEFINE w == Deleting(Sync, e.path, e.path)
             g == RemoveAll(fs, e.path)
  <2>1. w = [err |-> "none", fs |-> g, res |-> Listed(res, e.path)] /\ Work(w)
    <3> DEFINE p == e.path
    <3>1. p \in Answer /\ p \in Path
      BY <1>5 DEF Answer
    <3> HIDE DEF p
    <3>2. /\ Deleting(Sync, p, p) = [err |-> Sync.err, fs |-> RemoveAll(Sync.fs, p), res |-> Listed(Sync.res, p)]
          /\ Work(Deleting(Sync, p, p))
      BY <1>4, <3>1, WorkDef
    <3> QED BY <1>4, <3>2 DEF p
  <2>2. w.fs = g /\ w.res = Listed(res, e.path) /\ Ok(w)
    BY <2>1 DEF Ok
  <2>3. /\ w.res.deleted = res.deleted \cup {e.path} /\ w.res.deletions = res.deletions + 1 /\ w.res.skipped = res.skipped
    <3> DEFINE p == e.path
    <3>1. p \in Path /\ w.res = Listed(res, p)
      BY <1>5, <2>2
    <3> HIDE DEF p, w
    <3>2. w.res.deleted = res.deleted \cup {p} /\ w.res.deletions = res.deletions + 1 /\ w.res.skipped = res.skipped
      BY <1>2, <3>1, ListedDef
    <3> QED BY <3>2 DEF p
  <2>4. Walked(w, e, FALSE)
    BY <1>10
  <2> HIDE DEF w
  <2>5. /\ fs' = g /\ res' = w.res /\ UNCHANGED <<start, source, target, touched, delete>>
        /\ pc' = "extras" /\ pending' = pending \ {e}
    BY <1>1, <1>8, <2>2, <2>4 DEF Walked
  <2>6. e.path # <<>>
    <3>1. ASSUME e.path = <<>> PROVE FALSE
      <4>1. target = <<>>
        BY <1>5, <3>1, WithinOrder
      <4>2. rel = <<>>
        BY <1>5, <3>1, <4>1, Joined
      <4> QED BY <1>3, <1>10, <4>2 DEF CopyInv, Based
    <3> QED BY <3>1
  <2>7. /\ FileSystem(g)
        /\ \A q \in DOMAIN g : q \in DOMAIN fs /\ g[q] = fs[q] /\ ~within(q, e.path)
        /\ \A q \in DOMAIN fs : ~within(q, e.path) => q \in DOMAIN g
    <3>1. /\ FileSystem(g)
          /\ \A q \in DOMAIN g : q \in DOMAIN fs /\ g[q] = fs[q]
          /\ \A q \in DOMAIN fs : ~within(q, e.path) => q \in DOMAIN g
          /\ \A q \in DOMAIN fs : within(q, e.path) /\ q # <<>> => q \notin DOMAIN g
      BY <1>2, <1>5, RemoveFileSystem DEF Answer
    <3>2. ~within(<<>>, e.path)
      <4>1. <<>> \in Path /\ within(e.path, <<>>)
        BY <1>2, <1>5, Above, WithinOrder
      <4> QED BY <1>5, <2>6, <4>1, WithinOrder
    <3> QED BY <3>1, <3>2
  <2> HIDE DEF g
  <2>8. Counted'
    <3>1. e.path \notin res.deleted
      BY <1>3, <1>6, <1>10 DEF CopyInv, DeletedBefore
    <3>2. DeletesOnly(Sync, w, e.path)
      BY <1>4, <2>3 DEF DeletesOnly
    <3> QED BY <1>3, <2>1, <2>5, <3>1, <3>2, CountedOnce
  <2>9. Based' /\ Complete'
    BY <1>1, <1>3, <2>5 DEF CopyInv, Based, Complete
  <2>10. Kept'
    <3>1. ASSUME NEW p \in Changed(start, g), within(p, source) PROVE FALSE
      <4>1. p \in Path
        BY <1>2, <2>7, <3>1, Above DEF Changed
      <4>2. p \notin Changed(start, fs)
        BY <1>3, <3>1 DEF CopyInv, Kept
      <4>3. p \in DOMAIN fs /\ p \notin DOMAIN g
        BY <2>7, <3>1, <4>2 DEF Changed
      <4>4. within(p, e.path)
        BY <2>7, <4>3
      <4>5. within(p, target)
        BY <1>5, <4>1, <4>4, WithinOrder
      <4>6. within(target, source) \/ within(source, target)
        BY <1>5, <3>1, <4>1, <4>5, WithinOrder
      <4> QED BY <1>2, <4>6 DEF Placed
    <3> QED BY <2>5, <3>1 DEF Kept
  <2>11. ASSUME NEW known \in entries, within(target \o known, e.path) PROVE FALSE
    <3>1. known \in Path
      BY <1>2
    <3>2. within(known, rel)
      <4>1. within(target \o known, target \o rel)
        BY <1>5, <2>11
      <4> HIDE DEF rel
      <4> QED BY <1>5, <3>1, <4>1, Below
    <3>3. within(source \o known, source \o rel) /\ source \o rel \in Path /\ within(source \o rel, source)
          /\ Rel(source \o rel, source) = rel
      BY <1>5, <3>1, <3>2, Below, Joined
    <3>4. source \o known \in DOMAIN start
      BY <1>3 DEF CopyInv, CopiedSoFar
    <3>5. source \o rel \in DOMAIN start
      BY <1>2, <3>3, <3>4, Above
    <3> QED BY <1>3, <1>10, <3>3, <3>5 DEF Complete, Inside
  <2>12. CopiedSoFar'
    <3>1. \A known \in entries : target \o known \in DOMAIN fs =>
                                     target \o known \in DOMAIN g /\ g[target \o known] = fs[target \o known]
      BY <2>7, <2>11
    <3> QED BY <1>1, <1>3, <2>5, <3>1 DEF CopyInv, CopiedSoFar
  <2>13. SkippedSoFar'
    BY <1>1, <1>3, <2>3, <2>5 DEF CopyInv, SkippedSoFar
  <2>14. DeletedBefore'
    <3>1. e.path \notin DOMAIN g
      BY <1>5, <2>7, WithinOrder
    <3>2. \A d \in res.deleted : within(d, target) /\ (Rel(d, target) \in entries \/ d \notin DOMAIN g)
      BY <1>3, <2>7 DEF CopyInv, DeletedBefore
    <3>3. \A d \in res'.deleted : within(d, target) /\ (Rel(d, target) \in entries \/ d \notin DOMAIN g)
      BY <1>5, <2>3, <2>5, <3>1, <3>2
    <3> QED BY <1>1, <2>5, <3>3 DEF DeletedBefore
  <2>15. Apart(pending')
    BY <1>3, <2>5 DEF Apart
  <2>16. Truthful(g, pending')
    <3>1. \A d \in pending' : d \in pending /\ ~within(d.path, e.path)
      BY <1>3, <2>5 DEF Apart
    <3> QED BY <1>3, <2>7, <3>1 DEF Truthful
  <2>17. Covered(fs, target)'
    <3>1. ASSUME NEW p \in Inside(g, target) PROVE Rel(p, target) \in entries \/ \E d \in pending' : within(p, d.path)
      <4>1. p \in Inside(fs, target) /\ ~within(p, e.path)
        BY <2>7, <3>1 DEF Inside
      <4> QED BY <1>3, <2>5, <4>1 DEF Covered
    <3> QED BY <1>1, <2>5, <3>1 DEF Covered
  <2> QED BY <2>5, <2>8, <2>9, <2>10, <2>12, <2>13, <2>14, <2>15, <2>16, <2>17 DEF Undisturbed
<1>11. CASE Walked(Failed(Sync), e, FALSE)
  <2>1. Failed(Sync) = [err |-> "failed", fs |-> Sync.fs, res |-> Sync.res]
    BY <1>4, WorkDef
  <2>2. ~Ok(Failed(Sync)) /\ Failed(Sync).res = res
    BY <1>4, <2>1 DEF Ok
  <2>3. pc' = "failed" /\ res' = res
    BY <1>8, <1>11, <2>2
  <2> QED BY <1>3, <2>3 DEF Undisturbed, Counted
<1> HIDE DEF rel
<1> QED
  BY <1>6, <1>9, <1>10, <1>11 DEF deleteTreeExtras, rel

(* The end of the walk over the source.                                    *)
LEMMA EndWalkKeeps ==
    ASSUME Typed, Undisturbed, touched = {}, EndWalk
    PROVE  Undisturbed'
<1>1. pc = "walk" /\ pending = {} /\ UNCHANGED <<fs, delete, source, target, entries, res, start, touched, strayed, others>>
  BY DEF EndWalk
<1>2. Placed(source, target) /\ FileSystem(fs) /\ FileSystem(start)
  BY <1>1 DEF Typed
<1>3. Counted /\ CopyInv /\ Covered(start, source)
  BY <1>1 DEF Undisturbed, CopyInv
<1>4. Complete /\ Complete'
  BY <1>1, <1>3 DEF Covered, Complete
<1>5. Counted' /\ Based' /\ Kept' /\ CopiedSoFar' /\ SkippedSoFar'
  BY <1>1, <1>3 DEF Counted, CopyInv, Based, Kept, CopiedSoFar, SkippedSoFar
<1>6. DeletedBefore'
  BY <1>1, <1>3 DEF CopyInv, DeletedBefore
<1>7. CASE ~delete /\ Finish /\ pending' = {}
  <2>1. pc' \in {"done", "failed"}
    BY <1>7 DEF Finish
  <2> QED BY <1>1, <1>4, <1>5, <1>6, <1>7, <2>1 DEF Undisturbed
<1>8. CASE pc' = "failed"
  BY <1>5, <1>8 DEF Undisturbed
<1>9. CASE pc' = "extras" /\ pending' = {[path |-> target, kind |-> Lstat(fs, target)]}
  <2> DEFINE e == [path |-> target, kind |-> Lstat(fs, target)]
  <2>1. target \in DOMAIN fs /\ target \in Path
    <3>1. target \in Path /\ source \o <<>> = source /\ target \o <<>> = target
      BY <1>2, Joined DEF Placed
    <3>2. start[source].kind = "dir"
      BY <1>3 DEF CopyInv, Based, Kind
    <3> QED BY <1>3, <3>1, <3>2 DEF CopyInv, Based, CopiedSoFar
  <2>2. Lstat(fs, target) = fs[target].kind
    <3>1. Open(fs, target)
      BY <1>2, <2>1, OpenDef
    <3>2. Place(fs, target) = target
      BY <1>2, <2>1, <3>1, PlaceDef
    <3> QED BY <1>2, <2>1, <3>2, NodeDef DEF Lstat
  <2>3. e.path = target /\ e.kind = fs[target].kind
    BY <2>2
  <2> HIDE DEF e
  <2>4. pending' = {e}
    BY <1>9 DEF e
  <2>5. Apart(pending') /\ Truthful(fs', pending')
    BY <1>1, <2>1, <2>3, <2>4 DEF Apart, Truthful
  <2>6. Covered(fs, target)'
    BY <1>1, <2>3, <2>4 DEF Covered, Inside
  <2> QED BY <1>4, <1>5, <1>6, <1>9, <2>5, <2>6 DEF Undisturbed
<1> QED
  BY <1>7, <1>8, <1>9 DEF EndWalk

(* The beginning: nothing is copied yet, and everything is still to come.  *)
LEMMA BeginKeeps ==
    ASSUME Typed, NEW s \in Sources, NEW t \in Targets, NEW d \in BOOLEAN, Begin(s, t, d)
    PROVE  Undisturbed'
<1>1. pc = "idle" /\ start' = fs' /\ UNCHANGED <<entries, res, touched>> /\ pc' \in {"walk", "failed"}
  BY DEF Begin, Started
<1>2. res = NoResult /\ entries = {<<>>} /\ touched = {}
  BY <1>1 DEF Typed
<1>3. res'.deleted = {} /\ res'.deletions = 0 /\ res'.skipped = {} /\ entries' = {<<>>}
  BY <1>1, <1>2 DEF NoResult
<1>4. Counted'
  BY <1>3, FS_EmptySet DEF Counted
<1>5. CASE pc' = "failed"
  BY <1>4, <1>5 DEF Undisturbed
<1>6. CASE pc' = "walk"
  <2>1. /\ Typed' /\ Kind(start', source') = "dir" /\ Kind(fs', target') = "dir"
        /\ pending' = {[path |-> source', kind |-> "dir"]}
    BY <1>1, <1>6, BeginStep
  <2>2. FileSystem(start') /\ Placed(source', target')
    BY <1>6, <2>1 DEF Typed
  <2> DEFINE S == source'
             T == target'
             f == start'
             e == [path |-> S, kind |-> "dir"]
  <2>3. S \in Path /\ T \in Path /\ S \o <<>> = S /\ T \o <<>> = T
    BY <2>2, Joined DEF Placed
  <2>4. S \in DOMAIN f /\ f[S] = Dir /\ T \in DOMAIN f /\ f[T] = Dir /\ f[S].kind = "dir"
    BY <1>1, <2>1, <2>2, NodeDef DEF Dir
  <2>5. e.path = S /\ e.kind = "dir"
    OBVIOUS
  <2> HIDE DEF e
  <2>6. pending' = {e}
    BY <2>1 DEF e
  <2>7. Based' /\ DeletedBefore'
    BY <1>3, <2>1 DEF Based, DeletedBefore
  <2>8. Kept'
    BY <1>1, <2>2, ChangedDef DEF Kept
  <2>9. CopiedSoFar'
    BY <1>1, <1>3, <2>3, <2>4 DEF CopiedSoFar
  <2>10. SkippedSoFar'
    <3>1. ASSUME NEW p \in Inside(f, S), Rel(p, S) = <<>> PROVE f[p].kind # "link"
      <4>1. p \in Path /\ within(p, S)
        BY <2>2, <3>1, Above DEF Inside
      <4>2. p = S
        BY <2>3, <3>1, <4>1, Joined
      <4> QED BY <2>4, <4>2
    <3>2. {p \in Inside(f, S) : f[p].kind = "link" /\ Rel(p, S) \in entries'} = {}
      BY <1>3, <3>1
    <3> QED BY <1>3, <3>2 DEF SkippedSoFar
  <2>11. Apart(pending') /\ Truthful(f, pending')
    BY <2>4, <2>5, <2>6 DEF Apart, Truthful
  <2>12. Ahead'
    <3>1. ASSUME NEW q \in PathsTo(S), within(q, S), q # S PROVE FALSE
      <4>1. q \in Path /\ within(S, q)
        BY <2>3, <3>1, PathsToDef
      <4> QED BY <2>3, <3>1, <4>1, WithinOrder
    <3> QED BY <1>3, <2>5, <2>6, <3>1 DEF Ahead
  <2>13. Covered(start, source)'
    BY <2>5, <2>6 DEF Covered, Inside
  <2> QED BY <1>4, <1>6, <2>7, <2>8, <2>9, <2>10, <2>11, <2>12, <2>13 DEF Undisturbed
<1> QED
  BY <1>1, <1>5, <1>6

(* The invariant of a walk that nobody disturbs.                           *)
THEOREM UndisturbedHolds == Spec => []Undisturbed
<1>1. Init => Undisturbed
  <2> SUFFICES ASSUME Init PROVE Undisturbed
    OBVIOUS
  <2>1. res.deleted = {} /\ res.deletions = 0 /\ pc = "idle"
    BY DEF Init, NoResult
  <2>2. Counted
    BY <2>1, FS_EmptySet DEF Counted
  <2> QED BY <2>1, <2>2 DEF Undisturbed
<1>2. Typed /\ Typed' /\ Undisturbed /\ [Next]_vars => Undisturbed'
  <2> SUFFICES ASSUME Typed, Typed', Undisturbed, [Next]_vars, touched' = {} PROVE Undisturbed'
    BY DEF Undisturbed
  <2>1. ASSUME NEW s \in Sources, NEW t \in Targets, NEW d \in BOOLEAN, Begin(s, t, d) PROVE Undisturbed'
    BY <2>1, BeginKeeps
  <2>2. ASSUME NEW e \in pending, Visit(e) \/ CopyFails(e) \/ deleteTreeExtras(e) PROVE Undisturbed'
    <3>1. touched = {}
      BY <2>2 DEF Visit, CopyFails, deleteTreeExtras, Walked
    <3> QED BY <2>2, <3>1, VisitKeeps, CopyFailsKeeps, ExtrasKeeps
  <2>3. CASE EndWalk
    <3>1. touched = {}
      BY <2>3 DEF EndWalk
    <3> QED BY <2>3, <3>1, EndWalkKeeps
  <2>4. ASSUME UNCHANGED <<fs, delete, source, target, pending, entries, res, start, touched>>,
               pc' = pc \/ (pc = "extras" /\ pc' = "failed") \/ (pc = "extras" /\ pending = {} /\ pc' = "done")
        PROVE  Undisturbed'
    <3>1. Counted' /\ (pc \in {"walk", "extras", "done"} => Based' /\ Kept' /\ CopiedSoFar' /\ SkippedSoFar' /\ DeletedBefore')
      BY <2>4 DEF Undisturbed, Counted, Based, Kept, CopiedSoFar, SkippedSoFar, DeletedBefore
    <3>2. (pc = "walk" => Ahead') /\ (pc \in {"extras", "done"} => Complete')
      BY <2>4 DEF Undisturbed, Ahead, Complete
    <3>3. /\ pc = "walk" => Covered(start, source)'
          /\ pc = "extras" \/ (pc = "done" /\ delete) => Covered(fs, target)'
      BY <2>4 DEF Undisturbed, Covered
    <3>4. /\ pc \in {"walk", "extras"} => Apart(pending')
          /\ pc = "walk" => Truthful(start', pending')
          /\ pc = "extras" => Truthful(fs', pending')
      BY <2>4 DEF Undisturbed
    <3>5. pc' = "done" => pending' = {}
      BY <2>4 DEF Undisturbed
    <3> QED BY <2>4, <3>1, <3>2, <3>3, <3>4, <3>5 DEF Undisturbed
  <2>5. CASE EndExtras
    BY <2>4, <2>5 DEF EndExtras, Finish
  <2>6. ASSUME NEW r \in Requests, Other(r) PROVE Undisturbed'
    <3>1. touched = {} /\ Changed(fs, fs') = {} /\ UNCHANGED syncVars
      BY <2>6 DEF Other
    <3>2. fs' = fs
      BY <3>1, NoChange DEF Typed
    <3> QED BY <2>4, <3>1, <3>2 DEF syncVars
  <2>7. CASE UNCHANGED vars
    BY <2>4, <2>7 DEF vars, syncVars
  <2> QED BY <2>1, <2>2, <2>3, <2>5, <2>6, <2>7 DEF Next
<1> QED
  BY <1>1, <1>2, TreesAreTyped, PTL DEF Spec

-----------------------------------------------------------------------------
(* MirrorsSource: a synchronisation that nobody disturbed and that reports *)
(* success leaves a copy of the source in the target, with deletion        *)
(* nothing else, and reports the links it left out (SyncTreeWithOptions).  *)
THEOREM MirrorsSourceHolds == Spec => []MirrorsSource
<1>1. Typed /\ Undisturbed => MirrorsSource
  <2> SUFFICES ASSUME Typed, Undisturbed, pc = "done", touched = {}
               PROVE  /\ \A p \in Inside(start, source) : start[p].kind # "link" =>
                            target \o Rel(p, source) \in DOMAIN fs /\ fs[target \o Rel(p, source)] = start[p]
                      /\ res.skipped = {p \in Inside(start, source) : start[p].kind = "link"}
                      /\ delete => \A q \in Inside(fs, target) : source \o Rel(q, target) \in DOMAIN start
    BY DEF MirrorsSource
  <2>1. Placed(source, target) /\ FileSystem(start) /\ FileSystem(fs)
    BY DEF Typed
  <2>2. CopiedSoFar /\ SkippedSoFar /\ Complete /\ pending = {} /\ (delete => Covered(fs, target))
    BY DEF Undisturbed
  <2>3. ASSUME NEW p \in Inside(start, source), start[p].kind # "link"
        PROVE  target \o Rel(p, source) \in DOMAIN fs /\ fs[target \o Rel(p, source)] = start[p]
    <3>1. p \in Path /\ within(p, source)
      BY <2>1, <2>3, Above DEF Inside
    <3>2. source \o Rel(p, source) = p
      BY <2>1, <3>1, Joined DEF Placed
    <3>3. Rel(p, source) \in entries
      BY <2>2, <2>3 DEF Complete
    <3> QED BY <2>2, <2>3, <3>2, <3>3 DEF CopiedSoFar
  <2>4. res.skipped = {p \in Inside(start, source) : start[p].kind = "link"}
    BY <2>2 DEF SkippedSoFar, Complete
  <2>5. ASSUME delete, NEW q \in Inside(fs, target) PROVE source \o Rel(q, target) \in DOMAIN start
    BY <2>2, <2>5 DEF Covered, CopiedSoFar
  <2> QED BY <2>3, <2>4, <2>5
<1> QED
  BY <1>1, TreesAreTyped, UndisturbedHolds, PTL

(* The parts of DeletionsAreListed that hold in a disturbed walk, too.     *)
OnlyAsked == ~delete => res.deleted = {}
OnlyListed ==
    target # Missing /\ ~strayed =>
        \A p \in Inside(start, target) \ touched :
            Kind(fs, p) # start[p].kind => \E d \in res.deleted : within(p, d)

(* DeletionsAreListed: an entry of the target is gone, or of another kind, *)
(* only with deletion asked for and at or below a path that the result     *)
(* lists, once each (TreeOptions).                                         *)
THEOREM DeletionsAreListedHolds == Spec => []DeletionsAreListed
<1>1. Init => OnlyAsked /\ OnlyListed
  BY DEF Init, OnlyAsked, OnlyListed, NoResult
<1>2. Typed /\ OnlyAsked /\ OnlyListed /\ [Next]_vars => OnlyAsked' /\ OnlyListed'
  <2> SUFFICES ASSUME Typed, OnlyAsked, OnlyListed, [Next]_vars PROVE OnlyAsked' /\ OnlyListed'
    OBVIOUS
  <2>1. ASSUME NEW s \in Sources, NEW t \in Targets, NEW d \in BOOLEAN, Begin(s, t, d) PROVE OnlyAsked' /\ OnlyListed'
    <3>1. pc = "idle" /\ start' = fs' /\ res' = res
      BY <2>1 DEF Begin, Started
    <3>2. res'.deleted = {} /\ FileSystem(fs')
      BY <2>1, <3>1, BeginStep DEF Typed, NoResult
    <3>3. \A p \in DOMAIN fs' : Kind(fs', p) = fs'[p].kind
      BY <3>2, NodeDef
    <3> QED BY <3>1, <3>2, <3>3 DEF OnlyAsked, OnlyListed, Inside
  <2>2. ASSUME NEW e \in pending, NEW w, NEW into, SyncStep(w, e, into) PROVE OnlyAsked' /\ OnlyListed'
    <3>1. /\ fs' = w.fs /\ res' = w.res /\ strayed' = (strayed \/ ~Settled)
          /\ UNCHANGED <<delete, source, target, start, touched>>
      BY <2>2 DEF SyncStep, Walked
    <3>2. /\ res.deleted \subseteq w.res.deleted /\ (~delete => w.res.deleted = res.deleted)
          /\ Settled => Careful(Sync, w, target)
      BY <2>2 DEF SyncStep
    <3>3. OnlyAsked'
      BY <3>1, <3>2 DEF OnlyAsked
    <3>4. ASSUME target # Missing, ~strayed', NEW p \in Inside(start, target) \ touched, Kind(w.fs, p) # start[p].kind
          PROVE  \E d \in w.res.deleted : within(p, d)
      <4>1. Careful(Sync, w, target) /\ ~strayed
        BY <3>1, <3>2, <3>4
      <4>2. CASE Kind(fs, p) # start[p].kind
        BY <3>2, <3>4, <4>1, <4>2 DEF OnlyListed
      <4>3. CASE Kind(fs, p) = start[p].kind
        <5>1. p \in DOMAIN start /\ FileSystem(start) /\ FileSystem(fs)
          BY <3>4 DEF Inside, Typed
        <5>2. Kind(fs, p) # "none"
          BY <4>3, <5>1, NodeDef
        <5>3. p \in DOMAIN fs
          BY <5>2 DEF Kind
        <5> QED BY <3>4, <4>1, <4>3, <5>3, SyncDef DEF Careful
      <4> QED BY <4>2, <4>3
    <3> QED BY <3>1, <3>3, <3>4 DEF OnlyListed
  <2>3. CASE EndWalk \/ EndExtras \/ UNCHANGED vars
    <3>1. UNCHANGED <<fs, delete, target, res, start, touched, strayed>>
      BY <2>3 DEF EndWalk, EndExtras, vars, syncVars
    <3> QED BY <3>1 DEF OnlyAsked, OnlyListed
  <2>4. ASSUME NEW r \in Requests, Other(r) PROVE OnlyAsked' /\ OnlyListed'
    <3>1. touched' = touched \cup Changed(fs, fs') /\ UNCHANGED <<delete, target, res, start, strayed>>
      BY <2>4 DEF Other, syncVars
    <3>2. \A p : p \notin Changed(fs, fs') => Kind(fs', p) = Kind(fs, p)
      BY DEF Changed, Kind
    <3> QED BY <3>1, <3>2 DEF OnlyAsked, OnlyListed
  <2> QED BY <2>1, <2>2, <2>3, <2>4, EveryStep
<1>3. OnlyAsked /\ OnlyListed /\ Undisturbed => DeletionsAreListed
  BY DEF OnlyAsked, OnlyListed, Undisturbed, Counted, DeletionsAreListed
<1> QED
  BY <1>1, <1>2, <1>3, TreesAreTyped, UndisturbedHolds, PTL DEF Spec

=============================================================================
