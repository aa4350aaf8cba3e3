-------------------------- MODULE ConfigFileProofs --------------------------
(***************************************************************************)
(* Proofs about ConfigFile, for any tokens and any number of edits: a      *)
(* restart brings back what ran, full trust is explicit, and a supplement  *)
(* stays read-only.  The first rests on what cleanPaths computes for any   *)
(* list of paths; it is a recursive function, so induction and recursion   *)
(* over the natural numbers come first, stated for sets and functions.     *)
(***************************************************************************)
EXTENDS ConfigFile, WellFoundedInduction, SequenceTheorems, TLAPS

(* Every set of natural numbers that is not empty has a least element.     *)
LEMMA Least ==
    ASSUME NEW T, T \subseteq Nat, T # {}
    PROVE  \E x \in T : \A y \in T : x <= y
<1> DEFINE R == OpToRel(<,Nat)
<1>1. IsWellFoundedOn(R, Nat)
  BY NatLessThanWellFounded
<1>2. \A x, y \in Nat : y < x => <<y, x>> \in R
  BY DEF OpToRel
<1> HIDE DEF R
<1>3. \E x \in T : \A y \in T : ~ (<<y, x>> \in R)
  BY <1>1, WFMin
<1>4. PICK x \in T : \A y \in T : ~ (<<y, x>> \in R)
  BY <1>3
<1>5. \A y \in T : ~ (y < x)
  BY <1>2, <1>4
<1>6. \A y \in T : x <= y
  BY <1>5
<1> QED BY <1>6

(* Induction over the natural numbers, for a set instead of a predicate.   *)
LEMMA SetInduction ==
    ASSUME NEW S, 0 \in S, \A n \in Nat : n \in S => n + 1 \in S
    PROVE  Nat \subseteq S
<1> SUFFICES ASSUME Nat \ S # {} PROVE FALSE
  OBVIOUS
<1>1. PICK x \in Nat \ S : \A y \in Nat \ S : x <= y
  BY Least
<1>2. x - 1 \in Nat /\ x - 1 \notin S
  BY <1>1
<1> QED BY <1>1, <1>2

(* Functions to iterate, one for each step, and their iterations from a.   *)
Steps(A, n) == [1 .. n -> [A -> A]]
Iterates(f, A, a, n, step) ==
    /\ f \in [0 .. n -> A]
    /\ f[0] = a
    /\ \A i \in 1 .. n : f[i] = step[i][f[i - 1]]

(* Recursion up to n: the iterations exist.                                *)
LEMMA Recursion ==
    ASSUME NEW A, NEW a \in A, NEW n \in Nat, NEW step \in Steps(A, n)
    PROVE  \E f : Iterates(f, A, a, n, step)
<1> USE DEF Steps, Iterates
<1> DEFINE Good(f, m) == f[0] = a /\ \A i \in 1 .. m : f[i] = step[i][f[i - 1]]
           S == {m \in Nat : m <= n => \E f \in [0 .. m -> A] : Good(f, m)}
<1>1. 0 \in S
  <2>1. [i \in 0 .. 0 |-> a] \in [0 .. 0 -> A]
    OBVIOUS
  <2>2. Good([i \in 0 .. 0 |-> a], 0)
    OBVIOUS
  <2> QED BY <2>1, <2>2
<1>2. ASSUME NEW m \in Nat, m \in S PROVE m + 1 \in S
  <2> SUFFICES ASSUME m + 1 <= n PROVE \E f \in [0 .. m + 1 -> A] : Good(f, m + 1)
    OBVIOUS
  <2>1. PICK f \in [0 .. m -> A] : Good(f, m)
    BY <1>2
  <2> DEFINE g == [i \in 0 .. m + 1 |-> IF i <= m THEN f[i] ELSE step[m + 1][f[m]]]
  <2>2. step[m + 1][f[m]] \in A
    <3>1. f[m] \in A /\ step[m + 1] \in [A -> A]
      OBVIOUS
    <3> QED BY <3>1
  <2>3. g \in [0 .. m + 1 -> A]
    BY <2>2
  <2>4. \A i \in 1 .. m + 1 : g[i] = step[i][g[i - 1]]
    <3> SUFFICES ASSUME NEW i \in 1 .. m + 1 PROVE g[i] = step[i][g[i - 1]]
      OBVIOUS
    <3>1. CASE i <= m
      BY <2>1, <3>1
    <3>2. CASE i = m + 1
      BY <2>1, <3>2
    <3> QED BY <3>1, <3>2
  <2>5. g[0] = a
    BY <2>1
  <2> QED
    BY <2>3, <2>4, <2>5
<1> HIDE DEF S
<1>3. n \in S
  BY <1>1, <1>2, SetInduction
<1> QED
  BY <1>3 DEF S

(* What cleanPaths does with the path at i, having kept some before it.    *)
CleanStep(paths, kept, i) ==
    LET p == clean(paths[i]) IN
    IF absolute(p) /\ p \notin Range(kept) THEN Append(kept, p) ELSE kept

(* The path that is added is one of the possible ones.                     *)
LEMMA CleanStepType ==
    ASSUME NEW n \in Nat, NEW paths \in [1 .. n -> PathName], NEW i \in 1 .. n,
           NEW kept \in Seq(PathName)
    PROVE  CleanStep(paths, kept, i) \in Seq(PathName)
<1>1. clean(paths[i]) \in PathName
  BY DEF clean, PathName
<1>2. Append(kept, clean(paths[i])) \in Seq(PathName)
  BY <1>1
<1> QED
  BY <1>2 DEF CleanStep

(* cleanPaths goes through the list from its front.                        *)
LEMMA CleanPathsDef ==
    ASSUME NEW paths \in Seq(PathName)
    PROVE  \E f \in [0 .. Len(paths) -> Seq(PathName)] :
              /\ f[0] = <<>>
              /\ \A i \in 1 .. Len(paths) : f[i] = CleanStep(paths, f[i - 1], i)
              /\ cleanPaths(paths) = f[Len(paths)]
<1> DEFINE n == Len(paths)
           A == Seq(PathName)
           Def(f) ==
               [i \in 0 .. Len(paths) |->
                   IF i = 0 THEN <<>>
                   ELSE LET p == clean(paths[i]) IN
                        IF absolute(p) /\ p \notin Range(f[i - 1])
                        THEN Append(f[i - 1], p) ELSE f[i - 1]]
           upTo == CHOOSE f : f = Def(f)
           step == [i \in 1 .. n |-> [k \in A |-> CleanStep(paths, k, i)]]
<1>1. cleanPaths(paths) = upTo[Len(paths)]
  BY DEF cleanPaths
<1>2. n \in Nat /\ paths \in [1 .. n -> PathName] /\ <<>> \in A
  OBVIOUS
<1>3. \A f : Def(f) = [i \in 0 .. n |-> IF i = 0 THEN <<>> ELSE CleanStep(paths, f[i - 1], i)]
  BY DEF CleanStep
<1> HIDE DEF n
<1>4. \A i \in 1 .. n, k \in A : CleanStep(paths, k, i) \in A
  BY <1>2, CleanStepType
<1> HIDE DEF A, Def
<1>5. step \in [1 .. n -> [A -> A]]
  BY <1>4
<1>6. \A i \in 1 .. n, k \in A : step[i][k] = CleanStep(paths, k, i)
  OBVIOUS
<1> HIDE DEF step
<1>7. PICK f \in [0 .. n -> A] : f[0] = <<>> /\ \A i \in 1 .. n : f[i] = step[i][f[i - 1]]
  <2>1. n \in Nat /\ step \in Steps(A, n)
    BY <1>2, <1>5 DEF Steps
  <2>2. \E f : Iterates(f, A, <<>>, n, step)
    BY <1>2, <2>1, Recursion
  <2> QED BY <2>2 DEF Iterates
<1>8. \A i \in 1 .. n : f[i] = CleanStep(paths, f[i - 1], i)
  <2> SUFFICES ASSUME NEW i \in 1 .. n PROVE f[i] = CleanStep(paths, f[i - 1], i)
    OBVIOUS
  <2>1. i - 1 \in 0 .. n
    BY <1>2
  <2>2. f[i - 1] \in A
    BY <1>7, <2>1
  <2> QED BY <1>6, <1>7, <2>2
<1>9. f = Def(f)
  <2>1. \A i \in 0 .. n : f[i] = IF i = 0 THEN <<>> ELSE CleanStep(paths, f[i - 1], i)
    BY <1>2, <1>7, <1>8
  <2>2. f = [i \in 0 .. n |-> IF i = 0 THEN <<>> ELSE CleanStep(paths, f[i - 1], i)]
    BY <2>1
  <2> QED BY <1>3, <2>2
<1>10. upTo = Def(upTo)
  BY <1>9
<1> HIDE DEF upTo
<1>11. /\ upTo = [i \in 0 .. n |-> upTo[i]]
       /\ upTo[0] = <<>>
       /\ \A i \in 1 .. n : upTo[i] = CleanStep(paths, upTo[i - 1], i)
  <2>1. upTo = [i \in 0 .. n |-> IF i = 0 THEN <<>> ELSE CleanStep(paths, upTo[i - 1], i)]
    BY <1>3, <1>10
  <2> QED BY <1>2, <2>1
<1>12. \A i \in 0 .. n : upTo[i] \in A
  <2> DEFINE S == {i \in Nat : i <= n => upTo[i] \in A}
  <2>1. 0 \in S
    BY <1>2, <1>11
  <2>2. ASSUME NEW i \in Nat, i \in S PROVE i + 1 \in S
    BY <1>2, <1>4, <1>11, <2>2
  <2> HIDE DEF S
  <2>3. Nat \subseteq S
    BY <2>1, <2>2, SetInduction
  <2> QED
    BY <1>2, <2>3 DEF S
<1> QED
  BY <1>1, <1>11, <1>12 DEF n, A

(* A step keeps a canonical list canonical, drops nothing, and keeps an    *)
(* absolute path.                                                          *)
LEMMA CleanStepCanonical ==
    ASSUME NEW n \in Nat, NEW paths \in [1 .. n -> PathName], NEW i \in 1 .. n,
           NEW kept, Canonical(kept)
    PROVE  /\ Canonical(CleanStep(paths, kept, i))
           /\ Range(kept) \subseteq Range(CleanStep(paths, kept, i))
           /\ absolute(clean(paths[i])) =>
                  clean(paths[i]) \in Range(CleanStep(paths, kept, i))
<1> DEFINE p == clean(paths[i])
           longer == Append(kept, p)
<1>1. p \in PathName /\ clean(p) = p
  BY DEF clean, PathName
<1> HIDE DEF p
<1>2. kept \in Seq(PathName)
  BY DEF Canonical
<1>3. /\ longer \in Seq(PathName)
      /\ DOMAIN longer = 1 .. Len(kept) + 1
      /\ DOMAIN kept = 1 .. Len(kept) /\ Len(kept) \in Nat
      /\ longer[Len(kept) + 1] = p
      /\ \A j \in 1 .. Len(kept) : longer[j] = kept[j]
  BY <1>1, <1>2
<1> HIDE DEF longer
<1>4. Range(longer) = Range(kept) \cup {p}
  <2>1. Range(longer) \subseteq Range(kept) \cup {p}
    <3> SUFFICES ASSUME NEW j \in DOMAIN longer PROVE longer[j] \in Range(kept) \cup {p}
      BY DEF Range
    <3>1. CASE j = Len(kept) + 1
      BY <1>3, <3>1
    <3>2. CASE j \in 1 .. Len(kept)
      BY <1>3, <3>2 DEF Range
    <3> QED
      BY <1>3, <3>1, <3>2
  <2>2. Range(kept) \subseteq Range(longer)
    <3> SUFFICES ASSUME NEW j \in DOMAIN kept PROVE kept[j] \in Range(longer)
      BY DEF Range
    <3>1. j \in DOMAIN longer /\ longer[j] = kept[j]
      BY <1>3
    <3> QED
      BY <3>1 DEF Range
  <2>3. p \in Range(longer)
    <3>1. Len(kept) + 1 \in DOMAIN longer
      BY <1>3
    <3> QED
      BY <1>3, <3>1 DEF Range
  <2> QED
    BY <2>1, <2>2, <2>3
<1>5. ASSUME absolute(p), p \notin Range(kept) PROVE Canonical(longer)
  <2>1. \A j \in 1 .. Len(kept) : kept[j] # p
    BY <1>3, <1>5 DEF Range
  <2>2. \A j \in DOMAIN longer : absolute(longer[j]) /\ clean(longer[j]) = longer[j]
    BY <1>1, <1>3, <1>5 DEF Canonical
  <2>3. \A j, k \in DOMAIN longer : longer[j] = longer[k] => j = k
    <3> SUFFICES ASSUME NEW j \in DOMAIN longer, NEW k \in DOMAIN longer,
                        longer[j] = longer[k]
                 PROVE  j = k
      OBVIOUS
    <3>1. CASE j \in 1 .. Len(kept) /\ k \in 1 .. Len(kept)
      BY <1>3, <3>1 DEF Canonical
    <3>2. CASE j = Len(kept) + 1 /\ k \in 1 .. Len(kept)
      BY <1>3, <2>1, <3>2
    <3>3. CASE k = Len(kept) + 1 /\ j \in 1 .. Len(kept)
      BY <1>3, <2>1, <3>3
    <3> QED
      BY <1>3, <3>1, <3>2, <3>3
  <2> QED
    BY <1>3, <2>2, <2>3 DEF Canonical
<1>6. CleanStep(paths, kept, i) = IF absolute(p) /\ p \notin Range(kept) THEN longer ELSE kept
  BY DEF CleanStep, longer, p
<1>7. CASE absolute(p) /\ p \notin Range(kept)
  BY <1>4, <1>5, <1>6, <1>7 DEF p
<1>8. CASE ~ (absolute(p) /\ p \notin Range(kept))
  BY <1>6, <1>8 DEF p
<1> QED
  BY <1>7, <1>8

(* The result of cleanPaths is canonical, and every path that is absolute  *)
(* once it is cleaned is in it.                                            *)
LEMMA CleanPathsCanonical ==
    ASSUME NEW paths \in Seq(PathName)
    PROVE  /\ Canonical(cleanPaths(paths))
           /\ \A i \in DOMAIN paths : absolute(clean(paths[i])) =>
                  clean(paths[i]) \in Range(cleanPaths(paths))
<1> DEFINE n == Len(paths)
<1>1. n \in Nat /\ paths \in [1 .. n -> PathName] /\ DOMAIN paths = 1 .. n
  OBVIOUS
<1>2. PICK f \in [0 .. n -> Seq(PathName)] :
          /\ f[0] = <<>>
          /\ \A i \in 1 .. n : f[i] = CleanStep(paths, f[i - 1], i)
          /\ cleanPaths(paths) = f[n]
  BY CleanPathsDef
<1> HIDE DEF n
<1> DEFINE Kept(i) == /\ Canonical(f[i])
                      /\ \A j \in 1 .. i : absolute(clean(paths[j])) =>
                                               clean(paths[j]) \in Range(f[i])
           S == {i \in Nat : i <= n => Kept(i)}
<1>3. 0 \in S
  <2>1. Canonical(<<>>)
    BY DEF Canonical
  <2> QED
    BY <1>2, <2>1
<1>4. ASSUME NEW i \in Nat, i \in S PROVE i + 1 \in S
  <2> SUFFICES ASSUME i + 1 <= n PROVE Kept(i + 1)
    OBVIOUS
  <2>1. i + 1 \in 1 .. n /\ i <= n /\ (i + 1) - 1 = i
    BY <1>1
  <2>2. Kept(i)
    BY <1>4, <2>1
  <2>3. f[i + 1] = CleanStep(paths, f[i], i + 1)
    BY <1>2, <2>1
  <2>4. /\ Canonical(f[i + 1])
        /\ Range(f[i]) \subseteq Range(f[i + 1])
        /\ absolute(clean(paths[i + 1])) => clean(paths[i + 1]) \in Range(f[i + 1])
    BY <1>1, <2>1, <2>2, <2>3, CleanStepCanonical
  <2>5. \A j \in 1 .. i + 1 : j \in 1 .. i \/ j = i + 1
    OBVIOUS
  <2> QED
    BY <2>2, <2>4, <2>5
<1> HIDE DEF S
<1>5. n \in S
  BY <1>1, <1>3, <1>4, SetInduction
<1> QED
  BY <1>1, <1>2, <1>5 DEF S

(* cleanPaths drops what it has kept already: behind a canonical list,     *)
(* paths of that list change nothing.                                      *)
LEMMA CleanPathsFixed ==
    ASSUME NEW s, NEW t \in Seq(PathName), Canonical(s),
           \A i \in DOMAIN t : absolute(clean(t[i])) => clean(t[i]) \in Range(s)
    PROVE  cleanPaths(s \o t) = s
<1> DEFINE paths == s \o t
           n == Len(paths)
           m == Len(s)
<1>1. s \in Seq(PathName)
  BY DEF Canonical
<1>2. /\ paths \in Seq(PathName) /\ n \in Nat /\ m \in Nat /\ m <= n
      /\ \A i \in 1 .. m : paths[i] = s[i]
      /\ \A i \in m + 1 .. n : i - m \in DOMAIN t /\ paths[i] = t[i - m]
  BY <1>1
<1>3. DOMAIN s = 1 .. m
  BY <1>1
<1> HIDE DEF paths, m
<1>4. PICK f \in [0 .. n -> Seq(PathName)] :
          /\ f[0] = <<>>
          /\ \A i \in 1 .. n : f[i] = CleanStep(paths, f[i - 1], i)
          /\ cleanPaths(paths) = f[n]
  BY <1>2, CleanPathsDef
<1> HIDE DEF n
<1> DEFINE Front(i) == SubSeq(s, 1, i)
           S == {i \in Nat : /\ i <= m => f[i] = Front(i)
                             /\ m <= i /\ i <= n => f[i] = s}
<1>5. Front(0) = <<>> /\ Front(m) = s
  BY <1>1 DEF m
<1>6. \A i \in 1 .. m : Front(i) = Append(Front(i - 1), s[i]) /\ s[i] \notin Range(Front(i - 1))
  <2> SUFFICES ASSUME NEW i \in 1 .. m
               PROVE  Front(i) = Append(Front(i - 1), s[i]) /\ s[i] \notin Range(Front(i - 1))
    OBVIOUS
  <2>1. Front(i) = Append(Front(i - 1), s[i])
    BY <1>1, <1>2 DEF m
  <2>2. DOMAIN Front(i - 1) = 1 .. i - 1 /\ \A j \in 1 .. i - 1 : Front(i - 1)[j] = s[j]
    BY <1>1, <1>2 DEF m
  <2>3. \A j \in 1 .. i - 1 : j \in DOMAIN s /\ i \in DOMAIN s /\ j # i
    BY <1>2, <1>3
  <2> QED
    BY <2>1, <2>2, <2>3 DEF Canonical, Range
<1>7. 0 \in S
  BY <1>2, <1>4, <1>5
<1>8. ASSUME NEW i \in Nat, i \in S PROVE i + 1 \in S
  <2>1. CASE i + 1 <= m
    <3>1. f[i + 1] = CleanStep(paths, Front(i), i + 1)
      <4>1. i + 1 \in 1 .. n /\ (i + 1) - 1 = i
        BY <1>2, <2>1
      <4>2. f[i] = Front(i)
        BY <1>2, <1>8, <2>1
      <4> QED
        BY <1>4, <4>1, <4>2
    <3>2. paths[i + 1] = s[i + 1] /\ i + 1 \in 1 .. m /\ (i + 1) - 1 = i
      BY <1>2, <2>1
    <3>3. absolute(clean(s[i + 1])) /\ clean(s[i + 1]) = s[i + 1]
      BY <1>3, <3>2 DEF Canonical
    <3>4. f[i + 1] = Front(i + 1)
      BY <1>6, <3>1, <3>2, <3>3 DEF CleanStep
    <3>5. m <= i + 1 => f[i + 1] = s
      BY <1>2, <1>5, <2>1, <3>4
    <3> QED
      BY <3>4, <3>5
  <2>2. CASE m < i + 1 /\ i + 1 <= n
    <3>1. f[i + 1] = CleanStep(paths, s, i + 1)
      BY <1>2, <1>4, <1>8, <2>2
    <3>2. /\ (i + 1) - m \in DOMAIN t
          /\ paths[i + 1] = t[(i + 1) - m]
      BY <1>2, <2>2
    <3>3. f[i + 1] = s
      BY <3>1, <3>2 DEF CleanStep
    <3> QED
      BY <1>2, <2>2, <3>3
  <2>3. CASE n < i + 1
    BY <1>2, <2>3
  <2> QED
    BY <1>2, <2>1, <2>2, <2>3
<1> HIDE DEF S
<1>9. n \in S
  BY <1>2, <1>7, <1>8, SetInduction
<1> QED
  BY <1>2, <1>4, <1>9 DEF S, paths

(* cleanPaths leaves a canonical list as it is.                            *)
LEMMA CleanPathsIdempotent ==
    ASSUME NEW s, Canonical(s)
    PROVE  cleanPaths(s) = s
<1> DEFINE t == <<>>
<1>1. t \in Seq(PathName) /\ DOMAIN t = {} /\ s \o t = s
  BY DEF Canonical
<1> HIDE DEF t
<1>2. cleanPaths(s \o t) = s
  BY <1>1, CleanPathsFixed
<1> QED
  BY <1>1, <1>2

-----------------------------------------------------------------------------
(* Normalize.                                                              *)

IsConfig(c) == c = [k \in Key |-> c[k]]
Kept == {"supplement_read_only", "auth.token", "privacy.redact", "audit.enabled", "adapters"}
Trusted(c) == orDefault(c, "profile", "") = "full_trust"

(* n is c normalised, key by key.                                          *)
KeyByKey(c, n) ==
    /\ IsConfig(n)
    /\ \A k \in Texts : n[k] = orDefault(c, k, "")
    /\ \A k \in Numbers : n[k] = orDefault(c, k, 0)
    /\ \A k \in Kept : n[k] = c[k]
    /\ n["allowed_roots"] = IF Trusted(c) THEN <<"/">> ELSE cleanPaths(c["allowed_roots"])
    /\ n["allow_any_command"] = (c["allow_any_command"] \/ Trusted(c))
    /\ n["allow_shell"] = (c["allow_shell"] \/ Trusted(c))
    /\ n["allowed_commands"] = cleanPaths(c["allowed_commands"])
    /\ n["audit.redact"] = IF c["audit.redact"] = "nil" THEN "true" ELSE c["audit.redact"]
    /\ n["docker_paths"] = cleanPaths(c["docker_paths"] \o BuiltinDocker)

(* The keys that KeyByKey speaks of are all keys there are.                *)
LEMMA KeysCovered ==
    Key = Texts \cup Numbers \cup Kept
          \cup {"allowed_roots", "allow_any_command", "allow_shell", "allowed_commands",
                "audit.redact", "docker_paths"}
BY DEF Key, PermissionKey, ApprovalKey, PlainKey, Texts, Numbers, Kept

(* What Normalize does to each key.                                        *)
LEMMA NormalizedKeyByKey ==
    ASSUME NEW c, IsConfig(c)
    PROVE  KeyByKey(c, normalized(c))
<1> DEFINE n == normalized(c)
<1>1. IsConfig(n)
  BY DEF normalized, IsConfig
<1> USE DEF normalized, IsConfig, Key, PermissionKey, ApprovalKey, PlainKey
<1>2. \A k \in Texts : n[k] = orDefault(c, k, "")
  BY DEF Texts
<1>3. \A k \in Numbers : n[k] = orDefault(c, k, 0)
  BY DEF Numbers
<1>4. \A k \in Kept : n[k] = c[k]
  BY DEF Kept
<1>5. /\ n["allowed_roots"] = IF Trusted(c) THEN <<"/">> ELSE cleanPaths(c["allowed_roots"])
      /\ n["allowed_commands"] = cleanPaths(c["allowed_commands"])
      /\ n["docker_paths"] = cleanPaths(c["docker_paths"] \o BuiltinDocker)
  BY DEF Trusted, Trust
<1>6. /\ n["allow_any_command"] = (c["allow_any_command"] \/ Trusted(c))
      /\ n["allow_shell"] = (c["allow_shell"] \/ Trusted(c))
  BY DEF Trusted
<1>7. n["audit.redact"] = IF c["audit.redact"] = "nil" THEN "true" ELSE c["audit.redact"]
  OBVIOUS
<1> QED
  BY <1>1, <1>2, <1>3, <1>4, <1>5, <1>6, <1>7 DEF KeyByKey

(* The defaults have the types of their keys and are not empty.            *)
LEMMA DefaultTypes ==
    /\ ValueTypes(Defaults)
    /\ \A k \in Texts : Defaults[k] # ""
    /\ \A k \in Numbers : Defaults[k] # 0
    /\ Defaults["profile"] = "observe"
<1> USE DEF Defaults, Key, PermissionKey, ApprovalKey, PlainKey
<1>1. Defaults = [k \in Key |-> Defaults[k]]
  BY DEF Defaults
<1>2. \A k \in {"allow_any_command", "allow_shell"} : Defaults[k] \in BOOLEAN
  OBVIOUS
<1>3. /\ Defaults["allowed_roots"] = <<"/share">>
      /\ Defaults["allowed_commands"] = <<>>
      /\ Defaults["docker_paths"] = BuiltinDocker
      /\ Defaults["audit.redact"] = "true"
      /\ Defaults["profile"] = "observe"
  OBVIOUS
<1>4. \A k \in Texts : Defaults[k] # ""
  <2>1. /\ Defaults["listen"] = "127.0.0.1" /\ Defaults["auth.type"] = "bearer"
        /\ Defaults["confirmation.mode"] = "destructive_only"
        /\ Defaults["approval.mode"] = "sensitive_only"
        /\ Defaults["journal_path"] = "/var/jobs.jsonl"
        /\ Defaults["audit.path"] = "/var/audit.jsonl"
    OBVIOUS
  <2> HIDE DEF Defaults
  <2> QED
    BY <1>3, <2>1 DEF Texts
<1>5. \A k \in Numbers : Defaults[k] # 0
  <2>1. /\ Defaults["confirmation.ttl"] = 600 /\ Defaults["approval.ttl"] = 600
        /\ Defaults["limits"] = 600
    OBVIOUS
  <2> HIDE DEF Defaults
  <2> QED
    BY <2>1 DEF Numbers
<1>6. /\ <<"/share">> \in Seq(PathName) /\ <<>> \in Seq(PathName)
      /\ BuiltinDocker \in Seq(PathName)
  BY DEF PathName, BuiltinDocker
<1> QED
  BY <1>1, <1>2, <1>3, <1>4, <1>5, <1>6 DEF ValueTypes

(* Where the two elements of a list that is appended to another one are.   *)
LEMMA TwoAppended ==
    ASSUME NEW S, NEW d \in Seq(S), NEW b \in Seq(S), Len(b) = 2
    PROVE  /\ d \o b \in Seq(S)
           /\ Len(d) + 1 \in DOMAIN (d \o b) /\ (d \o b)[Len(d) + 1] = b[1]
           /\ Len(d) + 2 \in DOMAIN (d \o b) /\ (d \o b)[Len(d) + 2] = b[2]
<1> DEFINE db == d \o b
<1>1. /\ db \in Seq(S)
      /\ Len(db) = Len(d) + Len(b)
      /\ \A i \in 1 .. Len(d) + Len(b) : db[i] = IF i <= Len(d) THEN d[i] ELSE b[i - Len(d)]
  BY ConcatProperties, Zenon
<1> HIDE DEF db
<1>2. Len(d) \in Nat /\ DOMAIN db = 1 .. Len(d) + 2
  BY <1>1
<1>3. db[Len(d) + 1] = b[1] /\ db[Len(d) + 2] = b[2]
  BY <1>1, <1>2
<1> QED
  BY <1>1, <1>2, <1>3 DEF db

(* Normalize brings every configuration into its normal form.              *)
LEMMA NormalizedIsNormal ==
    ASSUME NEW c, ValueTypes(c)
    PROVE  Normal(normalized(c))
<1> DEFINE n == normalized(c)
           docker == c["docker_paths"] \o BuiltinDocker
<1>1. KeyByKey(c, n)
  BY NormalizedKeyByKey DEF ValueTypes, IsConfig
<1> SUFFICES Normal(n)
  OBVIOUS
<1> HIDE DEF n
<1>2. /\ c["allowed_roots"] \in Seq(PathName) /\ c["allowed_commands"] \in Seq(PathName)
      /\ c["docker_paths"] \in Seq(PathName)
  BY DEF ValueTypes
<1>3. /\ docker \in Seq(PathName)
      /\ \E i \in DOMAIN docker : docker[i] = BuiltinDocker[1]
      /\ \E i \in DOMAIN docker : docker[i] = BuiltinDocker[2]
  <2>1. BuiltinDocker \in Seq(PathName) /\ Len(BuiltinDocker) = 2
    BY DEF BuiltinDocker, PathName
  <2> DEFINE d == c["docker_paths"]
             b == BuiltinDocker
  <2>2. d \in Seq(PathName) /\ b \in Seq(PathName) /\ Len(b) = 2
    BY <1>2, <2>1
  <2> HIDE DEF d, b
  <2>3. /\ d \o b \in Seq(PathName)
        /\ Len(d) + 1 \in DOMAIN (d \o b) /\ (d \o b)[Len(d) + 1] = b[1]
        /\ Len(d) + 2 \in DOMAIN (d \o b) /\ (d \o b)[Len(d) + 2] = b[2]
    BY <2>2, TwoAppended
  <2> QED
    BY <2>3 DEF d, b
<1> HIDE DEF docker
<1>4. Canonical(cleanPaths(c["allowed_roots"])) /\ Canonical(cleanPaths(c["allowed_commands"]))
  BY <1>2, CleanPathsCanonical
<1>5. Canonical(cleanPaths(docker)) /\ Range(BuiltinDocker) \subseteq Range(cleanPaths(docker))
  <2>1. /\ absolute(clean(BuiltinDocker[1])) /\ clean(BuiltinDocker[1]) = BuiltinDocker[1]
        /\ absolute(clean(BuiltinDocker[2])) /\ clean(BuiltinDocker[2]) = BuiltinDocker[2]
    BY DEF BuiltinDocker, absolute, clean
  <2>2. Range(BuiltinDocker) = {BuiltinDocker[1], BuiltinDocker[2]}
    BY DEF Range, BuiltinDocker
  <2> QED
    BY <1>3, <2>1, <2>2, CleanPathsCanonical
<1>6. /\ n["allowed_commands"] = cleanPaths(c["allowed_commands"])
      /\ n["docker_paths"] = cleanPaths(docker)
      /\ n["profile"] = orDefault(c, "profile", "")
  BY <1>1 DEF KeyByKey, docker, Texts
<1>7. \A k \in Texts : n[k] # ""
  BY <1>1, DefaultTypes DEF KeyByKey, orDefault
<1>8. \A k \in Numbers : n[k] # 0
  BY <1>1, DefaultTypes DEF KeyByKey, orDefault
<1>9. n["audit.redact"] \in {"true", "false"}
  BY <1>1 DEF KeyByKey, ValueTypes
<1>10. \A k \in {"allow_any_command", "allow_shell"} : n[k] \in BOOLEAN
  BY <1>1 DEF KeyByKey, ValueTypes
<1>11. CASE Trusted(c)
  <2>1. /\ n["profile"] = "full_trust" /\ n["allowed_roots"] = <<"/">>
        /\ n["allow_any_command"] /\ n["allow_shell"]
    BY <1>1, <1>6, <1>11 DEF KeyByKey, Trusted
  <2>2. <<"/">> \in Seq(PathName)
    BY DEF PathName
  <2>3. ValueTypes(n)
    BY <1>1, <1>4, <1>5, <1>6, <1>9, <1>10, <2>1, <2>2
       DEF ValueTypes, Canonical, KeyByKey, IsConfig
  <2>4. Canonical(n["allowed_commands"]) /\ Canonical(n["docker_paths"])
    BY <1>4, <1>5, <1>6
  <2>5. Range(BuiltinDocker) \subseteq Range(n["docker_paths"])
    BY <1>5, <1>6
  <2>6. n["audit.redact"] # "nil"
    BY <1>9
  <2>7. n["allowed_roots"] = Trust.allowed_roots
    BY <2>1 DEF Trust
  <2>8. n["profile"] = "full_trust" =>
            n["allowed_roots"] = Trust.allowed_roots /\ n["allow_any_command"] /\ n["allow_shell"]
    BY <2>1, <2>7
  <2>9. n["profile"] # "full_trust" => Canonical(n["allowed_roots"])
    BY <2>1
  <2> QED
    BY <1>7, <1>8, <2>3, <2>4, <2>5, <2>6, <2>8, <2>9, Zenon DEF Normal
<1>12. CASE ~ Trusted(c)
  <2>1. /\ n["profile"] # "full_trust"
        /\ n["allowed_roots"] = cleanPaths(c["allowed_roots"])
    BY <1>1, <1>6, <1>12 DEF KeyByKey, Trusted
  <2>2. ValueTypes(n)
    BY <1>1, <1>4, <1>5, <1>6, <1>9, <1>10, <2>1
       DEF ValueTypes, Canonical, KeyByKey, IsConfig
  <2>3. /\ Canonical(n["allowed_roots"]) /\ Canonical(n["allowed_commands"])
        /\ Canonical(n["docker_paths"])
    BY <1>4, <1>5, <1>6, <2>1
  <2>4. Range(BuiltinDocker) \subseteq Range(n["docker_paths"])
    BY <1>5, <1>6
  <2>5. n["audit.redact"] # "nil"
    BY <1>9
  <2> QED
    BY <1>7, <1>8, <2>1, <2>2, <2>3, <2>4, <2>5, Zenon DEF Normal
<1> QED
  BY <1>11, <1>12

(* Normalize leaves its own normal form alone: it is idempotent.           *)
LEMMA NormalIsFixed ==
    ASSUME NEW c, Normal(c)
    PROVE  normalized(c) = c
<1> DEFINE n == normalized(c)
<1>1. IsConfig(c) /\ KeyByKey(c, n)
  BY NormalizedKeyByKey DEF Normal, ValueTypes, IsConfig
<1> HIDE DEF n
<1>2. \A k \in Texts : n[k] = c[k]
  BY <1>1 DEF Normal, KeyByKey, orDefault
<1>3. \A k \in Numbers : n[k] = c[k]
  BY <1>1 DEF Normal, KeyByKey, orDefault
<1>4. \A k \in Kept : n[k] = c[k]
  BY <1>1 DEF KeyByKey
<1>5. Trusted(c) <=> c["profile"] = "full_trust"
  BY DEF Normal, Trusted, orDefault, Texts
<1>6. n["allowed_roots"] = c["allowed_roots"]
  <2>1. CASE Trusted(c)
    BY <1>1, <1>5, <2>1 DEF KeyByKey, Normal, Trust
  <2>2. CASE ~ Trusted(c)
    BY <1>1, <1>5, <2>2, CleanPathsIdempotent DEF KeyByKey, Normal
  <2> QED BY <2>1, <2>2
<1>7. n["allowed_commands"] = c["allowed_commands"]
  BY <1>1, CleanPathsIdempotent DEF KeyByKey, Normal
<1>8. n["allow_any_command"] = c["allow_any_command"] /\ n["allow_shell"] = c["allow_shell"]
  BY <1>1, <1>5 DEF KeyByKey, Normal, ValueTypes
<1>9. n["audit.redact"] = c["audit.redact"]
  BY <1>1 DEF KeyByKey, Normal
<1>10. n["docker_paths"] = c["docker_paths"]
  <2> DEFINE d == c["docker_paths"]
             b == BuiltinDocker
  <2>1. b \in Seq(PathName) /\ \A i \in DOMAIN b : clean(b[i]) = b[i]
    BY DEF BuiltinDocker, PathName, clean
  <2>2. Canonical(d) /\ \A i \in DOMAIN b : b[i] \in Range(d)
    BY DEF Normal, Range
  <2> HIDE DEF d, b
  <2>3. cleanPaths(d \o b) = d
    BY <2>1, <2>2, CleanPathsFixed
  <2> QED
    BY <1>1, <2>3 DEF KeyByKey, d, b
<1>11. \A k \in Key : n[k] = c[k]
  BY <1>2, <1>3, <1>4, <1>6, <1>7, <1>8, <1>9, <1>10, KeysCovered
<1>12. n = c
  BY <1>1, <1>11 DEF IsConfig, KeyByKey
<1> QED
  BY <1>12 DEF n

-----------------------------------------------------------------------------
(* What a key's value must be for ValueTypes.                              *)
Typed(k, v) ==
    /\ k \in {"allow_any_command", "allow_shell"} => v \in BOOLEAN
    /\ k \in {"allowed_roots", "allowed_commands", "docker_paths"} => v \in Seq(PathName)
    /\ k = "audit.redact" => v \in {"nil", "true", "false"}

(* ValueTypes asks of every key what Typed says of its value.              *)
LEMMA TypedValues ==
    ASSUME NEW c
    PROVE  ValueTypes(c) <=> IsConfig(c) /\ \A k \in Key : Typed(k, c[k])
<1>1. {"allow_any_command", "allow_shell", "allowed_roots", "allowed_commands", "docker_paths",
       "audit.redact"} \subseteq Key
  BY DEF Key, PermissionKey, PlainKey
<1>2. ASSUME ValueTypes(c) PROVE IsConfig(c) /\ \A k \in Key : Typed(k, c[k])
  BY <1>2 DEF ValueTypes, IsConfig, Typed
<1>3. ASSUME IsConfig(c), \A k \in Key : Typed(k, c[k]) PROVE ValueTypes(c)
  BY <1>1, <1>3 DEF ValueTypes, IsConfig, Typed
<1> QED
  BY <1>2, <1>3

(* The values of an edit have the types of their keys.                     *)
LEMMA EditedTypes ==
    ASSUME NEW k \in Key, NEW v \in Values(k)
    PROVE  Typed(k, v)
<1>1. CASE k \in {"allow_any_command", "allow_shell"}
  BY <1>1 DEF Values, Typed
<1>2. CASE k = "allowed_roots"
  <2>1. v \in {<<>>, <<"">>, <<"share">>, <<"/share">>, <<"/share/", "/share">>, <<"/share", "/">>}
    BY <1>2 DEF Values
  <2>2. /\ <<>> \in Seq(PathName) /\ <<"">> \in Seq(PathName)
        /\ <<"share">> \in Seq(PathName) /\ <<"/share">> \in Seq(PathName)
        /\ <<"/share/", "/share">> \in Seq(PathName) /\ <<"/share", "/">> \in Seq(PathName)
    BY DEF PathName
  <2>3. v \in Seq(PathName)
    BY <2>1, <2>2, Zenon
  <2> QED BY <1>2, <2>3 DEF Typed
<1>3. CASE k = "allowed_commands"
  <2>1. v \in {<<>>, <<"/bin/ls">>, <<"ls">>}
    BY <1>3 DEF Values
  <2>2. /\ <<>> \in Seq(PathName) /\ <<"/bin/ls">> \in Seq(PathName)
        /\ <<"ls">> \in Seq(PathName)
    BY DEF PathName
  <2>3. v \in Seq(PathName)
    BY <2>1, <2>2, Zenon
  <2> QED BY <1>3, <2>3 DEF Typed
<1>4. CASE k = "docker_paths"
  <2>1. v \in {<<>>, <<"/opt/docker">>, <<"/usr/bin/docker", "/opt/docker">>}
    BY <1>4 DEF Values
  <2>2. /\ <<>> \in Seq(PathName) /\ <<"/opt/docker">> \in Seq(PathName)
        /\ <<"/usr/bin/docker", "/opt/docker">> \in Seq(PathName)
    BY DEF PathName
  <2>3. v \in Seq(PathName)
    BY <2>1, <2>2, Zenon
  <2> QED BY <1>4, <2>3 DEF Typed
<1>5. CASE k = "audit.redact"
  BY <1>5 DEF Values, Typed
<1>6. CASE k \notin {"allow_any_command", "allow_shell", "allowed_roots", "allowed_commands",
                     "docker_paths", "audit.redact"}
  BY <1>6 DEF Typed
<1> QED
  BY <1>1, <1>2, <1>3, <1>4, <1>5, <1>6

(* A file of the current or the second format, laid over the defaults, is  *)
(* a configuration; what the file says of the profile and whether it says  *)
(* so is all that decides the profile.                                     *)
LEMMA OverlayTypes ==
    ASSUME NEW f, ValueTypes(f.val)
    PROVE  /\ ValueTypes(overlay(f))
           /\ overlay(f)["profile"] = IF "profile" \in f.has THEN f.val["profile"] ELSE "observe"
<1> DEFINE c == [k \in Key |-> IF k \in f.has THEN f.val[k] ELSE Defaults[k]]
           t == IF c["confirmation.ttl"] > 0 THEN c["confirmation.ttl"]
                ELSE Defaults["approval.ttl"]
           m == Defaults["approval.mode"]
           o == [c EXCEPT !["approval.mode"] = m, !["approval.ttl"] = t, !["audit.redact"] = "true"]
<1>1. \A k \in Key : Typed(k, f.val[k]) /\ Typed(k, Defaults[k])
  BY TypedValues, DefaultTypes
<1>2. /\ c = [k \in Key |-> c[k]]
      /\ \A k \in Key : c[k] = IF k \in f.has THEN f.val[k] ELSE Defaults[k]
  OBVIOUS
<1>3. overlay(f) = IF "approval" \in f.has THEN c ELSE o
  BY DEF overlay
<1>4. {"profile", "approval.mode", "approval.ttl", "audit.redact"} \subseteq Key
  BY DEF Key, PlainKey, ApprovalKey
<1> HIDE DEF c, t, m
<1>5. /\ o = [k \in Key |-> o[k]]
      /\ o["profile"] = c["profile"]
      /\ \A k \in Key : o[k] = CASE k = "approval.mode" -> m [] k = "approval.ttl" -> t
                                 [] k = "audit.redact" -> "true" [] OTHER -> c[k]
  BY <1>2, <1>4
<1> HIDE DEF o
<1>6. ValueTypes(c)
  BY <1>1, <1>2, TypedValues DEF IsConfig
<1>7. ASSUME NEW k \in Key PROVE Typed(k, o[k])
  BY <1>5, <1>6, TypedValues DEF Typed
<1>8. ValueTypes(o)
  BY <1>5, <1>7, TypedValues DEF IsConfig
<1> QED
  BY <1>2, <1>3, <1>4, <1>5, <1>6, <1>8, DefaultTypes

(* A file of the first format becomes a configuration with its own token.  *)
LEMMA LegacyTypes ==
    ASSUME NEW f, ValueTypes(f.val)
    PROVE  ValueTypes(migrateLegacy(f)) /\ migrateLegacy(f)["auth.token"] = f.oldToken
<1> DEFINE c == FullTrust(f.oldToken)
           keep(k, empty) == IF k \in f.has /\ f.val[k] # empty THEN f.val[k] ELSE c[k]
           a1 == keep("listen", "")
           a2 == keep("audit.path", "")
           a3 == keep("limits", 0)
           a4 == keep("docker_paths", <<>>)
           m == [c EXCEPT !["listen"] = a1, !["audit.path"] = a2, !["limits"] = a3,
                          !["docker_paths"] = a4]
<1>1. \A k \in Key : Typed(k, f.val[k]) /\ Typed(k, Defaults[k])
  BY TypedValues, DefaultTypes
<1>2. migrateLegacy(f) = m
  BY DEF migrateLegacy
<1>3. /\ c = [k \in Key |-> c[k]] /\ c["auth.token"] = f.oldToken
      /\ c["allowed_roots"] = <<"/">> /\ c["allow_any_command"] = TRUE /\ c["allow_shell"] = TRUE
      /\ \A k \in Key \ {"listen", "profile", "auth.token", "allowed_roots", "allow_any_command",
                         "allow_shell"} : c[k] = Defaults[k]
  <2> DEFINE d == Defaults
  <2>1. Defaults = [k \in Key |-> Defaults[k]]
    BY DefaultTypes DEF ValueTypes
  <2>2. {"listen", "profile", "auth.token", "allowed_roots", "allow_any_command",
         "allow_shell"} \subseteq Key
    BY DEF Key, PlainKey, PermissionKey
  <2>3. c = [d EXCEPT !["listen"] = "0.0.0.0", !["profile"] = "full_trust",
                      !["auth.token"] = f.oldToken, !["allowed_roots"] = <<"/">>,
                      !["allow_any_command"] = TRUE, !["allow_shell"] = TRUE]
    BY DEF FullTrust, Trust
  <2>4. d = [k \in Key |-> d[k]]
    BY <2>1
  <2> HIDE DEF d, c
  <2>5. /\ c = [k \in Key |-> c[k]] /\ c["auth.token"] = f.oldToken
        /\ c["allowed_roots"] = <<"/">> /\ c["allow_any_command"] = TRUE /\ c["allow_shell"] = TRUE
        /\ \A k \in Key \ {"listen", "profile", "auth.token", "allowed_roots",
                           "allow_any_command", "allow_shell"} : c[k] = d[k]
    BY <2>2, <2>3, <2>4
  <2> QED
    BY <2>5 DEF d
<1> HIDE DEF c
<1>4. \A k \in Key : Typed(k, c[k])
  <2>1. <<"/">> \in Seq(PathName)
    BY DEF PathName
  <2>2. ASSUME NEW k \in {"listen", "profile", "auth.token", "allowed_roots",
                          "allow_any_command", "allow_shell"}
        PROVE  Typed(k, c[k])
    BY <1>3, <2>1 DEF Typed
  <2> QED
    BY <1>1, <1>3, <2>2
<1>5. {"listen", "audit.path", "limits", "docker_paths", "auth.token"} \subseteq Key
  BY DEF Key, PlainKey
<1>6. Typed("docker_paths", a4)
  BY <1>1, <1>4, <1>5
<1> HIDE DEF a1, a2, a3, a4
<1>7. /\ m = [k \in Key |-> m[k]]
      /\ m["auth.token"] = c["auth.token"]
      /\ \A k \in Key : m[k] = CASE k = "listen" -> a1 [] k = "audit.path" -> a2
                                 [] k = "limits" -> a3
                                 [] k = "docker_paths" -> a4 [] OTHER -> c[k]
  BY <1>3, <1>5
<1> HIDE DEF m
<1>8. ASSUME NEW k \in Key PROVE Typed(k, m[k])
  BY <1>4, <1>6, <1>7 DEF Typed
<1>9. ValueTypes(m)
  BY <1>7, <1>8, TypedValues DEF IsConfig
<1> QED
  BY <1>2, <1>3, <1>7, <1>9

-----------------------------------------------------------------------------
(* What Load makes of any file is normal; full trust comes from the        *)
(* profile the file names, or from a file of the first format.             *)
LEMMA ParsedIsNormal ==
    ASSUME NEW f, ValueTypes(f.val)
    PROVE  /\ Normal(Parsed(f))
           /\ Parsed(f)["profile"] = "full_trust" /\ Loads(f) =>
                  f.oldToken # "" \/ ("profile" \in f.has /\ f.val["profile"] = "full_trust")
<1> DEFINE c == IF "permissions" \in f.has THEN overlay(f) ELSE migrateLegacy(f)
           n == normalized(c)
<1>1. ValueTypes(c)
  BY OverlayTypes, LegacyTypes
<1>2. /\ "permissions" \in f.has =>
             c["profile"] = IF "profile" \in f.has THEN f.val["profile"] ELSE "observe"
      /\ "permissions" \notin f.has => c["auth.token"] = f.oldToken
  BY OverlayTypes, LegacyTypes
<1>3. Parsed(f) = n
  BY DEF Parsed
<1> HIDE DEF c
<1>4. Normal(n)
  BY <1>1, NormalizedIsNormal
<1>5. KeyByKey(c, n)
  BY <1>1, NormalizedKeyByKey DEF ValueTypes, IsConfig
<1> HIDE DEF n
<1>6. n["profile"] = IF c["profile"] = "" THEN "observe" ELSE c["profile"]
  BY <1>5, DefaultTypes DEF KeyByKey, orDefault, Texts
<1>7. n["auth.token"] = c["auth.token"]
  BY <1>5 DEF KeyByKey, Kept
<1>8. Loads(f) => n["auth.token"] # ""
  BY <1>3 DEF Loads, accepted
<1> QED
  BY <1>2, <1>3, <1>4, <1>6, <1>7, <1>8

(* An installation of any of the three formats has typed values.           *)
LEMMA InitConfig == Init => ConfigInv
<1> SUFFICES ASSUME Init PROVE ConfigInv
  OBVIOUS
<1>1. PICK format \in 1 .. 3, token \in Hash : file = Installed(format, token)
  BY DEF Init
<1> DEFINE t == IF format = 1 THEN "" ELSE token
           v == [Defaults EXCEPT !["auth.token"] = t]
<1>2. file = [has |-> file.has, val |-> file.val, oldToken |-> file.oldToken] /\ file.val = v
  BY <1>1 DEF Installed
<1> HIDE DEF t
<1>3. /\ v = [k \in Key |-> v[k]]
      /\ \A k \in Key : k # "auth.token" => v[k] = Defaults[k]
  BY DefaultTypes DEF ValueTypes
<1> HIDE DEF v
<1>4. ASSUME NEW k \in Key PROVE Typed(k, v[k])
  BY <1>3, DefaultTypes, TypedValues DEF Typed
<1>5. ValueTypes(v)
  BY <1>3, <1>4, TypedValues DEF IsConfig
<1>6. ~ running
  BY DEF Init
<1> QED
  BY <1>2, <1>5, <1>6 DEF ConfigInv, RestartKeepsPolicy

(* A new token leaves a normal and accepted configuration so.              *)
LEMMA TokenKeepsNormal ==
    ASSUME NEW c, Normal(c), accepted(c), NEW token \in Hash
    PROVE  /\ Normal([c EXCEPT !["auth.token"] = token])
           /\ accepted([c EXCEPT !["auth.token"] = token])
<1> DEFINE d == [c EXCEPT !["auth.token"] = token]
<1>1. c = [k \in Key |-> c[k]] /\ "auth.token" \in Key
  BY DEF Normal, ValueTypes, Key, PlainKey
<1>2. /\ d = [k \in Key |-> d[k]]
      /\ d["auth.token"] = token
      /\ \A k \in Key : k # "auth.token" => d[k] = c[k]
  BY <1>1
<1> SUFFICES Normal(d) /\ accepted(d)
  OBVIOUS
<1> HIDE DEF d
<1>3. /\ \A k \in Texts \cup Numbers : d[k] = c[k]
      /\ d["allowed_roots"] = c["allowed_roots"] /\ d["allowed_commands"] = c["allowed_commands"]
      /\ d["docker_paths"] = c["docker_paths"] /\ d["audit.redact"] = c["audit.redact"]
      /\ d["allow_any_command"] = c["allow_any_command"] /\ d["allow_shell"] = c["allow_shell"]
      /\ d["supplement_read_only"] = c["supplement_read_only"] /\ d["adapters"] = c["adapters"]
      /\ d["audit.enabled"] = c["audit.enabled"] /\ d["privacy.redact"] = c["privacy.redact"]
  BY <1>2, KeysCovered DEF Texts, Numbers, Kept
<1>4. /\ d["profile"] = c["profile"] /\ d["auth.type"] = c["auth.type"]
      /\ d["confirmation.mode"] = c["confirmation.mode"] /\ d["approval.mode"] = c["approval.mode"]
      /\ d["journal_path"] = c["journal_path"]
  BY <1>3 DEF Texts
<1>5. ValueTypes(d)
  BY <1>2, <1>3 DEF Normal, ValueTypes
<1>6. Normal(d)
  BY <1>3, <1>4, <1>5 DEF Normal
<1>7. accepted(d)
  BY <1>2, <1>3, <1>4, ConfigAssumption DEF accepted, supplementAllowed
<1> QED
  BY <1>6, <1>7

(* Every step keeps what the properties follow from.                       *)
LEMMA ConfigStep == ConfigInv /\ [Next]_vars => ConfigInv'
<1> SUFFICES ASSUME ConfigInv, [Next]_vars PROVE ConfigInv'
  OBVIOUS
<1>1. CASE Start
  <2>1. file' = file /\ cfg' = Parsed(file) /\ Loads(file)
    BY <1>1 DEF Start
  <2>2. ValueTypes(file.val)
    BY DEF ConfigInv
  <2>3. Normal(cfg') /\ accepted(cfg')
    BY <2>1, <2>2, ParsedIsNormal DEF Loads
  <2>4. Loads(file') /\ Parsed(file') = cfg'
    BY <2>1
  <2> QED
    BY <2>1, <2>3, <2>4 DEF ConfigInv, RestartKeepsPolicy
<1>2. CASE Stop
  BY <1>2 DEF Stop, ConfigInv, RestartKeepsPolicy
<1>3. CASE SaveAtomic
  <2>1. PICK token \in Hash :
            /\ running
            /\ cfg' = [cfg EXCEPT !["auth.token"] = token]
            /\ file' = [has |-> Key \cup {"permissions", "approval"}, val |-> cfg', oldToken |-> ""]
    BY <1>3 DEF SaveAtomic
  <2>2. Normal(cfg') /\ accepted(cfg')
    BY <2>1, TokenKeepsNormal DEF ConfigInv
  <2>3. /\ file'.has = Key \cup {"permissions", "approval"}
        /\ file'.val = cfg' /\ cfg' = [k \in Key |-> cfg'[k]]
    BY <2>1, <2>2 DEF Normal, ValueTypes
  <2>4. overlay(file') = cfg'
    BY <2>3 DEF overlay
  <2>5. Parsed(file') = normalized(cfg')
    BY <2>3, <2>4 DEF Parsed
  <2>6. Parsed(file') = cfg'
    BY <2>2, <2>5, NormalIsFixed
  <2>7. Loads(file')
    BY <2>2, <2>6 DEF Loads
  <2>8. /\ file' = [has |-> file'.has, val |-> file'.val, oldToken |-> file'.oldToken]
        /\ ValueTypes(file'.val)
    BY <2>1, <2>2, <2>3 DEF Normal
  <2> QED
    BY <2>2, <2>6, <2>7, <2>8 DEF ConfigInv, RestartKeepsPolicy
<1>4. CASE EditSet
  <2>1. PICK k \in Key : \E v \in Values(k) :
            EditTo([file EXCEPT !.has = @ \cup {k} \cup Section(k), !.val[k] = v])
    BY <1>4 DEF EditSet
  <2>2. PICK v \in Values(k) :
            EditTo([file EXCEPT !.has = @ \cup {k} \cup Section(k), !.val[k] = v])
    BY <2>1
  <2> DEFINE w == [file.val EXCEPT ![k] = v]
  <2>3. /\ file' = [has |-> file'.has, val |-> file'.val, oldToken |-> file'.oldToken]
        /\ file'.val = w
        /\ edited' = TRUE /\ cfg' = cfg /\ running' = running
    BY <2>2 DEF EditTo, ConfigInv
  <2>4. IsConfig(file.val) /\ \A l \in Key : Typed(l, file.val[l])
    BY TypedValues DEF ConfigInv
  <2>5. w = [l \in Key |-> w[l]] /\ \A l \in Key : w[l] = IF l = k THEN v ELSE file.val[l]
    BY <2>4 DEF IsConfig
  <2> HIDE DEF w
  <2>6. ASSUME NEW l \in Key PROVE Typed(l, w[l])
    BY <2>4, <2>5, EditedTypes
  <2>7. ValueTypes(w)
    BY <2>5, <2>6, TypedValues DEF IsConfig
  <2> QED
    BY <2>3, <2>7 DEF ConfigInv, RestartKeepsPolicy
<1>5. CASE EditRemove
  <2>1. PICK K : EditTo([file EXCEPT !.has = @ \ K,
                             !.val = [k \in Key |-> IF k \in K THEN Defaults[k] ELSE @[k]]])
    BY <1>5 DEF EditRemove
  <2> DEFINE w == [k \in Key |-> IF k \in K THEN Defaults[k] ELSE file.val[k]]
  <2>2. /\ file' = [has |-> file'.has, val |-> file'.val, oldToken |-> file'.oldToken]
        /\ file'.val = w
        /\ edited' = TRUE /\ cfg' = cfg /\ running' = running
    BY <2>1 DEF EditTo, ConfigInv
  <2>3. /\ \A k \in Key : Typed(k, file.val[k])
        /\ \A k \in Key : Typed(k, Defaults[k])
    BY TypedValues, DefaultTypes DEF ConfigInv
  <2>4. w = [k \in Key |-> w[k]]
        /\ \A k \in Key : w[k] = IF k \in K THEN Defaults[k] ELSE file.val[k]
    OBVIOUS
  <2> HIDE DEF w
  <2>5. ASSUME NEW k \in Key PROVE Typed(k, w[k])
    BY <2>3, <2>4
  <2>6. ValueTypes(w)
    BY <2>4, <2>5, TypedValues DEF IsConfig
  <2> QED
    BY <2>2, <2>6 DEF ConfigInv, RestartKeepsPolicy
<1>6. CASE UNCHANGED vars
  BY <1>6 DEF vars, ConfigInv, RestartKeepsPolicy
<1> QED
  BY <1>1, <1>2, <1>3, <1>4, <1>5, <1>6 DEF Next

(* The inductive invariant of the configuration file.                      *)
LEMMA ConfigInductive == Spec => []ConfigInv
BY InitConfig, ConfigStep, PTL DEF Spec

(* A restart without an edit brings back the configuration that ran, for   *)
(* any tokens, any number of edits and rotations and every old format.     *)
THEOREM RestartsKeepPolicy == Spec => []RestartKeepsPolicy
<1>1. ConfigInv => RestartKeepsPolicy
  BY DEF ConfigInv
<1> QED
  BY <1>1, ConfigInductive, PTL

(* Full trust is never the result of what a file leaves out.               *)
THEOREM FullTrustIsExplicit == Spec => []TrustIsExplicit
<1>1. ConfigInv => TrustIsExplicit
  BY ParsedIsNormal DEF ConfigInv, RestartKeepsPolicy, TrustIsExplicit
<1> QED
  BY <1>1, ConfigInductive, PTL

(* What runs as a read-only supplement can neither run commands nor leave  *)
(* its roots nor write a secret.                                           *)
THEOREM SupplementsStayReadOnly == Spec => []SupplementStaysReadOnly
<1>1. ConfigInv => SupplementStaysReadOnly
  <2> SUFFICES ASSUME ConfigInv, running, cfg["supplement_read_only"]
               PROVE  /\ ~cfg["allow_shell"] /\ ~cfg["allow_any_command"]
                      /\ cfg["allowed_commands"] = <<>> /\ cfg["profile"] # "full_trust"
                      /\ \A i \in DOMAIN cfg["allowed_roots"] : cfg["allowed_roots"][i] # "/"
                      /\ cfg["audit.redact"] = "true" /\ cfg["privacy.redact"]
    BY DEF SupplementStaysReadOnly
  <2>1. Normal(cfg) /\ accepted(cfg)
    BY DEF ConfigInv
  <2>2. supplementAllowed(cfg)
    BY <2>1 DEF accepted
  <2>3. cfg["audit.redact"] \in {"true", "false"}
    BY <2>1 DEF Normal, ValueTypes
  <2>4. \A i \in DOMAIN cfg["allowed_roots"] : cfg["allowed_roots"][i] # "/"
    BY <2>2 DEF supplementAllowed, Range
  <2> QED
    BY <2>2, <2>3, <2>4 DEF supplementAllowed
<1> QED
  BY <1>1, ConfigInductive, PTL

=============================================================================
