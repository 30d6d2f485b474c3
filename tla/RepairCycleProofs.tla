-------------------------- MODULE RepairCycleProofs --------------------------
(***************************************************************************)
(* Proofs about RepairCycle, for every program of any length, every seed   *)
(* that is a file tree, every set of calls and ends, and every budget.     *)
(*                                                                         *)
(* Folds and recursive choices are handled by induction over the natural   *)
(* numbers (SetInduction): a fold over a sequence has intermediate         *)
(* results, each one step from the one before. From there: which claims an *)
(* event makes, which requirements a report has, what the plan makes       *)
(* without review, where a path walk arrives.                              *)
(*                                                                         *)
(* NeedInv: events are where the program has its calls, the plan is made   *)
(* from the artifacts of this attempt, and the environment has grown by    *)
(* need. HealthInv: what a repair added are whole paths of directories,    *)
(* and the guest's tree keeps them until it removes one. RunInv: an        *)
(* attempt is a function of program and environment, so that an attempt in *)
(* an unchanged environment repeats the observation before it. CountInv:   *)
(* every attempt in a changed environment has settled one more of the      *)
(* guest's creating calls.                                                 *)
(***************************************************************************)
EXTENDS RepairCycle, FiniteSetTheorems, WellFoundedInduction, TLAPS

-----------------------------------------------------------------------------
(* Induction and folds                                                     *)

\* Induction over the natural numbers, for a set: a smallest number outside of it
\* would have a predecessor inside.
LEMMA SetInduction ==
  ASSUME NEW T, 0 \in T, \A n \in Nat : n \in T => n + 1 \in T
  PROVE  \A n \in Nat : n \in T
<1> DEFINE Out == Nat \ T
           Less == OpToRel(<, Nat)
<1>1. SUFFICES ASSUME Out # {} PROVE FALSE
  OBVIOUS
<1>2. Out \subseteq Nat
  OBVIOUS
<1>3. IsWellFoundedOn(Less, Nat)
  BY NatLessThanWellFounded
<1>4. \A x \in Nat, y \in Nat : x < y => <<x, y>> \in Less
  BY DEF OpToRel
<1> HIDE DEF Less
<1>5. PICK x \in Out : \A y \in Out : ~(<<y, x>> \in Less)
  <2> HIDE DEF Out
  <2> QED BY <1>1, <1>2, <1>3, WFMin
<1>6. x # 0 /\ x \in Nat
  OBVIOUS
<1>7. x - 1 \in Nat /\ x - 1 < x /\ (x - 1) + 1 = x
  BY <1>6
<1>8. x - 1 \in T
  BY <1>4, <1>5, <1>6, <1>7
<1> QED BY <1>6, <1>7, <1>8

\* The fold from the left takes the greatest index first.
LEMMA MaxIsLast ==
  ASSUME NEW n \in Nat, NEW s \in SUBSET (1 .. n), n \in s
  PROVE  Max(s) = n
<1>1. \A y \in s : n >= y /\ y \in Nat
  OBVIOUS
<1>2. Max(s) \in s /\ \A y \in s : Max(s) >= y
  BY <1>1 DEF Max
<1>3. Max(s) \in Nat /\ Max(s) >= n /\ n >= Max(s)
  BY <1>1, <1>2
<1> QED BY <1>3

\* The requirements of a report are made one call of _add after the other.
LEMMA ExtractFold ==
  ASSUME NEW S, NEW cs, cs \in Seq(S)
  PROVE  \E f : /\ f[0] = [k \in {} |-> {}]
                /\ \A n \in 1 .. Len(cs) : f[n] = Add(f[n - 1], cs[n])
                /\ FoldLeft(Add, [k \in {} |-> {}], cs) = f[Len(cs)]
<1> DEFINE Base == [k \in {} |-> {}]
           Iter(i, m) == i = [s \in SUBSET (1 .. m) |->
                                IF s = {} THEN Base ELSE Add(i[s \ {Max(s)}], cs[Max(s)])]
           Good == {m \in Nat : \E i : Iter(i, m)}
<1>1. 0 \in Good
  <2> DEFINE i == [s \in SUBSET (1 .. 0) |-> Base]
  <2>1. \A s \in SUBSET (1 .. 0) : s = {}
    OBVIOUS
  <2>2. Iter(i, 0)
    BY <2>1
  <2> QED BY <2>2
<1>2. ASSUME NEW m \in Nat, m \in Good PROVE m + 1 \in Good
  <2>1. PICK i : Iter(i, m)
    BY <1>2
  <2> DEFINE j == [s \in SUBSET (1 .. m + 1) |->
                     IF m + 1 \in s THEN Add(i[s \ {m + 1}], cs[m + 1]) ELSE i[s]]
  <2>2. ASSUME NEW s \in SUBSET (1 .. m + 1)
        PROVE  j[s] = IF s = {} THEN Base ELSE Add(j[s \ {Max(s)}], cs[Max(s)])
    <3>1. CASE m + 1 \in s
      <4>1. Max(s) = m + 1
        BY <3>1, MaxIsLast
      <4>2. s \ {m + 1} \in SUBSET (1 .. m + 1) /\ m + 1 \notin s \ {m + 1}
        OBVIOUS
      <4> QED BY <3>1, <4>1, <4>2
    <3>2. CASE m + 1 \notin s
      <4>1. s \in SUBSET (1 .. m)
        BY <3>2
      <4>2. s \ {Max(s)} \in SUBSET (1 .. m + 1) /\ m + 1 \notin s \ {Max(s)}
        BY <3>2
      <4>3. j[s] = i[s] /\ j[s \ {Max(s)}] = i[s \ {Max(s)}]
        BY <3>2, <4>2
      <4>4. i[s] = IF s = {} THEN Base ELSE Add(i[s \ {Max(s)}], cs[Max(s)])
        BY <2>1, <4>1
      <4> QED BY <4>3, <4>4
    <3> QED BY <3>1, <3>2
  <2>3. j = [s \in SUBSET (1 .. m + 1) |-> j[s]]
    OBVIOUS
  <2> HIDE DEF j
  <2>4. Iter(j, m + 1)
    BY <2>2, <2>3
  <2>5. m + 1 \in Nat
    OBVIOUS
  <2> HIDE DEF Iter
  <2> QED BY <2>4, <2>5
<1>3. Len(cs) \in Good
  <2> HIDE DEF Good
  <2> QED BY <1>1, <1>2, SetInduction
<1> DEFINE it == CHOOSE i : Iter(i, Len(cs))
<1>4. Iter(it, Len(cs))
  <2>1. \E i : Iter(i, Len(cs))
    BY <1>3
  <2> QED BY <2>1, Zenon
<1>5. FoldLeft(Add, [k \in {} |-> {}], cs) = it[1 .. Len(cs)]
  <2>1. DOMAIN cs = 1 .. Len(cs)
    OBVIOUS
  <2> QED BY <2>1, Zenon DEF FoldLeft, MapThenFoldSet
<1> HIDE DEF it
<1> DEFINE f == [n \in 0 .. Len(cs) |-> it[1 .. n]]
<1>6. f[0] = Base
  <2>1. 1 .. 0 = {} /\ {} \in SUBSET (1 .. Len(cs)) /\ 0 \in 0 .. Len(cs)
    OBVIOUS
  <2>2. it[{}] = Base
    BY <1>4, <2>1
  <2> HIDE DEF Base, Iter
  <2> QED BY <2>1, <2>2
<1>7. ASSUME NEW n \in 1 .. Len(cs) PROVE f[n] = Add(f[n - 1], cs[n])
  <2>1. Max(1 .. n) = n
    BY MaxIsLast
  <2>2. /\ (1 .. n) \ {n} = 1 .. n - 1 /\ n \in 1 .. n /\ 1 .. n \in SUBSET (1 .. Len(cs))
        /\ n \in 0 .. Len(cs) /\ n - 1 \in 0 .. Len(cs)
    <3>1. Len(cs) \in Nat /\ n \in Nat /\ 1 <= n /\ n <= Len(cs)
      OBVIOUS
    <3> HIDE DEF Base, Iter, f
    <3> QED BY <3>1
  <2>3. it[1 .. n] = Add(it[1 .. n - 1], cs[n])
    BY <1>4, <2>1, <2>2
  <2> QED BY <2>2, <2>3
<1>8. f[Len(cs)] = it[1 .. Len(cs)]
  OBVIOUS
<1> HIDE DEF f
<1> QED BY <1>5, <1>6, <1>7, <1>8

\* The events are looked at one after the other.
LEMMA SelectFold ==
  ASSUME NEW S, NEW es, es \in Seq(S)
  PROVE  \E f : /\ f[0] = <<>>
                /\ \A n \in 1 .. Len(es) : f[n] = (IF es[n].context = "guest" THEN Append(f[n - 1], es[n]) ELSE f[n - 1])
                /\ SelectSyscallEvents(es) = f[Len(es)]
<1> DEFINE Base == <<>>
           Iter(i, m) == i = [s \in SUBSET (1 .. m) |->
                                IF s = {} THEN Base ELSE (IF es[Max(s)].context = "guest" THEN Append(i[s \ {Max(s)}], es[Max(s)]) ELSE i[s \ {Max(s)}])]
           Good == {m \in Nat : \E i : Iter(i, m)}
<1>1. 0 \in Good
  <2> DEFINE i == [s \in SUBSET (1 .. 0) |-> Base]
  <2>1. \A s \in SUBSET (1 .. 0) : s = {}
    OBVIOUS
  <2>2. Iter(i, 0)
    BY <2>1
  <2> QED BY <2>2
<1>2. ASSUME NEW m \in Nat, m \in Good PROVE m + 1 \in Good
  <2>1. PICK i : Iter(i, m)
    BY <1>2
  <2> DEFINE j == [s \in SUBSET (1 .. m + 1) |->
                     IF m + 1 \in s THEN (IF es[m + 1].context = "guest" THEN Append(i[s \ {m + 1}], es[m + 1]) ELSE i[s \ {m + 1}]) ELSE i[s]]
  <2>2. ASSUME NEW s \in SUBSET (1 .. m + 1)
        PROVE  j[s] = IF s = {} THEN Base ELSE (IF es[Max(s)].context = "guest" THEN Append(j[s \ {Max(s)}], es[Max(s)]) ELSE j[s \ {Max(s)}])
    <3>1. CASE m + 1 \in s
      <4>1. Max(s) = m + 1
        BY <3>1, MaxIsLast
      <4>2. s \ {m + 1} \in SUBSET (1 .. m + 1) /\ m + 1 \notin s \ {m + 1}
        OBVIOUS
      <4> QED BY <3>1, <4>1, <4>2
    <3>2. CASE m + 1 \notin s
      <4>1. s \in SUBSET (1 .. m)
        BY <3>2
      <4>2. s \ {Max(s)} \in SUBSET (1 .. m + 1) /\ m + 1 \notin s \ {Max(s)}
        BY <3>2
      <4>3. j[s] = i[s] /\ j[s \ {Max(s)}] = i[s \ {Max(s)}]
        BY <3>2, <4>2
      <4>4. i[s] = IF s = {} THEN Base ELSE (IF es[Max(s)].context = "guest" THEN Append(i[s \ {Max(s)}], es[Max(s)]) ELSE i[s \ {Max(s)}])
        BY <2>1, <4>1
      <4> QED BY <4>3, <4>4
    <3> QED BY <3>1, <3>2
  <2>3. j = [s \in SUBSET (1 .. m + 1) |-> j[s]]
    OBVIOUS
  <2> HIDE DEF j
  <2>4. Iter(j, m + 1)
    BY <2>2, <2>3
  <2>5. m + 1 \in Nat
    OBVIOUS
  <2> HIDE DEF Iter
  <2> QED BY <2>4, <2>5
<1>3. Len(es) \in Good
  <2> HIDE DEF Good
  <2> QED BY <1>1, <1>2, SetInduction
<1> DEFINE it == CHOOSE i : Iter(i, Len(es))
<1>4. Iter(it, Len(es))
  <2>1. \E i : Iter(i, Len(es))
    BY <1>3
  <2> QED BY <2>1, Zenon
<1>5. SelectSyscallEvents(es) = it[1 .. Len(es)]
  <2>1. DOMAIN es = 1 .. Len(es)
    OBVIOUS
  <2> QED BY <2>1, Zenon DEF SelectSyscallEvents, FoldLeft, MapThenFoldSet
<1> HIDE DEF it
<1> DEFINE f == [n \in 0 .. Len(es) |-> it[1 .. n]]
<1>6. f[0] = Base
  <2>1. 1 .. 0 = {} /\ {} \in SUBSET (1 .. Len(es)) /\ 0 \in 0 .. Len(es)
    OBVIOUS
  <2>2. it[{}] = Base
    BY <1>4, <2>1
  <2> HIDE DEF Base, Iter
  <2> QED BY <2>1, <2>2
<1>7. ASSUME NEW n \in 1 .. Len(es) PROVE f[n] = (IF es[n].context = "guest" THEN Append(f[n - 1], es[n]) ELSE f[n - 1])
  <2>1. Max(1 .. n) = n
    BY MaxIsLast
  <2>2. /\ (1 .. n) \ {n} = 1 .. n - 1 /\ n \in 1 .. n /\ 1 .. n \in SUBSET (1 .. Len(es))
        /\ n \in 0 .. Len(es) /\ n - 1 \in 0 .. Len(es)
    <3>1. Len(es) \in Nat /\ n \in Nat /\ 1 <= n /\ n <= Len(es)
      OBVIOUS
    <3> HIDE DEF Base, Iter, f
    <3> QED BY <3>1
  <2>3. it[1 .. n] = (IF es[n].context = "guest" THEN Append(it[1 .. n - 1], es[n]) ELSE it[1 .. n - 1])
    BY <1>4, <2>1, <2>2
  <2> QED BY <2>2, <2>3
<1>8. f[Len(es)] = it[1 .. Len(es)]
  OBVIOUS
<1> HIDE DEF f
<1> QED BY <1>5, <1>6, <1>7, <1>8

\* A walk that has come so far, and a path walked one component after the other.
At(node) == [errno |-> "", node |-> node]

LEMMA WalkFold ==
  ASSUME NEW S, NEW t, NEW p, p.parts \in Seq(S)
  PROVE  \E f : /\ f[0] = At(<<>>)
                /\ \A n \in 1 .. Len(p.parts) : f[n] = WalkInto(t, f[n - 1], p.parts[n])
                /\ Walk(t, p) = f[Len(p.parts)]
<1> DEFINE Base == At(<<>>)
           Iter(i, m) == i = [s \in SUBSET (1 .. m) |->
                                IF s = {} THEN Base ELSE WalkInto(t, i[s \ {Max(s)}], p.parts[Max(s)])]
           Good == {m \in Nat : \E i : Iter(i, m)}
<1>1. 0 \in Good
  <2> DEFINE i == [s \in SUBSET (1 .. 0) |-> Base]
  <2>1. \A s \in SUBSET (1 .. 0) : s = {}
    OBVIOUS
  <2>2. Iter(i, 0)
    BY <2>1
  <2> QED BY <2>2
<1>2. ASSUME NEW m \in Nat, m \in Good PROVE m + 1 \in Good
  <2>1. PICK i : Iter(i, m)
    BY <1>2
  <2> DEFINE j == [s \in SUBSET (1 .. m + 1) |->
                     IF m + 1 \in s THEN WalkInto(t, i[s \ {m + 1}], p.parts[m + 1]) ELSE i[s]]
  <2>2. ASSUME NEW s \in SUBSET (1 .. m + 1)
        PROVE  j[s] = IF s = {} THEN Base ELSE WalkInto(t, j[s \ {Max(s)}], p.parts[Max(s)])
    <3>1. CASE m + 1 \in s
      <4>1. Max(s) = m + 1
        BY <3>1, MaxIsLast
      <4>2. s \ {m + 1} \in SUBSET (1 .. m + 1) /\ m + 1 \notin s \ {m + 1}
        OBVIOUS
      <4> QED BY <3>1, <4>1, <4>2
    <3>2. CASE m + 1 \notin s
      <4>1. s \in SUBSET (1 .. m)
        BY <3>2
      <4>2. s \ {Max(s)} \in SUBSET (1 .. m + 1) /\ m + 1 \notin s \ {Max(s)}
        BY <3>2
      <4>3. j[s] = i[s] /\ j[s \ {Max(s)}] = i[s \ {Max(s)}]
        BY <3>2, <4>2
      <4>4. i[s] = IF s = {} THEN Base ELSE WalkInto(t, i[s \ {Max(s)}], p.parts[Max(s)])
        BY <2>1, <4>1
      <4> QED BY <4>3, <4>4
    <3> QED BY <3>1, <3>2
  <2>3. j = [s \in SUBSET (1 .. m + 1) |-> j[s]]
    OBVIOUS
  <2> HIDE DEF j
  <2>4. Iter(j, m + 1)
    BY <2>2, <2>3
  <2>5. m + 1 \in Nat
    OBVIOUS
  <2> HIDE DEF Iter
  <2> QED BY <2>4, <2>5
<1>3. Len(p.parts) \in Good
  <2> HIDE DEF Good
  <2> QED BY <1>1, <1>2, SetInduction
<1> DEFINE it == CHOOSE i : Iter(i, Len(p.parts))
<1>4. Iter(it, Len(p.parts))
  <2>1. \E i : Iter(i, Len(p.parts))
    BY <1>3
  <2> QED BY <2>1, Zenon
<1>5. Walk(t, p) = it[1 .. Len(p.parts)]
  <2>1. DOMAIN p.parts = 1 .. Len(p.parts)
    OBVIOUS
  <2> QED BY <2>1, Zenon DEF Walk, FoldLeft, MapThenFoldSet, At
<1> HIDE DEF it
<1> DEFINE f == [n \in 0 .. Len(p.parts) |-> it[1 .. n]]
<1>6. f[0] = Base
  <2>1. 1 .. 0 = {} /\ {} \in SUBSET (1 .. Len(p.parts)) /\ 0 \in 0 .. Len(p.parts)
    OBVIOUS
  <2>2. it[{}] = Base
    BY <1>4, <2>1
  <2> HIDE DEF Base, Iter
  <2> QED BY <2>1, <2>2
<1>7. ASSUME NEW n \in 1 .. Len(p.parts) PROVE f[n] = WalkInto(t, f[n - 1], p.parts[n])
  <2>1. Max(1 .. n) = n
    BY MaxIsLast
  <2>2. /\ (1 .. n) \ {n} = 1 .. n - 1 /\ n \in 1 .. n /\ 1 .. n \in SUBSET (1 .. Len(p.parts))
        /\ n \in 0 .. Len(p.parts) /\ n - 1 \in 0 .. Len(p.parts)
    <3>1. Len(p.parts) \in Nat /\ n \in Nat /\ 1 <= n /\ n <= Len(p.parts)
      OBVIOUS
    <3> HIDE DEF Base, Iter, f
    <3> QED BY <3>1
  <2>3. it[1 .. n] = WalkInto(t, it[1 .. n - 1], p.parts[n])
    BY <1>4, <2>1, <2>2
  <2> QED BY <2>2, <2>3
<1>8. f[Len(p.parts)] = it[1 .. Len(p.parts)]
  OBVIOUS
<1> HIDE DEF f
<1> QED BY <1>5, <1>6, <1>7, <1>8

\* The elements of sequences put together.
LEMMA ToSetConcat ==
  ASSUME NEW S, NEW a \in Seq(S), NEW b \in Seq(S)
  PROVE  a \o b \in Seq(S) /\ ToSet(a \o b) = ToSet(a) \cup ToSet(b)
<1>1. a \o b \in Seq(S) /\ Len(a \o b) = Len(a) + Len(b)
  OBVIOUS
<1>2. \A i \in 1 .. Len(a) : (a \o b)[i] = a[i]
  OBVIOUS
<1>3. \A i \in 1 .. Len(b) : (a \o b)[Len(a) + i] = b[i]
  OBVIOUS
<1>4. DOMAIN (a \o b) = 1 .. Len(a) + Len(b) /\ DOMAIN a = 1 .. Len(a) /\ DOMAIN b = 1 .. Len(b)
  BY <1>1
<1>5. ASSUME NEW i \in 1 .. Len(a) + Len(b) PROVE (a \o b)[i] \in ToSet(a) \cup ToSet(b)
  <2>1. CASE i <= Len(a)
    BY <2>1, <1>2, <1>4 DEF ToSet
  <2>2. CASE i > Len(a)
    <3>1. i - Len(a) \in 1 .. Len(b) /\ Len(a) + (i - Len(a)) = i
      BY <2>2
    <3> QED BY <3>1, <1>3, <1>4 DEF ToSet
  <2> QED BY <2>1, <2>2
<1>6. ASSUME NEW i \in 1 .. Len(a) PROVE a[i] \in ToSet(a \o b)
  <2>1. i \in 1 .. Len(a) + Len(b)
    OBVIOUS
  <2> QED BY <2>1, <1>2, <1>4 DEF ToSet
<1>7. ASSUME NEW i \in 1 .. Len(b) PROVE b[i] \in ToSet(a \o b)
  <2>1. Len(a) + i \in 1 .. Len(a) + Len(b)
    OBVIOUS
  <2> QED BY <2>1, <1>3, <1>4 DEF ToSet
<1>8. ToSet(a \o b) \subseteq ToSet(a) \cup ToSet(b)
  BY <1>4, <1>5, Zenon DEF ToSet
<1>9. ToSet(a) \subseteq ToSet(a \o b) /\ ToSet(b) \subseteq ToSet(a \o b)
  BY <1>4, <1>6, <1>7, Zenon DEF ToSet
<1> QED BY <1>1, <1>8, <1>9

LEMMA ToSetAppend ==
  ASSUME NEW S, NEW a \in Seq(S), NEW x \in S
  PROVE  Append(a, x) \in Seq(S) /\ ToSet(Append(a, x)) = ToSet(a) \cup {x}
<1>1. Append(a, x) = a \o <<x>> /\ <<x>> \in Seq(S)
  OBVIOUS
<1>2. ToSet(<<x>>) = {x}
  BY DEF ToSet
<1>3. a \o <<x>> \in Seq(S) /\ ToSet(a \o <<x>>) = ToSet(a) \cup ToSet(<<x>>)
  BY <1>1, ToSetConcat
<1> QED BY <1>1, <1>2, <1>3

LEMMA ToSetEmpty == ToSet(<<>>) = {}
  BY DEF ToSet

\* A sequence of sequences, flattened, has the elements of its parts.
LEMMA FlattenElements ==
  ASSUME NEW S, NEW ss \in Seq(Seq(S))
  PROVE  /\ FlattenSeq(ss) \in Seq(S)
         /\ ToSet(FlattenSeq(ss)) = UNION {ToSet(ss[i]) : i \in 1 .. Len(ss)}
<1>0. CASE Len(ss) = 0
  <2>1. ss = <<>> /\ 1 .. Len(ss) = {} /\ FlattenSeq(ss) = ss
    BY <1>0 DEF FlattenSeq
  <2>2. {ToSet(ss[i]) : i \in {}} = {} /\ UNION {} = {} /\ <<>> \in Seq(S)
    OBVIOUS
  <2> QED BY <2>1, <2>2, ToSetEmpty
<1>1. CASE Len(ss) # 0
  <2> DEFINE Flat(f, m) == f = [i \in 1 .. m |-> IF i = 1 THEN ss[i] ELSE f[i - 1] \o ss[i]]
             Good == {m \in Nat : \E f : Flat(f, m)}
  <2>1. 0 \in Good
    <3> DEFINE f == [i \in 1 .. 0 |-> ss[i]]
    <3>1. Flat(f, 0)
      OBVIOUS
    <3> QED BY <3>1
  <2>2. ASSUME NEW m \in Nat, m \in Good PROVE m + 1 \in Good
    <3>1. PICK f : Flat(f, m)
      BY <2>2
    <3> DEFINE g == [i \in 1 .. m + 1 |-> IF i <= m THEN f[i] ELSE IF i = 1 THEN ss[i] ELSE f[m] \o ss[i]]
    <3>2. ASSUME NEW i \in 1 .. m + 1
          PROVE  g[i] = IF i = 1 THEN ss[i] ELSE g[i - 1] \o ss[i]
      <4>1. CASE i <= m
        <5>1. i \in 1 .. m /\ (i # 1 => i - 1 \in 1 .. m + 1 /\ i - 1 <= m)
          BY <4>1
        <5>2. f[i] = IF i = 1 THEN ss[i] ELSE f[i - 1] \o ss[i]
          BY <3>1, <5>1
        <5> QED BY <4>1, <5>1, <5>2
      <4>2. CASE i = m + 1
        BY <4>2
      <4> QED BY <4>1, <4>2
    <3>3. g = [i \in 1 .. m + 1 |-> g[i]]
      OBVIOUS
    <3> HIDE DEF g
    <3>4. Flat(g, m + 1)
      BY <3>2, <3>3
    <3>5. m + 1 \in Nat
      OBVIOUS
    <3> HIDE DEF Flat
    <3> QED BY <3>4, <3>5
  <2>3. Len(ss) \in Good
    <3> HIDE DEF Good
    <3> QED BY <2>1, <2>2, SetInduction
  <2> DEFINE fl == CHOOSE f : Flat(f, Len(ss))
  <2>4. Flat(fl, Len(ss))
    <3>1. \E f : Flat(f, Len(ss))
      BY <2>3
    <3> QED BY <3>1, Zenon
  <2>5. FlattenSeq(ss) = fl[Len(ss)]
    BY <1>1, Zenon DEF FlattenSeq
  <2> HIDE DEF fl
  <2> DEFINE Holds(i) == /\ fl[i] \in Seq(S)
                         /\ ToSet(fl[i]) = UNION {ToSet(ss[j]) : j \in 1 .. i}
             T == {i \in Nat : i < Len(ss) => Holds(i + 1)}
  <2>6. 0 \in T
    <3>1. fl[1] = ss[1] /\ ss[1] \in Seq(S)
      BY <1>1, <2>4
    <3>2. 1 .. 1 = {1}
      OBVIOUS
    <3>3. Holds(1)
      BY <3>1, <3>2
    <3> HIDE DEF Holds
    <3> QED BY <3>3
  <2>7. ASSUME NEW i \in Nat, i \in T PROVE i + 1 \in T
    <3>1. SUFFICES ASSUME i + 1 < Len(ss) PROVE Holds(i + 1 + 1)
      <4> HIDE DEF Holds
      <4> QED OBVIOUS
    <3>2. Holds(i + 1)
      <4> HIDE DEF Holds
      <4> QED BY <2>7, <3>1
    <3>3. i + 2 \in 1 .. Len(ss) /\ i + 1 + 1 = i + 2 /\ (i + 2) - 1 = i + 1 /\ i + 2 # 1
      BY <3>1
    <3>a. fl[i + 2] = IF i + 2 = 1 THEN ss[i + 2] ELSE fl[(i + 2) - 1] \o ss[i + 2]
      BY <2>4, <3>3
    <3>b. ss[i + 2] \in Seq(S)
      BY <3>3
    <3> HIDE DEF Holds, Good, Flat, T
    <3>4. fl[i + 2] = fl[i + 1] \o ss[i + 2] /\ ss[i + 2] \in Seq(S)
      BY <3>3, <3>a, <3>b
    <3> USE DEF Holds
    <3>5. fl[i + 2] \in Seq(S) /\ ToSet(fl[i + 2]) = ToSet(fl[i + 1]) \cup ToSet(ss[i + 2])
      BY <3>2, <3>4, ToSetConcat
    <3>6. 1 .. i + 2 = (1 .. i + 1) \cup {i + 2}
      OBVIOUS
    <3>7. ToSet(fl[i + 2]) = UNION {ToSet(ss[j]) : j \in 1 .. i + 2}
      BY <3>2, <3>5, <3>6
    <3> QED BY <3>3, <3>5, <3>7
  <2>8. \A i \in Nat : i \in T
    <3> HIDE DEF T
    <3> QED BY <2>6, <2>7, SetInduction
  <2>9. Len(ss) - 1 \in Nat /\ (Len(ss) - 1) + 1 = Len(ss) /\ Len(ss) - 1 < Len(ss)
    BY <1>1
  <2>10. Holds(Len(ss))
    <3> HIDE DEF Holds
    <3>1. Len(ss) - 1 \in T
      BY <2>8, <2>9
    <3> QED BY <2>9, <3>1
  <2> QED BY <2>5, <2>10
<1> QED BY <1>0, <1>1

-----------------------------------------------------------------------------
(* The artifacts of a run and the claims made from them                    *)

\* A sequence, of whatever it holds.
IsSeq(s) == s \in Seq(ToSet(s))

LEMMA SeqFacts ==
  ASSUME NEW s, IsSeq(s)
  PROVE  /\ Len(s) \in Nat /\ DOMAIN s = 1 .. Len(s)
         /\ ToSet(s) = {s[i] : i \in 1 .. Len(s)}
  BY DEF IsSeq, ToSet

LEMMA SeqIntro ==
  ASSUME NEW n \in Nat, NEW s, s = [i \in 1 .. n |-> s[i]]
  PROVE  IsSeq(s) /\ Len(s) = n /\ ToSet(s) = {s[i] : i \in 1 .. n}
<1>1. DOMAIN s = 1 .. n /\ \A i \in 1 .. n : s[i] \in {s[j] : j \in 1 .. n}
  OBVIOUS
<1>2. ToSet(s) = {s[i] : i \in 1 .. n}
  BY <1>1, Zenon DEF ToSet
<1>3. s \in [1 .. n -> ToSet(s)]
  BY <1>1, <1>2
<1>4. s \in Seq(ToSet(s)) /\ Len(s) = n
  BY <1>3
<1> QED BY <1>2, <1>4 DEF IsSeq

LEMMA SeqSuper ==
  ASSUME NEW s, IsSeq(s), NEW S, ToSet(s) \subseteq S
  PROVE  s \in Seq(S)
  BY DEF IsSeq

LEMMA SeqHas ==
  ASSUME NEW S, NEW s \in Seq(S)
  PROVE  IsSeq(s) /\ ToSet(s) \subseteq S
<1>1. Len(s) \in Nat /\ s = [i \in 1 .. Len(s) |-> s[i]]
  OBVIOUS
<1>2. IsSeq(s) /\ ToSet(s) = {s[i] : i \in 1 .. Len(s)}
  BY <1>1, SeqIntro
<1>3. \A i \in 1 .. Len(s) : s[i] \in S
  OBVIOUS
<1> QED BY <1>2, <1>3

LEMMA SeqConcat ==
  ASSUME NEW a, NEW b, IsSeq(a), IsSeq(b)
  PROVE  /\ IsSeq(a \o b) /\ ToSet(a \o b) = ToSet(a) \cup ToSet(b)
         /\ Len(a \o b) = Len(a) + Len(b)
         /\ \A i \in 1 .. Len(a) : (a \o b)[i] = a[i]
         /\ \A i \in 1 .. Len(b) : (a \o b)[Len(a) + i] = b[i]
<1> DEFINE S == ToSet(a) \cup ToSet(b)
<1>1. a \in Seq(S) /\ b \in Seq(S)
  BY SeqSuper
<1> HIDE DEF S
<1>2. a \o b \in Seq(S) /\ ToSet(a \o b) = ToSet(a) \cup ToSet(b)
  BY <1>1, ToSetConcat
<1>3. IsSeq(a \o b)
  BY <1>2, SeqHas
<1> QED BY <1>1, <1>2, <1>3

LEMMA SeqAppend ==
  ASSUME NEW a, NEW x, IsSeq(a)
  PROVE  /\ IsSeq(Append(a, x)) /\ ToSet(Append(a, x)) = ToSet(a) \cup {x}
         /\ Len(Append(a, x)) = Len(a) + 1 /\ Append(a, x)[Len(a) + 1] = x
         /\ \A i \in 1 .. Len(a) : Append(a, x)[i] = a[i]
<1> DEFINE S == ToSet(a) \cup {x}
<1>1. a \in Seq(S) /\ x \in S
  BY SeqSuper
<1> HIDE DEF S
<1>2. Append(a, x) \in Seq(S) /\ ToSet(Append(a, x)) = ToSet(a) \cup {x}
  BY <1>1, ToSetAppend
<1>3. IsSeq(Append(a, x))
  BY <1>2, SeqHas
<1> QED BY <1>1, <1>2, <1>3

LEMMA SeqSmall ==
  /\ IsSeq(<<>>) /\ ToSet(<<>>) = {} /\ Len(<<>>) = 0
  /\ \A x : IsSeq(<<x>>) /\ ToSet(<<x>>) = {x} /\ Len(<<x>>) = 1 /\ <<x>>[1] = x
<1>1. IsSeq(<<>>) /\ ToSet(<<>>) = {}
  BY ToSetEmpty DEF IsSeq
<1>2. ASSUME NEW x PROVE IsSeq(<<x>>) /\ ToSet(<<x>>) = {x}
  <2>1. ToSet(<<x>>) = {x}
    BY DEF ToSet
  <2> QED BY <2>1 DEF IsSeq
<1> QED BY <1>1, <1>2

\* A finite set has an enumeration.
LEMMA EnumerationIsSeq ==
  ASSUME NEW S, IsFiniteSet(S)
  PROVE  SetToSeq(S) \in Seq(S)
<1>1. Cardinality(S) \in Nat /\ ExistsBijection(1 .. Cardinality(S), S)
  BY FS_CardinalityType
<1>2. PICK f \in [1 .. Cardinality(S) -> S] :
        \A a, b \in 1 .. Cardinality(S) : a # b => f[a] # f[b]
  BY <1>1 DEF ExistsBijection, Bijection, Injection, IsInjective
<1>3. IsInjective(f)
  BY <1>2 DEF IsInjective
<1>4. SetToSeq(S) \in [1 .. Cardinality(S) -> S]
  BY <1>2, <1>3, Zenon DEF SetToSeq
<1> QED BY <1>1, <1>4

\* The elements of a sequence are finitely many.
LEMMA ToSetFinite ==
  ASSUME NEW s, IsSeq(s)
  PROVE  IsFiniteSet(ToSet(s))
<1>1. Len(s) \in Nat /\ ToSet(s) = {s[i] : i \in 1 .. Len(s)} /\ s \in [1 .. Len(s) -> ToSet(s)]
  BY SeqFacts DEF IsSeq
<1>2. s \in Surjection(1 .. Len(s), ToSet(s))
  BY <1>1 DEF Surjection
<1>3. ExistsSurjection(1 .. Len(s), ToSet(s))
  BY <1>2 DEF ExistsSurjection
<1> QED BY <1>1, <1>3, FS_NatSurjection

\* The events of the guest are those with its context.
LEMMA SelectElements ==
  ASSUME NEW es, IsSeq(es)
  PROVE  /\ IsSeq(SelectSyscallEvents(es))
         /\ ToSet(SelectSyscallEvents(es)) = {e \in ToSet(es) : e.context = "guest"}
<1>1. PICK f : /\ f[0] = <<>>
               /\ \A n \in 1 .. Len(es) :
                    f[n] = (IF es[n].context = "guest" THEN Append(f[n - 1], es[n]) ELSE f[n - 1])
               /\ SelectSyscallEvents(es) = f[Len(es)]
  <2>1. es \in Seq(ToSet(es))
    BY DEF IsSeq
  <2> QED BY <2>1, SelectFold
<1>0. Len(es) \in Nat /\ ToSet(es) = {es[i] : i \in 1 .. Len(es)}
  BY SeqFacts
<1> DEFINE First(n) == {es[i] : i \in 1 .. n}
           Holds(n) == /\ IsSeq(f[n])
                       /\ ToSet(f[n]) = {e \in First(n) : e.context = "guest"}
           T == {n \in Nat : n <= Len(es) => Holds(n)}
<1>2. 0 \in T
  <2>1. First(0) = {}
    OBVIOUS
  <2>2. Holds(0)
    BY <1>1, <2>1, SeqSmall
  <2> HIDE DEF Holds
  <2> QED BY <2>2
<1>3. ASSUME NEW n \in Nat, n \in T PROVE n + 1 \in T
  <2> SUFFICES ASSUME n + 1 <= Len(es) PROVE Holds(n + 1)
    <3> HIDE DEF Holds
    <3> QED OBVIOUS
  <2>1. Holds(n)
    <3> HIDE DEF Holds
    <3> QED BY <1>0, <1>3
  <2>2. n + 1 \in 1 .. Len(es) /\ (n + 1) - 1 = n /\ 1 .. n + 1 = (1 .. n) \cup {n + 1}
    BY <1>0
  <2>3. First(n + 1) = First(n) \cup {es[n + 1]}
    BY <2>2
  <2>4. f[n + 1] = (IF es[n + 1].context = "guest" THEN Append(f[n], es[n + 1]) ELSE f[n])
    BY <1>1, <2>2
  <2> HIDE DEF First
  <2>5. CASE es[n + 1].context = "guest"
    <3>1. IsSeq(f[n + 1]) /\ ToSet(f[n + 1]) = ToSet(f[n]) \cup {es[n + 1]}
      BY <2>1, <2>4, <2>5, SeqAppend
    <3> QED BY <2>1, <2>3, <2>5, <3>1
  <2>6. CASE es[n + 1].context # "guest"
    BY <2>1, <2>3, <2>4, <2>6
  <2> QED BY <2>5, <2>6
<1>4. \A n \in Nat : n \in T
  <2> HIDE DEF T
  <2> QED BY <1>2, <1>3, SetInduction
<1>5. Holds(Len(es))
  <2> HIDE DEF Holds
  <2> QED BY <1>0, <1>4
<1> QED BY <1>0, <1>1, <1>5

LEMMA StatusField ==
  \A a, b, c, d : [status |-> a, blocking |-> b, repairable |-> c, errno |-> d].status = a
  OBVIOUS

\* The requirements have the keys of the claims, and one is unmet when a claim
\* says so, whatever the others say.
Statuses == {"unknown", "provided", "unmet"}
LEMMA ExtractKeys ==
  ASSUME NEW cs, IsSeq(cs), \A c \in ToSet(cs) : c.status \in Statuses
  PROVE  LET r == FoldLeft(Add, [k \in {} |-> {}], cs)
         IN  /\ DOMAIN r = {c.key : c \in ToSet(cs)}
             /\ \A k \in DOMAIN r :
                  r[k].status = "unmet" <=> \E c \in ToSet(cs) : c.key = k /\ c.status = "unmet"
<1>1. PICK f : /\ f[0] = [k \in {} |-> {}]
               /\ \A n \in 1 .. Len(cs) : f[n] = Add(f[n - 1], cs[n])
               /\ FoldLeft(Add, [k \in {} |-> {}], cs) = f[Len(cs)]
  <2>1. cs \in Seq(ToSet(cs))
    BY DEF IsSeq
  <2> QED BY <2>1, ExtractFold
<1>0. Len(cs) \in Nat /\ ToSet(cs) = {cs[i] : i \in 1 .. Len(cs)}
  BY SeqFacts
<1> DEFINE First(n) == {cs[i] : i \in 1 .. n}
           Holds(r, C) == /\ DOMAIN r = {c.key : c \in C}
                          /\ \A k \in DOMAIN r :
                               /\ r[k].status \in Statuses
                               /\ r[k].status = "unmet" <=> \E c \in C : c.key = k /\ c.status = "unmet"
           T == {n \in Nat : n <= Len(cs) => Holds(f[n], First(n))}
<1>2. 0 \in T
  <2>1. First(0) = {}
    OBVIOUS
  <2>2. Holds(f[0], First(0))
    BY <1>1, <2>1
  <2> HIDE DEF Holds
  <2> QED BY <2>2
<1>3. ASSUME NEW r, NEW C, Holds(r, C), NEW c, c.status \in Statuses
      PROVE  Holds(Add(r, c), C \cup {c})
  <2> DEFINE a == Add(r, c)
  <2>1. DOMAIN a = DOMAIN r \cup {c.key}
    BY DEF Add
  <2>2. DOMAIN a = {d.key : d \in C \cup {c}}
    BY <1>3, <2>1
  <2>3. ASSUME NEW k \in DOMAIN a
        PROVE  /\ a[k].status \in Statuses
               /\ a[k].status = "unmet" <=> \E d \in C \cup {c} : d.key = k /\ d.status = "unmet"
    <3>1. CASE k # c.key
      <4>1. a[k] = r[k] /\ k \in DOMAIN r
        BY <2>1, <3>1 DEF Add
      <4> QED BY <1>3, <3>1, <4>1
    <3>2. CASE k = c.key /\ k \in DOMAIN r
      <4>1. a[k] = Merged(r[k], c)
        BY <2>1, <3>2 DEF Add
      <4>2. a[k].status = MergeStatus(r[k].status, c.status)
        <5>1. Merged(r[k], c).status = MergeStatus(r[k].status, c.status)
          BY StatusField, Zenon DEF Merged
        <5> HIDE DEF a
        <5> QED BY <4>1, <5>1
      <4>3. r[k].status \in Statuses /\ c.status \in Statuses
        BY <1>3, <3>2
      <4>4. \A x \in Statuses, y \in Statuses :
              MergeStatus(x, y) \in Statuses /\ (MergeStatus(x, y) = "unmet" <=> x = "unmet" \/ y = "unmet")
        BY DEF MergeStatus, StatusRank, Statuses
      <4> QED BY <1>3, <3>2, <4>2, <4>3, <4>4
    <3>3. CASE k = c.key /\ k \notin DOMAIN r
      <4>1. a[k] = Requirement(c)
        BY <2>1, <3>3 DEF Add
      <4>2. a[k].status = c.status
        BY <4>1 DEF Requirement
      <4>3. \A d \in C : d.key # k
        BY <1>3, <3>3
      <4> QED BY <1>3, <3>3, <4>2, <4>3
    <3> QED BY <3>1, <3>2, <3>3
  <2> HIDE DEF a
  <2> QED BY <2>2, <2>3 DEF a
<1>4. ASSUME NEW n \in Nat, n \in T PROVE n + 1 \in T
  <2> SUFFICES ASSUME n + 1 <= Len(cs) PROVE Holds(f[n + 1], First(n + 1))
    <3> HIDE DEF Holds
    <3> QED OBVIOUS
  <2>1. Holds(f[n], First(n))
    <3> HIDE DEF Holds
    <3> QED BY <1>0, <1>4
  <2>2. n + 1 \in 1 .. Len(cs) /\ (n + 1) - 1 = n /\ 1 .. n + 1 = (1 .. n) \cup {n + 1}
    BY <1>0
  <2>3. First(n + 1) = First(n) \cup {cs[n + 1]} /\ cs[n + 1] \in ToSet(cs)
    BY <1>0, <2>2
  <2>4. f[n + 1] = Add(f[n], cs[n + 1])
    BY <1>1, <2>2
  <2> HIDE DEF First, Holds
  <2> QED BY <1>3, <2>1, <2>3, <2>4
<1>5. \A n \in Nat : n \in T
  <2> HIDE DEF T
  <2> QED BY <1>2, <1>4, SetInduction
<1>6. Holds(f[Len(cs)], First(Len(cs)))
  <2> HIDE DEF Holds, First
  <2> QED BY <1>0, <1>5
<1> QED BY <1>0, <1>1, <1>6

\* The parts of a claim.
LEMMA ClaimFields ==
  ASSUME NEW kind, NEW operation, NEW resource, NEW status, NEW blocking, NEW repairable, NEW errno
  PROVE  LET c == Claim(kind, operation, resource, status, blocking, repairable, errno)
         IN  /\ c.status = status
             /\ c.key = [kind |-> kind, operation |-> operation, resource |-> resource]
             /\ c.key.kind = kind /\ c.key.operation = operation /\ c.key.resource = resource
  BY DEF Claim

\* A claim about a missing directory is made for a creating call without it.
Creates(event) == event.syscall \in {"mkdir", "creat"} /\ event.errno = "ENOENT"
Needed(c, event) ==
  /\ c.status \in Statuses
  /\ c.key.operation = "directory_exists" =>
       Creates(event) /\ c.key.resource = ParentDirectory(event.path)

\* At most one claim each, with the same key and status.
Alike(x, y, event) ==
  \/ x = <<>> /\ y = <<>>
  \/ \E c, d : /\ x = <<c>> /\ y = <<d>> /\ c.key = d.key /\ c.status = d.status
               /\ Needed(c, event)

\* Claims that differ in how much they matter only.
LEMMA ClaimsAlike ==
  ASSUME NEW e, NEW kind, NEW operation, NEW resource, NEW status \in Statuses, NEW repairable,
         NEW errno, NEW b1, NEW b2,
         operation = "directory_exists" => Creates(e) /\ resource = ParentDirectory(e.path)
  PROVE  LET c == Claim(kind, operation, resource, status, b1, repairable, errno)
             d == Claim(kind, operation, resource, status, b2, repairable, errno)
         IN  c.key = d.key /\ c.status = d.status /\ Needed(c, e)
<1> DEFINE c == Claim(kind, operation, resource, status, b1, repairable, errno)
           d == Claim(kind, operation, resource, status, b2, repairable, errno)
<1>1. /\ c.status = status /\ c.key = [kind |-> kind, operation |-> operation, resource |-> resource]
      /\ c.key.operation = operation /\ c.key.resource = resource
  BY ClaimFields
<1>2. d.status = status /\ d.key = [kind |-> kind, operation |-> operation, resource |-> resource]
  BY ClaimFields
<1> HIDE DEF c, d
<1>3. c.key = d.key /\ c.status = d.status /\ Needed(c, e)
  BY <1>1, <1>2 DEF Needed
<1> QED BY <1>3 DEF c, d

LEMMA MissingAlike ==
  ASSUME NEW e, e.errno = "ENOENT", NEW b1, NEW b2
  PROVE  LET c == MissingPath(e, b1)
             d == MissingPath(e, b2)
         IN  c.key = d.key /\ c.status = d.status /\ Needed(c, e)
<1> DEFINE place == IF IsDevice(e.path) THEN "device" ELSE "filesystem"
           err == e.errno
<1>1. CASE e.syscall \in DirectoryCreateSyscalls \/ Creating(e)
  <2> DEFINE c(b) == Claim("filesystem", "directory_exists", ParentDirectory(e.path),
                        "unmet", b, TRUE, err)
  <2>1. MissingPath(e, b1) = c(b1) /\ MissingPath(e, b2) = c(b2)
    BY <1>1, Zenon DEF MissingPath
  <2>2. e.syscall \in {"mkdir", "creat"}
    BY <1>1 DEF DirectoryCreateSyscalls, Creating
  <2>3. "unmet" \in Statuses
    BY DEF Statuses
  <2>5. Creates(e)
    BY <2>2 DEF Creates
  <2> HIDE DEF err, place
  <2>4. c(b1).key = c(b2).key /\ c(b1).status = c(b2).status /\ Needed(c(b1), e)
    BY <2>3, <2>5 DEF Claim, Needed
  <2> HIDE DEF c
  <2> QED BY <2>1, <2>4
<1>2. CASE ~(e.syscall \in DirectoryCreateSyscalls \/ Creating(e)) /\ e.syscall \in ExecSyscalls
  <2> DEFINE c(b) == Claim("execution", "executable_available", e.path,
                        "unmet", "likely", TRUE, err)
  <2>1. MissingPath(e, b1) = c(b1) /\ MissingPath(e, b2) = c(b2)
    BY <1>2, Zenon DEF MissingPath
  <2>3. "unmet" \in Statuses
    BY DEF Statuses
  <2> HIDE DEF err, place
  <2>4. c(b1).key = c(b2).key /\ c(b1).status = c(b2).status /\ Needed(c(b1), e)
    BY <2>3, ClaimsAlike
  <2> HIDE DEF c
  <2> QED BY <2>1, <2>4
<1>3. CASE ~(e.syscall \in DirectoryCreateSyscalls \/ Creating(e)) /\ e.syscall \notin ExecSyscalls
  <2> DEFINE c(b) == Claim(place, "path_exists", e.path, "unmet", b, TRUE, err)
  <2>1. MissingPath(e, b1) = c(b1) /\ MissingPath(e, b2) = c(b2)
    BY <1>3, Zenon DEF MissingPath
  <2>5. "path_exists" # "directory_exists"
    OBVIOUS
  <2>3. "unmet" \in Statuses
    BY DEF Statuses
  <2> HIDE DEF err, place
  <2>4. c(b1).key = c(b2).key /\ c(b1).status = c(b2).status /\ Needed(c(b1), e)
    BY <2>3, <2>5 DEF Claim, Needed
  <2> HIDE DEF c
  <2> QED BY <2>1, <2>4
<1> QED BY <1>1, <1>2, <1>3

LEMMA PathAlike ==
  ASSUME NEW e, NEW b1, NEW b2
  PROVE  Alike(PathClaims(e, b1), PathClaims(e, b2), e)
<1> DEFINE place == IF IsDevice(e.path) THEN "device" ELSE "filesystem"
           unmet(kind, operation, repairable, b) ==
             <<Claim(kind, operation, e.path, "unmet", b, repairable, e.errno)>>
<1>1. ASSUME NEW kind, NEW operation, operation # "directory_exists", NEW repairable,
             \A b : PathClaims(e, b) = unmet(kind, operation, repairable, b)
      PROVE  Alike(PathClaims(e, b1), PathClaims(e, b2), e)
  <2>1. "unmet" \in Statuses
    BY DEF Statuses
  <2> DEFINE c(b) == Claim(kind, operation, e.path, "unmet", b, repairable, e.errno)
  <2>2. c(b1).key = c(b2).key /\ c(b1).status = c(b2).status /\ Needed(c(b1), e)
    BY <1>1, <2>1, ClaimsAlike
  <2>3. PathClaims(e, b1) = <<c(b1)>> /\ PathClaims(e, b2) = <<c(b2)>>
    BY <1>1
  <2> HIDE DEF c
  <2> QED BY <2>2, <2>3 DEF Alike
<1>2. CASE e.errno = "ENOENT" /\ HandlesMissing(e)
  <2>1. \A b : PathClaims(e, b) = <<MissingPath(e, b)>>
    BY <1>2, Zenon DEF PathClaims
  <2> QED BY <1>2, <2>1, MissingAlike DEF Alike
<1>3. CASE e.errno = "ENOENT" /\ ~HandlesMissing(e)
  <2>1. \A b : PathClaims(e, b) = <<>>
    BY <1>3 DEF PathClaims
  <2> QED BY <2>1 DEF Alike
<1>4. CASE e.errno \in {"EACCES", "EPERM"}
  <2>1. \A b : PathClaims(e, b) = unmet("filesystem", "path_access", TRUE, b)
    BY <1>4 DEF PathClaims
  <2> HIDE DEF unmet
  <2> QED BY <1>1, <2>1
<1>5. CASE e.errno = "EROFS"
  <2>1. \A b : PathClaims(e, b) = unmet("filesystem", "path_writable", TRUE, b)
    BY <1>5 DEF PathClaims
  <2> HIDE DEF unmet
  <2> QED BY <1>1, <2>1
<1>6. CASE e.errno = "ENOTDIR"
  <2>1. \A b : PathClaims(e, b) = unmet("filesystem", "valid_path_layout", TRUE, b)
    BY <1>6 DEF PathClaims
  <2> HIDE DEF unmet
  <2> QED BY <1>1, <2>1
<1>7. CASE e.errno \in {"ENODEV", "ENXIO"}
  <2>1. \A b : PathClaims(e, b) = unmet(place, "device_or_backend_available", place = "device", b)
    BY <1>7 DEF PathClaims
  <2> HIDE DEF unmet, place
  <2> QED BY <1>1, <2>1
<1>8. CASE e.errno = "" /\ Creating(e)
  <2>1. \A b : PathClaims(e, b) =
                 <<Claim("filesystem", "path_writable", e.path, "provided", "unknown", TRUE, "")>>
    BY <1>8 DEF PathClaims
  <2>2. "provided" \in Statuses
    BY DEF Statuses
  <2> DEFINE c == Claim("filesystem", "path_writable", e.path, "provided", "unknown", TRUE, "")
  <2>3. Needed(c, e)
    BY <2>2, ClaimsAlike
  <2>4. PathClaims(e, b1) = <<c>> /\ PathClaims(e, b2) = <<c>>
    BY <2>1
  <2> HIDE DEF c
  <2> QED BY <2>3, <2>4 DEF Alike
<1>9. CASE /\ e.errno \notin {"ENOENT", "EACCES", "EPERM", "EROFS", "ENOTDIR", "ENODEV", "ENXIO"}
           /\ ~(e.errno = "" /\ Creating(e))
  <2>1. \A b : PathClaims(e, b) = <<>>
    BY <1>9 DEF PathClaims
  <2> QED BY <2>1 DEF Alike
<1> QED BY <1>2, <1>3, <1>4, <1>5, <1>6, <1>7, <1>8, <1>9

\* What an event says of the environment depends on how the guest ended only in
\* how much it matters.
ClaimsOf(event, blocking) ==
  CASE event.event = "signal" ->
         <<Claim("execution", "avoid_fatal_signal", Name("signal"), "unmet", "likely", FALSE, "")>>
    [] event.event = "syscall" ->
         (IF event.errno = "ENOSYS"
            THEN <<Claim("syscall", "kernel_or_qemu_support", Name(SyscallName(event.syscall)),
                         "unmet", blocking, FALSE, event.errno)>>
            ELSE <<>>)
         \o (IF event.syscall \in NetworkSyscalls THEN <<>> ELSE PathClaims(event, blocking))
         \o (IF event.syscall = "connect" /\ event.errno \in NetworkFailureErrnos
               THEN <<Claim("network", "connect", event.path, "unmet", blocking, TRUE, event.errno)>>
               ELSE <<>>)
    [] OTHER -> <<>>

LEMMA ClaimsOfEvent ==
  ASSUME NEW es, NEW i
  PROVE  EventClaims(es, i) = ClaimsOf(es[i], BlockingAfter(es, i))
  BY Zenon DEF EventClaims, ClaimsOf

LEMMA AlikeSets ==
  ASSUME NEW e, NEW x, NEW y, Alike(x, y, e)
  PROVE  /\ IsSeq(x)
         /\ \A c \in ToSet(x) : /\ Needed(c, e)
                                /\ \E d \in ToSet(y) : d.key = c.key /\ d.status = c.status
<1>1. CASE x = <<>> /\ y = <<>>
  BY <1>1, SeqSmall
<1>2. CASE \E c, d : /\ x = <<c>> /\ y = <<d>> /\ c.key = d.key /\ c.status = d.status
                     /\ Needed(c, e)
  <2>1. PICK c, d : x = <<c>> /\ y = <<d>> /\ c.key = d.key /\ c.status = d.status /\ Needed(c, e)
    BY <1>2
  <2>2. IsSeq(x) /\ ToSet(x) = {c} /\ ToSet(y) = {d}
    BY <2>1, SeqSmall
  <2> QED BY <2>1, <2>2
<1> QED BY <1>1, <1>2 DEF Alike

LEMMA ClaimsOfFacts ==
  ASSUME NEW e, NEW b1, NEW b2
  PROVE  /\ IsSeq(ClaimsOf(e, b1))
         /\ \A c \in ToSet(ClaimsOf(e, b1)) :
              /\ Needed(c, e)
              /\ c.key.operation = "directory_exists" => e.event = "syscall"
              /\ \E d \in ToSet(ClaimsOf(e, b2)) : d.key = c.key /\ d.status = c.status
<1>0. "unmet" \in Statuses
  BY DEF Statuses
<1>1. CASE e.event = "signal"
  <2> DEFINE c == Claim("execution", "avoid_fatal_signal", Name("signal"), "unmet", "likely", FALSE, "")
  <2>1. ClaimsOf(e, b1) = <<c>> /\ ClaimsOf(e, b2) = <<c>>
    BY <1>1, Zenon DEF ClaimsOf
  <2>2. c.key.operation = "avoid_fatal_signal" /\ c.status = "unmet"
    BY DEF Claim
  <2> HIDE DEF c
  <2>3. Needed(c, e)
    BY <1>0, <2>2 DEF Needed
  <2>4. c.key.operation # "directory_exists"
    BY <2>2
  <2>5. IsSeq(<<c>>) /\ ToSet(<<c>>) = {c}
    BY SeqSmall
  <2> QED BY <2>1, <2>3, <2>4, <2>5
<1>2. CASE e.event = "syscall"
  <2> DEFINE C1(b) == Claim("syscall", "kernel_or_qemu_support", Name(SyscallName(e.syscall)),
                              "unmet", b, FALSE, e.errno)
             C3(b) == Claim("network", "connect", e.path, "unmet", b, TRUE, e.errno)
             S1(b) == IF e.errno = "ENOSYS" THEN <<C1(b)>> ELSE <<>>
             S2(b) == IF e.syscall \in NetworkSyscalls THEN <<>> ELSE PathClaims(e, b)
             S3(b) == IF e.syscall = "connect" /\ e.errno \in NetworkFailureErrnos
                        THEN <<C3(b)>> ELSE <<>>
             Same(x, y) == \A c \in ToSet(x) :
                             /\ Needed(c, e)
                             /\ \E d \in ToSet(y) : d.key = c.key /\ d.status = c.status
  <2>1. e.event # "signal"
    BY <1>2
  <2>2. ClaimsOf(e, b1) = S1(b1) \o S2(b1) \o S3(b1) /\ ClaimsOf(e, b2) = S1(b2) \o S2(b2) \o S3(b2)
    BY <1>2, <2>1, Zenon DEF ClaimsOf
  <2>3. ASSUME NEW x, NEW y PROVE Alike(S1(x), S1(y), e)
    <3>1. C1(x).key = C1(y).key /\ C1(x).status = C1(y).status /\ Needed(C1(x), e)
      BY <1>0 DEF Claim, Needed
    <3> HIDE DEF C1
    <3> QED BY <3>1 DEF Alike
  <2>4. ASSUME NEW x, NEW y PROVE Alike(S2(x), S2(y), e)
    BY PathAlike DEF Alike
  <2>5. ASSUME NEW x, NEW y PROVE Alike(S3(x), S3(y), e)
    <3>1. C3(x).key = C3(y).key /\ C3(x).status = C3(y).status /\ Needed(C3(x), e)
      BY <1>0 DEF Claim, Needed
    <3> HIDE DEF C3
    <3> QED BY <3>1 DEF Alike
  <2> HIDE DEF S1, S2, S3
  <2>6. ASSUME NEW x, NEW y
        PROVE  /\ IsSeq(S1(x)) /\ Same(S1(x), S1(y)) /\ IsSeq(S2(x)) /\ Same(S2(x), S2(y))
               /\ IsSeq(S3(x)) /\ Same(S3(x), S3(y))
    BY <2>3, <2>4, <2>5, AlikeSets
  <2>7. ASSUME NEW x
        PROVE  /\ IsSeq(S1(x) \o S2(x) \o S3(x))
               /\ ToSet(S1(x) \o S2(x) \o S3(x)) = ToSet(S1(x)) \cup ToSet(S2(x)) \cup ToSet(S3(x))
    <3>1. IsSeq(S1(x) \o S2(x)) /\ ToSet(S1(x) \o S2(x)) = ToSet(S1(x)) \cup ToSet(S2(x))
      BY <2>6, SeqConcat
    <3> QED BY <2>6, <3>1, SeqConcat
  <2> QED BY <1>2, <2>2, <2>6, <2>7
<1>3. CASE e.event \notin {"signal", "syscall"}
  <2>1. ClaimsOf(e, b1) = <<>>
    BY <1>3 DEF ClaimsOf
  <2> QED BY <2>1, SeqSmall
<1> QED BY <1>1, <1>2, <1>3

\* The claims of the artifacts, one by one.
IsBundle(b) ==
  /\ IsSeq(b.events) /\ IsSeq(b.net) /\ IsSeq(b.stderr) /\ IsFiniteSet(b.diff)
  /\ \A m \in ToSet(b.net) : m.operation \in {"connect", "datagram_exchange"}

LEMMA EventClaimsFacts ==
  ASSUME NEW es, IsSeq(es)
  PROVE  LET cs == FlattenSeq([i \in 1 .. Len(es) |-> EventClaims(es, i)])
         IN  /\ IsSeq(cs)
             /\ \A c \in ToSet(cs) : \E e \in ToSet(es) : \E bl : c \in ToSet(ClaimsOf(e, bl))
             /\ \A e \in ToSet(es) : \E bl : ToSet(ClaimsOf(e, bl)) \subseteq ToSet(cs)
<1> DEFINE ec == [i \in 1 .. Len(es) |-> EventClaims(es, i)]
           S == UNION {ToSet(ec[i]) : i \in 1 .. Len(es)}
<1>1. Len(es) \in Nat /\ ToSet(es) = {es[i] : i \in 1 .. Len(es)}
  BY SeqFacts
<1>2. \A i \in 1 .. Len(es) : ec[i] = ClaimsOf(es[i], BlockingAfter(es, i)) /\ IsSeq(ec[i])
  BY ClaimsOfEvent, ClaimsOfFacts
<1>3. ec = [i \in 1 .. Len(es) |-> ec[i]]
  OBVIOUS
<1> HIDE DEF ec
<1>4. \A i \in 1 .. Len(es) : ToSet(ec[i]) \subseteq S
  OBVIOUS
<1>6. S = UNION {ToSet(ec[i]) : i \in 1 .. Len(es)}
  OBVIOUS
<1> HIDE DEF S
<1>5. \A i \in 1 .. Len(es) : ec[i] \in Seq(S)
  BY <1>2, <1>4, SeqSuper
<1>7. ec \in [1 .. Len(es) -> Seq(S)]
  BY <1>3, <1>5
<1>8. ec \in Seq(Seq(S)) /\ Len(ec) = Len(es)
  BY <1>1, <1>7
<1>9. FlattenSeq(ec) \in Seq(S) /\ ToSet(FlattenSeq(ec)) = UNION {ToSet(ec[i]) : i \in 1 .. Len(es)}
  BY <1>8, FlattenElements
<1>10. IsSeq(FlattenSeq(ec))
  BY <1>9, SeqHas
<1>11. \A c \in ToSet(FlattenSeq(ec)) : \E e \in ToSet(es) : \E bl : c \in ToSet(ClaimsOf(e, bl))
  BY <1>1, <1>2, <1>9
<1>12. \A e \in ToSet(es) : \E bl : ToSet(ClaimsOf(e, bl)) \subseteq ToSet(FlattenSeq(ec))
  BY <1>1, <1>2, <1>9
<1> QED BY <1>10, <1>11, <1>12 DEF ec

\* Claims that no event makes: only a message of the loader says that something
\* is missing.
LEMMA OtherClaims ==
  ASSUME NEW b, IsBundle(b)
  PROVE  LET cs == NetworkClaims(b.net) \o LoaderClaims(b.stderr) \o DiffClaims(b.diff)
         IN  /\ IsSeq(cs) /\ IsSeq(NetworkClaims(b.net)) /\ IsSeq(LoaderClaims(b.stderr))
             /\ IsSeq(DiffClaims(b.diff))
             /\ \A c \in ToSet(cs) : /\ c.status \in Statuses
                                     /\ c.key.operation # "directory_exists"
                                     /\ b.stderr = <<>> => c.status # "unmet"
<1> DEFINE NC == NetworkClaims(b.net)
           LC == LoaderClaims(b.stderr)
           DC == DiffClaims(b.diff)
           Fine(c) == /\ c.status \in Statuses
                      /\ c.key.operation # "directory_exists"
                      /\ b.stderr = <<>> => c.status # "unmet"
<1>1. IsSeq(NC) /\ \A c \in ToSet(NC) : Fine(c)
  <2>1. Len(b.net) \in Nat /\ ToSet(b.net) = {b.net[i] : i \in 1 .. Len(b.net)}
    BY SeqFacts DEF IsBundle
  <2> DEFINE n == Len(b.net)
             claim(i) == Claim("network", b.net[i].operation, b.net[i].endpoint,
                               IF b.net[i].answered THEN "provided" ELSE "unknown", "unknown", TRUE, "")
  <2>2. NC = [i \in 1 .. n |-> claim(i)]
    BY Zenon DEF NetworkClaims
  <2>3. ASSUME NEW i \in 1 .. n PROVE Fine(claim(i))
    <3>1. b.net[i].operation \in {"connect", "datagram_exchange"}
      BY <2>1, <2>3 DEF IsBundle
    <3>2. /\ claim(i).status = IF b.net[i].answered THEN "provided" ELSE "unknown"
          /\ claim(i).key.operation = b.net[i].operation
      BY DEF Claim
    <3> HIDE DEF claim
    <3> QED BY <3>1, <3>2 DEF Statuses
  <2> HIDE DEF claim
  <2>4. NC = [i \in 1 .. n |-> NC[i]] /\ \A i \in 1 .. n : NC[i] = claim(i)
    BY <2>2
  <2> HIDE DEF NC
  <2>5. IsSeq(NC) /\ ToSet(NC) = {NC[i] : i \in 1 .. n}
    BY <2>1, <2>4, SeqIntro
  <2> HIDE DEF Fine, n
  <2> QED BY <2>3, <2>4, <2>5
<1>2. IsSeq(LC) /\ \A c \in ToSet(LC) : Fine(c)
  <2>1. Len(b.stderr) \in Nat
    BY SeqFacts DEF IsBundle
  <2> DEFINE n == Len(b.stderr)
             claim(i) == Claim("library",
                               IF b.stderr[i] = "ld.so" THEN "interpreter_available" ELSE "library_available",
                               Name(b.stderr[i]), "unmet", "likely", TRUE, "ENOENT")
  <2>2. LC = [i \in 1 .. n |-> claim(i)]
    BY Zenon DEF LoaderClaims
  <2>3. ASSUME NEW i \in 1 .. n PROVE Fine(claim(i))
    <3>1. /\ claim(i).status = "unmet"
          /\ claim(i).key.operation \in {"interpreter_available", "library_available"}
      BY DEF Claim
    <3>2. b.stderr # <<>>
      BY <2>1
    <3> HIDE DEF claim
    <3> QED BY <3>1, <3>2 DEF Statuses
  <2> HIDE DEF claim
  <2>4. LC = [i \in 1 .. n |-> LC[i]] /\ \A i \in 1 .. n : LC[i] = claim(i)
    BY <2>2
  <2> HIDE DEF LC
  <2>5. IsSeq(LC) /\ ToSet(LC) = {LC[i] : i \in 1 .. n}
    BY <2>1, <2>4, SeqIntro
  <2> HIDE DEF Fine, n
  <2> QED BY <2>3, <2>4, <2>5
<1>3. IsSeq(DC) /\ \A c \in ToSet(DC) : Fine(c)
  <2> DEFINE paths == SetToSeq(b.diff)
             n == Len(paths)
             claim(i) == Claim("filesystem", "path_writable", AbsPath(paths[i]),
                               "provided", "unknown", TRUE, "")
  <2>1. n \in Nat
    <3>1. paths \in Seq(b.diff)
      BY EnumerationIsSeq DEF IsBundle
    <3> HIDE DEF paths
    <3> QED BY <3>1
  <2>2. DC = [i \in 1 .. n |-> claim(i)]
    BY Zenon DEF DiffClaims
  <2>3. ASSUME NEW i \in 1 .. n PROVE Fine(claim(i))
    <3> HIDE DEF paths
    <3>1. claim(i).status = "provided" /\ claim(i).key.operation = "path_writable"
      BY DEF Claim
    <3> HIDE DEF claim
    <3> QED BY <3>1 DEF Statuses
  <2> HIDE DEF claim
  <2>4. DC = [i \in 1 .. n |-> DC[i]] /\ \A i \in 1 .. n : DC[i] = claim(i)
    <3> HIDE DEF n
    <3> QED BY <2>2
  <2> HIDE DEF DC, n
  <2>5. IsSeq(DC) /\ ToSet(DC) = {DC[i] : i \in 1 .. n}
    BY <2>1, <2>4, SeqIntro
  <2> HIDE DEF Fine, n
  <2> QED BY <2>3, <2>4, <2>5
<1> HIDE DEF NC, LC, DC, Fine
<1>4. IsSeq(NC \o LC) /\ ToSet(NC \o LC) = ToSet(NC) \cup ToSet(LC)
  BY <1>1, <1>2, SeqConcat
<1>5. IsSeq(NC \o LC \o DC) /\ ToSet(NC \o LC \o DC) = ToSet(NC) \cup ToSet(LC) \cup ToSet(DC)
  BY <1>3, <1>4, SeqConcat
<1>6. \A c \in ToSet(NC \o LC \o DC) : Fine(c)
  BY <1>1, <1>2, <1>3, <1>5
<1> QED BY <1>1, <1>2, <1>3, <1>5, <1>6 DEF NC, LC, DC, Fine

\* All claims: those of the guest's events, and the others.
LEMMA ClaimsFacts ==
  ASSUME NEW b, IsBundle(b)
  PROVE  /\ IsSeq(Claims(b))
         /\ \A c \in ToSet(Claims(b)) :
              \/ \E e \in ToSet(b.events) : \E bl : e.context = "guest" /\ c \in ToSet(ClaimsOf(e, bl))
              \/ /\ c.status \in Statuses /\ c.key.operation # "directory_exists"
                 /\ b.stderr = <<>> => c.status # "unmet"
         /\ \A e \in ToSet(b.events) : e.context = "guest" =>
              \E bl : ToSet(ClaimsOf(e, bl)) \subseteq ToSet(Claims(b))
<1> DEFINE es == SelectSyscallEvents(b.events)
           EC == FlattenSeq([i \in 1 .. Len(es) |-> EventClaims(es, i)])
           NC == NetworkClaims(b.net)
           LC == LoaderClaims(b.stderr)
           DC == DiffClaims(b.diff)
<1>1. Claims(b) = EC \o NC \o LC \o DC
  BY Zenon DEF Claims
<1>2. IsSeq(es) /\ ToSet(es) = {e \in ToSet(b.events) : e.context = "guest"}
  BY SelectElements DEF IsBundle
<1>3. /\ IsSeq(EC)
      /\ \A c \in ToSet(EC) : \E e \in ToSet(es) : \E bl : c \in ToSet(ClaimsOf(e, bl))
      /\ \A e \in ToSet(es) : \E bl : ToSet(ClaimsOf(e, bl)) \subseteq ToSet(EC)
  <2> HIDE DEF es
  <2> QED BY <1>2, EventClaimsFacts
<1>4. /\ IsSeq(NC) /\ IsSeq(LC) /\ IsSeq(DC) /\ IsSeq(NC \o LC \o DC)
      /\ \A c \in ToSet(NC \o LC \o DC) : /\ c.status \in Statuses
                                          /\ c.key.operation # "directory_exists"
                                          /\ b.stderr = <<>> => c.status # "unmet"
  BY OtherClaims
<1> HIDE DEF es, EC, NC, LC, DC
<1>5. /\ IsSeq(EC \o NC \o LC \o DC)
      /\ ToSet(EC \o NC \o LC \o DC) = ToSet(EC) \cup ToSet(NC \o LC \o DC)
  <2>1. IsSeq(EC \o NC) /\ ToSet(EC \o NC) = ToSet(EC) \cup ToSet(NC)
    BY <1>3, <1>4, SeqConcat
  <2>2. IsSeq(EC \o NC \o LC) /\ ToSet(EC \o NC \o LC) = ToSet(EC) \cup ToSet(NC) \cup ToSet(LC)
    BY <1>4, <2>1, SeqConcat
  <2>3. IsSeq(EC \o NC \o LC \o DC)
        /\ ToSet(EC \o NC \o LC \o DC) = ToSet(EC) \cup ToSet(NC) \cup ToSet(LC) \cup ToSet(DC)
    BY <1>4, <2>2, SeqConcat
  <2>4. IsSeq(NC \o LC) /\ ToSet(NC \o LC) = ToSet(NC) \cup ToSet(LC)
    BY <1>4, SeqConcat
  <2>5. ToSet(NC \o LC \o DC) = ToSet(NC) \cup ToSet(LC) \cup ToSet(DC)
    BY <1>4, <2>4, SeqConcat
  <2> QED BY <2>3, <2>5
<1>6. \A c \in ToSet(EC) : \E e \in ToSet(b.events) : \E bl : e.context = "guest" /\ c \in ToSet(ClaimsOf(e, bl))
  BY <1>2, <1>3
<1>7. \A e \in ToSet(b.events) : e.context = "guest" =>
        \E bl : ToSet(ClaimsOf(e, bl)) \subseteq ToSet(EC)
  BY <1>2, <1>3
<1> QED BY <1>1, <1>4, <1>5, <1>6, <1>7

\* What the requirements of a report are.
LEMMA ExtractFacts ==
  ASSUME NEW b, IsBundle(b)
  PROVE  /\ IsFiniteSet(DOMAIN Extract(b))
         /\ \A k \in DOMAIN Extract(b) :
              k.operation = "directory_exists" =>
                \E e \in ToSet(b.events) : /\ e.context = "guest" /\ e.event = "syscall" /\ Creates(e)
                                           /\ k.resource = ParentDirectory(e.path)
         /\ \A k \in Unmet(Extract(b)) : b.stderr = <<>> =>
              \E e \in ToSet(b.events) : \E bl :
                /\ e.context = "guest"
                /\ \E c \in ToSet(ClaimsOf(e, bl)) : c.key = k /\ c.status = "unmet"
         /\ \A e \in ToSet(b.events) : e.context = "guest" =>
              \E bl : \A c \in ToSet(ClaimsOf(e, bl)) : c.status = "unmet" => c.key \in Unmet(Extract(b))
<1> DEFINE cs == Claims(b)
           r == Extract(b)
<1>1. /\ IsSeq(cs)
      /\ \A c \in ToSet(cs) :
           \/ \E e \in ToSet(b.events) : \E bl : e.context = "guest" /\ c \in ToSet(ClaimsOf(e, bl))
           \/ /\ c.status \in Statuses /\ c.key.operation # "directory_exists"
              /\ b.stderr = <<>> => c.status # "unmet"
      /\ \A e \in ToSet(b.events) : e.context = "guest" =>
           \E bl : ToSet(ClaimsOf(e, bl)) \subseteq ToSet(cs)
  BY ClaimsFacts
<1>0. r = FoldLeft(Add, [k \in {} |-> {}], cs)
  BY Zenon DEF Extract
<1> HIDE DEF cs, r
<1>2. \A c \in ToSet(cs) : c.status \in Statuses
  BY <1>1, ClaimsOfFacts DEF Needed
<1>3. /\ DOMAIN r = {c.key : c \in ToSet(cs)}
      /\ \A k \in DOMAIN r :
           r[k].status = "unmet" <=> \E c \in ToSet(cs) : c.key = k /\ c.status = "unmet"
  <2>1. IsSeq(cs)
    BY <1>1
  <2> QED BY <1>0, <1>2, <2>1, ExtractKeys
<1>4. IsFiniteSet(DOMAIN r)
  <2> DEFINE n == Len(cs)
             f == [i \in 1 .. n |-> cs[i].key]
  <2>1. n \in Nat /\ ToSet(cs) = {cs[i] : i \in 1 .. n}
    BY <1>1, SeqFacts
  <2>2. DOMAIN r = {cs[i].key : i \in 1 .. n}
    BY <1>3, <2>1
  <2>3. f \in Surjection(1 .. n, DOMAIN r)
    <3> HIDE DEF n
    <3> QED BY <2>2 DEF Surjection
  <2>4. ExistsSurjection(1 .. n, DOMAIN r)
    BY <2>3 DEF ExistsSurjection
  <2> HIDE DEF n
  <2> QED BY <2>1, <2>4, FS_NatSurjection
<1>5. ASSUME NEW k \in DOMAIN r, k.operation = "directory_exists"
      PROVE  \E e \in ToSet(b.events) : /\ e.context = "guest" /\ e.event = "syscall" /\ Creates(e)
                                        /\ k.resource = ParentDirectory(e.path)
  <2>1. PICK c \in ToSet(cs) : c.key = k
    BY <1>3
  <2>2. PICK e, bl : e \in ToSet(b.events) /\ e.context = "guest" /\ c \in ToSet(ClaimsOf(e, bl))
    BY <1>1, <1>5, <2>1
  <2>3. Needed(c, e) /\ e.event = "syscall"
    BY <1>5, <2>1, <2>2, ClaimsOfFacts
  <2>4. Creates(e) /\ k.resource = ParentDirectory(e.path)
    BY <1>5, <2>1, <2>3 DEF Needed
  <2> QED BY <2>2, <2>3, <2>4
<1>6. ASSUME NEW k \in Unmet(r), b.stderr = <<>>
      PROVE  \E e \in ToSet(b.events) : \E bl :
               e.context = "guest" /\ \E c \in ToSet(ClaimsOf(e, bl)) : c.key = k /\ c.status = "unmet"
  <2>1. PICK c \in ToSet(cs) : c.key = k /\ c.status = "unmet"
    BY <1>3 DEF Unmet
  <2>2. PICK e, bl : e \in ToSet(b.events) /\ e.context = "guest" /\ c \in ToSet(ClaimsOf(e, bl))
    BY <1>1, <1>6, <2>1
  <2> QED BY <2>1, <2>2
<1>7. ASSUME NEW e \in ToSet(b.events), e.context = "guest"
      PROVE  \E bl : \A c \in ToSet(ClaimsOf(e, bl)) : c.status = "unmet" => c.key \in Unmet(r)
  <2>1. PICK bl : ToSet(ClaimsOf(e, bl)) \subseteq ToSet(cs)
    BY <1>1, <1>7
  <2>2. \A c \in ToSet(cs) : c.status = "unmet" => c.key \in Unmet(r)
    BY <1>3 DEF Unmet
  <2> QED BY <2>1, <2>2
<1> QED BY <1>4, <1>5, <1>6, <1>7 DEF r

-----------------------------------------------------------------------------
(* The plan                                                                *)

\* Only a missing directory with a valid path is planned without review.
LEMMA AutomaticRule ==
  ASSUME NEW k, NEW r, Rule(k, r)[2] = "auto_candidate"
  PROVE  /\ k.kind = "filesystem" /\ k.operation = "directory_exists" /\ r.status = "unmet"
         /\ ValidGuestPath(k.resource) /\ k.resource # RootPath
<1>1. CASE r.status = "provided" /\ k.kind # "network"
  <2>1. Rule(k, r) = <<"none", "not_required">>
    BY <1>1, Zenon DEF Rule
  <2> QED BY <2>1
<1> DEFINE settled == r.status = "provided" /\ k.kind # "network"
           given == ~r.repairable \/ (k.kind = "filesystem" /\ ~ValidGuestPath(k.resource))
<1>2. CASE ~settled /\ given
  <2>1. Rule(k, r) = <<"none", "manual_analysis">>
    BY <1>2, Zenon DEF Rule
  <2> QED BY <2>1
<1>3. CASE ~settled /\ ~given /\ k.kind # "filesystem"
  <2> DEFINE other == CASE k.kind = "filesystem" -> FilesystemRule(k, r)
                        [] k.kind = "device" -> <<"provide_device_backend", "manual_analysis">>
                        [] k.kind = "network" -> NetworkRule(k)
                        [] k.kind = "library" -> LibraryRule(k)
                        [] k.kind = "execution" -> ExecutionRule(k)
                        [] OTHER -> <<"none", "manual_analysis">>
  <2>1. Rule(k, r) = other
    BY <1>3, Zenon DEF Rule
  <2>2. other[2] # "auto_candidate"
    BY <1>3 DEF NetworkRule, LibraryRule, ExecutionRule
  <2> QED BY <2>1, <2>2
<1>4. CASE ~settled /\ ~given /\ k.kind = "filesystem"
  <2> DEFINE other == CASE k.kind = "filesystem" -> FilesystemRule(k, r)
                        [] k.kind = "device" -> <<"provide_device_backend", "manual_analysis">>
                        [] k.kind = "network" -> NetworkRule(k)
                        [] k.kind = "library" -> LibraryRule(k)
                        [] k.kind = "execution" -> ExecutionRule(k)
                        [] OTHER -> <<"none", "manual_analysis">>
  <2>1. Rule(k, r) = other
    BY <1>4, Zenon DEF Rule
  <2>2. other = FilesystemRule(k, r)
    BY <1>4
  <2> HIDE DEF other
  <2>3. FilesystemRule(k, r)[2] = "auto_candidate"
    BY <2>1, <2>2
  <2>4. k.operation = "directory_exists" /\ r.status = "unmet" /\ k.resource # RootPath
    BY <2>3 DEF FilesystemRule
  <2> QED BY <1>4, <2>4
<1> QED BY <1>1, <1>2, <1>3, <1>4

\* A directory that is planned without review is the parent of a path that the
\* guest could not create.
LEMMA AutomaticFacts ==
  ASSUME NEW b, IsBundle(b), NEW p \in Automatic(Plan(Extract(b)))
  PROVE  /\ ValidGuestPath(p) /\ p # RootPath
         /\ \E k \in Unmet(Extract(b)) : k.operation = "directory_exists" /\ k.resource = p
         /\ \E e \in ToSet(b.events) : /\ e.context = "guest" /\ e.event = "syscall" /\ Creates(e)
                                       /\ p = ParentDirectory(e.path)
<1> DEFINE r == Extract(b)
<1>1. PICK k \in DOMAIN r : PlanRequirement(k, r[k]).automatic /\ PlanRequirement(k, r[k]).key.resource = p
  BY DEF Automatic, Plan
<1> HIDE DEF r
<1>2. Rule(k, r[k])[2] = "auto_candidate" /\ k.resource = p
  BY <1>1 DEF PlanRequirement
<1>3. /\ k.operation = "directory_exists" /\ r[k].status = "unmet"
      /\ ValidGuestPath(p) /\ p # RootPath
  BY <1>2, AutomaticRule
<1>4. k \in Unmet(r)
  BY <1>3 DEF Unmet
<1>5. \E e \in ToSet(b.events) : /\ e.context = "guest" /\ e.event = "syscall" /\ Creates(e)
                                 /\ p = ParentDirectory(e.path)
  BY <1>2, <1>3, ExtractFacts DEF r
<1> QED BY <1>2, <1>3, <1>4, <1>5 DEF r

-----------------------------------------------------------------------------
(* Paths and trees                                                         *)

LEMMA ParentType ==
  ASSUME NEW p \in GuestPaths
  PROVE  /\ p.parts \in Seq(STRING) /\ Len(p.parts) \in Nat
         /\ Len(p.parts) > 1 => ParentDirectory(p).parts = Front(p.parts)
         /\ Len(p.parts) <= 1 => ParentDirectory(p).parts = <<>>
<1>1. p.parts \in Seq(STRING) /\ Len(p.parts) \in Nat
  BY DEF GuestPaths
<1>2. RootPath.parts = <<>>
  BY DEF RootPath, AbsPath
<1>3. ASSUME NEW q PROVE [p EXCEPT !.parts = q, !.tidy = TRUE].parts = q
  BY DEF GuestPaths
<1>5. CASE Len(p.parts) <= 1
  <2>1. ParentDirectory(p) = IF p.root = "" THEN RootPath ELSE [p EXCEPT !.parts = <<>>, !.tidy = TRUE]
    BY <1>5, Zenon DEF ParentDirectory
  <2>2. ParentDirectory(p) = RootPath \/ ParentDirectory(p) = [p EXCEPT !.parts = <<>>, !.tidy = TRUE]
    BY <2>1, Zenon
  <2>3. [p EXCEPT !.parts = <<>>, !.tidy = TRUE].parts = <<>>
    BY <1>3
  <2>4. ParentDirectory(p).parts = <<>>
    BY <1>2, <2>2, <2>3, Zenon
  <2> QED BY <1>1, <1>5, <2>4
<1>6. CASE Len(p.parts) > 1
  <2>1. ParentDirectory(p) = [p EXCEPT !.parts = Front(p.parts), !.tidy = TRUE]
    <3>1. ~(Len(p.parts) <= 1)
      BY <1>1, <1>6
    <3> QED BY <3>1, Zenon DEF ParentDirectory
  <2> QED BY <1>1, <1>3, <1>6, <2>1
<1> QED BY <1>1, <1>5, <1>6

\* The parent of a path, when it has components, has all but the last.
LEMMA ParentParts ==
  ASSUME NEW p \in GuestPaths, ParentDirectory(p).parts # <<>>
  PROVE  LET q == ParentDirectory(p).parts
         IN  /\ q \in Seq(STRING) /\ Len(q) \in Nat \ {0} /\ Len(p.parts) = Len(q) + 1
             /\ \A i \in 1 .. Len(q) : q[i] = p.parts[i]
             /\ p.parts \in Seq(STRING) /\ q = Front(p.parts)
<1>1. /\ p.parts \in Seq(STRING) /\ Len(p.parts) \in Nat
      /\ Len(p.parts) > 1 /\ ParentDirectory(p).parts = Front(p.parts)
  BY ParentType
<1>2. /\ Front(p.parts) \in Seq(STRING) /\ Len(Front(p.parts)) = Len(p.parts) - 1
      /\ \A i \in 1 .. Len(p.parts) - 1 : Front(p.parts)[i] = p.parts[i]
  BY <1>1 DEF Front
<1> QED BY <1>1, <1>2

\* The beginnings of a sequence.
LEMMA Beginnings ==
  ASSUME NEW p \in Seq(STRING), NEW n \in 1 .. Len(p)
  PROVE  LET q == SubSeq(p, 1, n)
         IN  /\ q \in Seq(STRING) /\ q # <<>> /\ Len(q) = n
             /\ \A i \in 1 .. n : q[i] = p[i]
             /\ \A i \in 1 .. n : SubSeq(q, 1, i) = SubSeq(p, 1, i)
             /\ n > 1 => Front(q) = SubSeq(p, 1, n - 1) /\ n - 1 \in 1 .. Len(p)
             /\ SubSeq(p, 1, Len(p)) = p
<1> DEFINE q == SubSeq(p, 1, n)
<1>1. q \in Seq(STRING) /\ Len(q) = n /\ q # <<>> /\ \A i \in 1 .. n : q[i] = p[i]
  OBVIOUS
<1>2. ASSUME NEW i \in 1 .. n PROVE SubSeq(q, 1, i) = SubSeq(p, 1, i)
  <2>1. i <= n /\ i <= Len(p) /\ i \in Nat
    OBVIOUS
  <2> HIDE DEF q
  <2>2. SubSeq(q, 1, i) = [j \in 1 .. i |-> q[j]]
    BY <1>1, <2>1
  <2>3. SubSeq(p, 1, i) = [j \in 1 .. i |-> p[j]]
    BY <2>1
  <2>4. \A j \in 1 .. i : q[j] = p[j]
    BY <1>1, <2>1
  <2> QED BY <2>2, <2>3, <2>4
<1>3. n > 1 => Front(q) = SubSeq(p, 1, n - 1) /\ n - 1 \in 1 .. Len(p)
  BY <1>1, <1>2 DEF Front
<1>4. SubSeq(p, 1, Len(p)) = p
  OBVIOUS
<1> QED BY <1>1, <1>2, <1>3, <1>4

\* A tree has every directory above an entry.
LEMMA TreePrefixes ==
  ASSUME NEW t, IsTree(t), NEW p \in DOMAIN t, NEW n \in 1 .. Len(p)
  PROVE  SubSeq(p, 1, n) \in DOMAIN t
<1>1. p \in Seq(STRING) /\ Len(p) \in Nat
  BY DEF IsTree
<1> DEFINE T == {k \in Nat : k < Len(p) => SubSeq(p, 1, Len(p) - k) \in DOMAIN t}
<1>2. 0 \in T
  <2>1. Len(p) - 0 = Len(p) /\ SubSeq(p, 1, Len(p)) = p
    BY <1>1
  <2> QED BY <2>1
<1>3. ASSUME NEW k \in Nat, k \in T PROVE k + 1 \in T
  <2> SUFFICES ASSUME k + 1 < Len(p) PROVE SubSeq(p, 1, Len(p) - (k + 1)) \in DOMAIN t
    OBVIOUS
  <2>1. SubSeq(p, 1, Len(p) - k) \in DOMAIN t
    BY <1>1, <1>3
  <2>2. Len(p) - k \in 1 .. Len(p) /\ Len(p) - k > 1 /\ Len(p) - (k + 1) = (Len(p) - k) - 1
    BY <1>1
  <2>3. /\ Len(SubSeq(p, 1, Len(p) - k)) = Len(p) - k
        /\ Front(SubSeq(p, 1, Len(p) - k)) = SubSeq(p, 1, (Len(p) - k) - 1)
    BY <1>1, <2>2, Beginnings
  <2> QED BY <2>1, <2>2, <2>3 DEF IsTree
<1>4. \A k \in Nat : k \in T
  <2> HIDE DEF T
  <2> QED BY <1>2, <1>3, SetInduction
<1>5. Len(p) - n \in Nat /\ Len(p) - n < Len(p) /\ Len(p) - (Len(p) - n) = n
  BY <1>1
<1> QED BY <1>4, <1>5

-----------------------------------------------------------------------------
(* The environment grows by need                                           *)

\* The guest's calls are where the program has them, and nothing else fails.
EventsInv ==
  \A i \in 1 .. Len(events) :
    IF events[i].event = "syscall"
      THEN /\ i <= Len(program) /\ events[i].syscall = program[i].call
           /\ events[i].path = program[i].path /\ events[i].context = program[i].context
      ELSE events[i].errno = ""

Types ==
  /\ seed \in Seeds /\ program \in Seq(Syscalls)
  /\ IsTree(env) /\ IsFiniteSet(DOMAIN tree)
  /\ IsSeq(events) /\ IsSeq(net) /\ IsSeq(stderr) /\ IsSeq(history)
  /\ \A m \in ToSet(net) : m.operation \in {"connect", "datagram_exchange"}

\* The plan is made from the artifacts of this attempt.
PlanInv == pc \in {"decide", "repair"} => reqs = Extract(Bundle) /\ plan = Plan(reqs)

NeedInv == Types /\ EventsInv /\ PlanInv /\ EnvironmentGrowsByNeed

LEMMA EventFields ==
  ASSUME NEW kind, NEW call, NEW path, NEW errno, NEW context, NEW code
  PROVE  LET e == Event(kind, call, path, errno, context, code)
         IN  /\ e.event = kind /\ e.syscall = call /\ e.path = path /\ e.errno = errno
             /\ e.context = context
  BY DEF Event

LEMMA ExitFields ==
  ASSUME NEW code
  PROVE  Exit(code).event = "process_exit" /\ Exit(code).errno = "" /\ Exit(code).context = "guest"
<1> DEFINE none == ""
<1>1. Exit(code) = Event("process_exit", none, RootPath, none, "guest", code)
  BY Zenon DEF Exit
<1> HIDE DEF none
<1>2. Exit(code).event = "process_exit" /\ Exit(code).errno = none /\ Exit(code).context = "guest"
  BY <1>1, EventFields
<1> QED BY <1>2 DEF none

\* The event of the next call.
NextCall == program[Len(events) + 1]
NextEvent == Event("syscall", NextCall.call, NextCall.path, Errno(tree, NextCall), NextCall.context, 0)
Dies == NextCall.fatal /\ Errno(tree, NextCall) # ""

LEMMA NextCallType ==
  ASSUME Types, Len(events) < Len(program)
  PROVE  /\ NextCall \in Calls /\ NextCall \in Syscalls /\ Len(events) \in Nat
         /\ Len(events) + 1 \in 1 .. Len(program)
<1>1. Len(events) \in Nat
  BY SeqFacts DEF Types
<1> QED BY <1>1, SyscallsAssumption DEF Types, NextCall

LEMMA NextEventFields ==
  /\ NextEvent.event = "syscall" /\ NextEvent.syscall = NextCall.call /\ NextEvent.path = NextCall.path
  /\ NextEvent.errno = Errno(tree, NextCall) /\ NextEvent.context = NextCall.context
  BY EventFields DEF NextEvent

LEMMA SyscallEvents ==
  ASSUME IsSeq(events), Syscall
  PROVE  /\ IsSeq(events') /\ Len(events) \in Nat
         /\ Len(events') = IF Dies THEN Len(events) + 2 ELSE Len(events) + 1
         /\ \A i \in 1 .. Len(events) : events'[i] = events[i]
         /\ events'[Len(events) + 1] = NextEvent
         /\ Dies => events'[Len(events) + 2] = Exit(1)
<1> DEFINE a == Append(events, NextEvent)
<1>0. Len(events) \in Nat
  BY SeqFacts
<1>1. events' = a \o (IF Dies THEN <<Exit(1)>> ELSE <<>>)
  BY Zenon DEF Syscall, NextEvent, NextCall, Dies
<1>2. /\ IsSeq(a) /\ Len(a) = Len(events) + 1 /\ a[Len(events) + 1] = NextEvent
      /\ \A i \in 1 .. Len(events) : a[i] = events[i]
  BY SeqAppend
<1>3. CASE Dies
  <2>1. events' = a \o <<Exit(1)>> /\ IsSeq(<<Exit(1)>>) /\ Len(<<Exit(1)>>) = 1 /\ <<Exit(1)>>[1] = Exit(1)
    BY <1>1, <1>3, SeqSmall
  <2> DEFINE x == <<Exit(1)>>
  <2> HIDE DEF a, x
  <2>2. /\ IsSeq(a \o x) /\ Len(a \o x) = Len(a) + Len(x)
        /\ \A i \in 1 .. Len(a) : (a \o x)[i] = a[i]
        /\ \A i \in 1 .. Len(x) : (a \o x)[Len(a) + i] = x[i]
    BY <1>2, <2>1, SeqConcat DEF x
  <2>3. (a \o x)[Len(events) + 2] = Exit(1)
    <3>1. Len(a) + 1 = Len(events) + 2 /\ 1 \in 1 .. Len(x)
      BY <1>0, <1>2, <2>1 DEF x
    <3> QED BY <2>1, <2>2, <3>1 DEF x
  <2>4. Len(events') = Len(events) + 2
    BY <1>0, <1>2, <2>1, <2>2 DEF x
  <2>5. \A i \in 1 .. Len(events) + 1 : events'[i] = a[i]
    BY <1>2, <2>1, <2>2 DEF x
  <2>6. \A i \in 1 .. Len(events) : events'[i] = events[i]
    BY <1>0, <1>2, <2>5
  <2>7. events'[Len(events) + 1] = NextEvent
    BY <1>0, <1>2, <2>5
  <2> QED BY <1>0, <1>3, <2>1, <2>2, <2>3, <2>4, <2>6, <2>7 DEF x
<1>4. CASE ~Dies
  <2>1. events' = a \o <<>>
    BY <1>1, <1>4
  <2> HIDE DEF a
  <2>2. /\ IsSeq(a \o <<>>) /\ Len(a \o <<>>) = Len(a) + Len(<<>>)
        /\ \A i \in 1 .. Len(a) : (a \o <<>>)[i] = a[i]
    BY <1>2, SeqSmall, SeqConcat
  <2>3. Len(events') = Len(events) + 1
    BY <1>0, <1>2, <2>1, <2>2
  <2>4. \A i \in 1 .. Len(events) + 1 : events'[i] = a[i]
    BY <1>2, <2>1, <2>2
  <2> QED BY <1>0, <1>2, <1>4, <2>1, <2>2, <2>3, <2>4
<1> QED BY <1>3, <1>4

\* The last event of a guest that ends.
LEMMA EndEvents ==
  ASSUME IsSeq(events), EndGuest
  PROVE  /\ IsSeq(events') /\ Len(events) \in Nat /\ Len(events') \in Nat
         /\ Len(events') \in Len(events) .. Len(events) + 1
         /\ \A i \in 1 .. Len(events) : events'[i] = events[i]
         /\ Len(events') = Len(events) + 1 =>
              /\ events'[Len(events) + 1].event \in {"process_exit", "signal"}
              /\ events'[Len(events) + 1].errno = ""
<1> DEFINE none == ""
           sg == Event("signal", none, RootPath, none, "guest", 0)
           Ends1 == /\ IsSeq(events') /\ Len(events) \in Nat /\ Len(events') \in Nat
                    /\ Len(events') \in Len(events) .. Len(events) + 1
                    /\ \A i \in 1 .. Len(events) : events'[i] = events[i]
                    /\ Len(events') = Len(events) + 1 =>
                         /\ events'[Len(events) + 1].event \in {"process_exit", "signal"}
                         /\ events'[Len(events) + 1].errno = none
<1>0. Len(events) \in Nat
  BY SeqFacts
<1>1. \/ events' = Append(events, Exit(0)) \/ events' = Append(events, sg) \/ events' = events
  BY Zenon DEF EndGuest
<1>x. Exit(0).event = "process_exit" /\ Exit(0).errno = none
  BY ExitFields
<1> HIDE DEF none
<1>2. sg.event = "signal" /\ sg.errno = none
  BY EventFields
<1> HIDE DEF sg
<1>3. ASSUME NEW x, events' = Append(events, x), x.event \in {"process_exit", "signal"}, x.errno = none
      PROVE  Ends1
  <2>1. /\ IsSeq(events') /\ Len(events') = Len(events) + 1 /\ events'[Len(events) + 1] = x
        /\ \A i \in 1 .. Len(events) : events'[i] = events[i]
    BY <1>3, SeqAppend
  <2> QED BY <1>0, <1>3, <2>1
<1>4. ASSUME events' = Append(events, Exit(0)) PROVE Ends1
  <2> HIDE DEF Ends1
  <2> QED BY <1>3, <1>4, <1>x
<1>5. ASSUME events' = Append(events, sg) PROVE Ends1
  <2> HIDE DEF Ends1
  <2> QED BY <1>2, <1>3, <1>5
<1>6. ASSUME events' = events PROVE Ends1
  BY <1>0, <1>6
<1>7. Ends1
  <2> HIDE DEF Ends1
  <2> QED BY <1>1, <1>4, <1>5, <1>6
<1> QED BY <1>7, Zenon DEF none

LEMMA ImageFinite ==
  ASSUME NEW S, IsFiniteSet(S), NEW f
  PROVE  IsFiniteSet({f[x] : x \in S})
<1> DEFINE g == [x \in S |-> f[x]]
           U == {f[x] : x \in S}
<1>1. g \in Surjection(S, U)
  BY DEF Surjection
<1> QED BY <1>1, FS_Surjection

LEMMA BundleType ==
  ASSUME Types
  PROVE  IsBundle(Bundle) /\ Bundle.events = events /\ Bundle.net = net /\ Bundle.stderr = stderr
<1>1. RootfsDiff \in SUBSET DOMAIN tree
  BY DEF RootfsDiff
<1>2. IsFiniteSet(RootfsDiff)
  BY <1>1, FS_Subset DEF Types
<1>3. /\ Bundle.events = events /\ Bundle.net = net /\ Bundle.stderr = stderr
      /\ Bundle.diff = RootfsDiff
  BY DEF Bundle
<1> QED BY <1>2, <1>3 DEF Types, IsBundle

\* What the plan makes without review is the parent of a path that a creating call
\* of the guest names.
LEMMA PlannedIsNeeded ==
  ASSUME NeedInv, pc \in {"decide", "repair"}, NEW p \in Automatic(plan)
  PROVE  /\ ValidGuestPath(p)
         /\ p.parts \in Seq(STRING) /\ Len(p.parts) \in Nat \ {0}
         /\ \E n \in GuestCreates : /\ p = ParentDirectory(program[n].path)
                                    /\ Len(program[n].path.parts) = Len(p.parts) + 1
                                    /\ program[n].path.parts \in Seq(STRING)
                                    /\ \A i \in 1 .. Len(p.parts) : p.parts[i] = program[n].path.parts[i]
<1>1. IsBundle(Bundle) /\ Bundle.events = events
  BY BundleType DEF NeedInv
<1>2. p \in Automatic(Plan(Extract(Bundle)))
  BY DEF NeedInv, PlanInv
<1>3. /\ ValidGuestPath(p) /\ p # RootPath
      /\ \E e \in ToSet(events) : /\ e.context = "guest" /\ e.event = "syscall" /\ Creates(e)
                                  /\ p = ParentDirectory(e.path)
  BY <1>1, <1>2, AutomaticFacts
<1>4. PICK n \in 1 .. Len(events) : /\ events[n].context = "guest" /\ events[n].event = "syscall"
                                    /\ Creates(events[n]) /\ p = ParentDirectory(events[n].path)
  <2>1. ToSet(events) = {events[i] : i \in 1 .. Len(events)}
    BY SeqFacts DEF NeedInv, Types
  <2> QED BY <1>3, <2>1
<1>5. /\ n <= Len(program) /\ program[n].call \in {"mkdir", "creat"} /\ program[n].context = "guest"
      /\ events[n].path = program[n].path
  BY <1>4 DEF NeedInv, EventsInv, Creates
<1>6. n \in 1 .. Len(program)
  BY <1>5, SeqFacts DEF NeedInv, Types
<1>7. n \in GuestCreates
  BY <1>5, <1>6 DEF GuestCreates
<1>8. program[n].path \in GuestPaths
  <2>1. program[n] \in Calls
    BY <1>6, SyscallsAssumption DEF NeedInv, Types
  <2> QED BY <2>1 DEF Calls
<1>9. p.parts # <<>>
  BY <1>3 DEF ValidGuestPath
<1>10. p = ParentDirectory(program[n].path)
  BY <1>4, <1>5
<1>11. /\ p.parts \in Seq(STRING) /\ Len(p.parts) \in Nat \ {0}
       /\ Len(program[n].path.parts) = Len(p.parts) + 1
       /\ program[n].path.parts \in Seq(STRING)
       /\ \A i \in 1 .. Len(p.parts) : p.parts[i] = program[n].path.parts[i]
  BY <1>8, <1>9, <1>10, ParentParts
<1> QED BY <1>3, <1>7, <1>10, <1>11

LEMMA AddedIs ==
  \A q : q \in Added <=> q \notin DOMAIN env /\ \E p \in Automatic(plan) : q \in Along(p)
<1> TAKE q
<1> DEFINE A == Automatic(plan)
           U == UNION {Along(p) : p \in A}
<1>1. Added = U \ DOMAIN env
  BY DEF Added
<1>2. q \in U <=> \E p \in A : q \in Along(p)
  <2> HIDE DEF A
  <2> QED OBVIOUS
<1> HIDE DEF U
<1> QED BY <1>1, <1>2

\* The new directories, one by one.
LEMMA AddedFacts ==
  ASSUME NeedInv, pc = "repair", NEW q \in Added
  PROVE  /\ q \in Seq(STRING) /\ q # <<>> /\ Len(q) \in Nat
         /\ q \notin DOMAIN env
         /\ \E p \in Automatic(plan) :
              /\ Len(q) \in 1 .. Len(p.parts) /\ q = SubSeq(p.parts, 1, Len(q)) /\ q \in Along(p)
         /\ \A i \in 1 .. Len(q) : q[i] # ".." /\ SubSeq(q, 1, i) \in DOMAIN env \cup Added
         /\ Len(q) > 1 => Front(q) \in DOMAIN env \cup Added
         /\ \E n \in GuestCreates :
              Len(q) < Len(program[n].path.parts) /\ IsPrefix(q, program[n].path.parts)
<1>1. q \notin DOMAIN env
  BY AddedIs
<1>a. PICK p \in Automatic(plan) : q \in Along(p)
  BY AddedIs
<1>2. PICK m \in 1 .. Len(p.parts) : q = SubSeq(p.parts, 1, m)
  BY <1>a DEF Along
<1>3. ValidGuestPath(p) /\ p.parts \in Seq(STRING) /\ Len(p.parts) \in Nat \ {0}
  BY PlannedIsNeeded
<1>4. PICK n \in GuestCreates : /\ Len(program[n].path.parts) = Len(p.parts) + 1
                                /\ program[n].path.parts \in Seq(STRING)
                                /\ \A i \in 1 .. Len(p.parts) : p.parts[i] = program[n].path.parts[i]
  BY PlannedIsNeeded
<1>5. /\ q \in Seq(STRING) /\ q # <<>> /\ Len(q) = m /\ m \in Nat
      /\ \A i \in 1 .. m : q[i] = p.parts[i]
      /\ \A i \in 1 .. m : SubSeq(q, 1, i) = SubSeq(p.parts, 1, i)
      /\ m > 1 => Front(q) = SubSeq(p.parts, 1, m - 1) /\ m - 1 \in 1 .. Len(p.parts)
  BY <1>2, <1>3, Beginnings
<1>6. \A i \in 1 .. Len(p.parts) : SubSeq(p.parts, 1, i) \in DOMAIN env \cup Added
  BY AddedIs DEF Along
<1>7. ASSUME NEW i \in 1 .. m PROVE q[i] # ".." /\ SubSeq(q, 1, i) \in DOMAIN env \cup Added
  <2>1. i \in 1 .. Len(p.parts)
    BY <1>2, <1>3
  <2>2. p.parts[i] # ".."
    BY <1>3, <2>1 DEF ValidGuestPath
  <2> QED BY <1>5, <1>6, <2>1, <2>2
<1>8. m > 1 => Front(q) \in DOMAIN env \cup Added
  BY <1>5, <1>6
<1>9. m < Len(program[n].path.parts) /\ IsPrefix(q, program[n].path.parts)
  <2> DEFINE x == program[n].path.parts
  <2> HIDE DEF x
  <2>1. m <= Len(p.parts) /\ Len(x) = Len(p.parts) + 1 /\ x \in Seq(STRING) /\ m \in Nat
    BY <1>2, <1>3, <1>4 DEF x
  <2>2. SubSeq(x, 1, m) = [i \in 1 .. m |-> x[i]] /\ SubSeq(q, 1, m) = [i \in 1 .. m |-> q[i]]
    BY <1>3, <1>5, <2>1
  <2>3. \A i \in 1 .. m : q[i] = x[i]
    BY <1>2, <1>3, <1>4, <1>5 DEF x
  <2>4. SubSeq(x, 1, m) = SubSeq(q, 1, m)
    BY <2>2, <2>3
  <2>5. m < Len(x) /\ m <= Len(x)
    BY <1>3, <2>1
  <2> QED BY <1>5, <2>4, <2>5 DEF IsPrefix, x
<1>10. q \in Along(p)
  BY <1>2 DEF Along
<1> QED BY <1>1, <1>2, <1>5, <1>7, <1>8, <1>9, <1>10

LEMMA AddedFinite ==
  ASSUME NeedInv, pc = "repair"
  PROVE  IsFiniteSet(Added)
<1> DEFINE A == Automatic(plan)
           g == [n \in 1 .. Len(program) |-> ParentDirectory(program[n].path)]
           h == [p \in A |-> Along(p)]
<1>1. IsFiniteSet(1 .. Len(program))
  <2>1. Len(program) \in Int /\ 1 \in Int
    BY DEF NeedInv, Types
  <2> QED BY <2>1, FS_Interval
<1>2. IsFiniteSet({g[n] : n \in 1 .. Len(program)})
  BY <1>1, ImageFinite
<1>3. A \in SUBSET {g[n] : n \in 1 .. Len(program)}
  BY PlannedIsNeeded DEF GuestCreates
<1>4. IsFiniteSet(A)
  BY <1>2, <1>3, FS_Subset
<1>5. ASSUME NEW p \in A PROVE IsFiniteSet(Along(p))
  <2> DEFINE f == [i \in 1 .. Len(p.parts) |-> SubSeq(p.parts, 1, i)]
  <2>1. Len(p.parts) \in Int /\ 1 \in Int
    BY PlannedIsNeeded
  <2>2. IsFiniteSet(1 .. Len(p.parts))
    BY <2>1, FS_Interval
  <2>3. IsFiniteSet({f[i] : i \in 1 .. Len(p.parts)})
    BY <2>2, ImageFinite
  <2>4. {f[i] : i \in 1 .. Len(p.parts)} = Along(p)
    BY DEF Along
  <2> QED BY <2>3, <2>4
<1>6. IsFiniteSet({h[p] : p \in A}) /\ {h[p] : p \in A} = {Along(p) : p \in A}
  BY <1>4, ImageFinite
<1>7. IsFiniteSet(UNION {Along(p) : p \in A})
  BY <1>5, <1>6, FS_UNION
<1>8. Added \in SUBSET UNION {Along(p) : p \in A}
  BY DEF Added
<1> QED BY <1>7, <1>8, FS_Subset

LEMMA NeedInit == Init => NeedInv
<1> SUFFICES ASSUME Init PROVE NeedInv
  OBVIOUS
<1>1. program \in Seq(Syscalls)
  BY BudgetAssumption DEF Init
<1>2. seed \in Seeds /\ IsTree(seed) /\ env = seed /\ tree = seed
  BY SeedsAssumption DEF Init
<1>3. /\ IsSeq(events) /\ IsSeq(net) /\ IsSeq(stderr) /\ IsSeq(history)
      /\ ToSet(net) = {} /\ Len(events) = 0
  BY SeqSmall DEF Init
<1>4. Types
  BY <1>1, <1>2, <1>3 DEF Types, IsTree
<1>5. EventsInv
  <2>1. 1 .. Len(events) = {}
    BY <1>3
  <2> QED BY <2>1 DEF EventsInv
<1>6. PlanInv
  BY DEF PlanInv, Init
<1>7. EnvironmentGrowsByNeed
  BY <1>2 DEF EnvironmentGrowsByNeed
<1> QED BY <1>4, <1>5, <1>6, <1>7 DEF NeedInv

LEMMA EffectFinite ==
  ASSUME NEW t, IsFiniteSet(DOMAIN t), NEW c
  PROVE  IsFiniteSet(DOMAIN Effect(t, c))
<1>1. \A p, kind : IsFiniteSet(DOMAIN Put(t, p, kind))
  <2> TAKE p, kind
  <2>1. DOMAIN Put(t, p, kind) = DOMAIN t \cup {p}
    BY DEF Put
  <2> QED BY <2>1, FS_AddElement
<1> DEFINE node == Walk(t, c.path).node
<1>2. IsFiniteSet(DOMAIN [q \in DOMAIN t \ {node} |-> t[q]])
  <2> HIDE DEF node
  <2>1. DOMAIN [q \in DOMAIN t \ {node} |-> t[q]] = DOMAIN t \ {node}
    OBVIOUS
  <2> QED BY <2>1, FS_RemoveElement
<1>3. \/ \E p, kind : Effect(t, c) = Put(t, p, kind)
      \/ Effect(t, c) = [q \in DOMAIN t \ {node} |-> t[q]]
      \/ Effect(t, c) = t
  BY Zenon DEF Effect
<1> HIDE DEF node
<1>4. CASE \E p, kind : Effect(t, c) = Put(t, p, kind)
  BY <1>1, <1>4
<1>5. CASE Effect(t, c) = [q \in DOMAIN t \ {node} |-> t[q]]
  BY <1>2, <1>5
<1>6. CASE Effect(t, c) = t
  BY <1>6
<1> QED BY <1>3, <1>4, <1>5, <1>6

LEMMA NeedStart == NeedInv /\ StartGuest => NeedInv'
<1> SUFFICES ASSUME NeedInv, StartGuest PROVE NeedInv'
  OBVIOUS
<1> USE DEF StartGuest, input
<1>1. /\ IsSeq(events)' /\ IsSeq(net)' /\ IsSeq(stderr)' /\ ToSet(net') = {} /\ Len(events') = 0
  BY SeqSmall
<1>2. IsFiniteSet(DOMAIN tree')
  BY DEF NeedInv, Types, IsTree
<1>3. Types'
  BY <1>1, <1>2 DEF NeedInv, Types, IsTree, IsSeq
<1>4. EventsInv'
  <2>1. (1 .. Len(events))' = {}
    BY <1>1
  <2> QED BY <2>1 DEF EventsInv
<1>5. PlanInv'
  BY DEF PlanInv
<1>6. EnvironmentGrowsByNeed'
  BY DEF NeedInv, EnvironmentGrowsByNeed, GuestCreates
<1> QED BY <1>3, <1>4, <1>5, <1>6 DEF NeedInv

LEMMA NeedSyscall == NeedInv /\ Syscall => NeedInv'
<1> SUFFICES ASSUME NeedInv, Syscall PROVE NeedInv'
  OBVIOUS
<1> DEFINE L == Len(events)
<1>0. /\ seed' = seed /\ program' = program /\ env' = env /\ stderr' = stderr /\ history' = history
      /\ pc' \in {"observe", "guest"} /\ pc = "guest" /\ Len(events) < Len(program)
  BY DEF Syscall, input
<1>1. /\ IsSeq(events') /\ L \in Nat
      /\ Len(events') = IF Dies THEN L + 2 ELSE L + 1
      /\ \A i \in 1 .. L : events'[i] = events[i]
      /\ events'[L + 1] = NextEvent
      /\ Dies => events'[L + 2] = Exit(1)
  BY SyscallEvents DEF NeedInv, Types
<1>2. IsFiniteSet(DOMAIN tree')
  <2>1. tree' = Effect(tree, NextCall) \/ tree' = tree
    BY Zenon DEF Syscall, NextCall
  <2>2. IsFiniteSet(DOMAIN Effect(tree, NextCall)) /\ IsFiniteSet(DOMAIN tree)
    BY EffectFinite DEF NeedInv, Types
  <2> QED BY <2>1, <2>2
<1>3. IsSeq(net') /\ \A m \in ToSet(net') : m.operation \in {"connect", "datagram_exchange"}
  <2> DEFINE msg == [operation |-> IF NextCall.call = "connect" THEN "connect" ELSE "datagram_exchange",
                     endpoint |-> NextCall.path, answered |-> NextCall.answered]
  <2>1. net' = Append(net, msg) \/ net' = net
    BY Zenon DEF Syscall, NextCall
  <2>2. msg.operation \in {"connect", "datagram_exchange"}
    OBVIOUS
  <2> HIDE DEF msg
  <2>3. IsSeq(Append(net, msg)) /\ ToSet(Append(net, msg)) = ToSet(net) \cup {msg}
    BY SeqAppend DEF NeedInv, Types
  <2> QED BY <2>1, <2>2, <2>3 DEF NeedInv, Types
<1>4. Types'
  BY <1>0, <1>1, <1>2, <1>3 DEF NeedInv, Types, IsTree, IsSeq
<1>5. EventsInv'
  <2> SUFFICES ASSUME NEW i \in 1 .. Len(events')
               PROVE  IF events'[i].event = "syscall"
                        THEN /\ i <= Len(program) /\ events'[i].syscall = program[i].call
                             /\ events'[i].path = program[i].path /\ events'[i].context = program[i].context
                        ELSE events'[i].errno = ""
    BY <1>0 DEF EventsInv
  <2>1. CASE i \in 1 .. L
    BY <1>1, <2>1 DEF NeedInv, EventsInv
  <2>2. CASE i = L + 1
    <3>1. i <= Len(program)
      BY <1>0, <1>1, <2>2 DEF NeedInv, Types
    <3> QED BY <1>1, <2>2, <3>1, NextEventFields DEF NextCall
  <2>3. CASE Dies /\ i = L + 2
    <3>1. events'[i].event = "process_exit" /\ events'[i].errno = ""
      BY <1>1, <2>3, ExitFields
    <3>2. events'[i].event # "syscall"
      BY <3>1
    <3> QED BY <3>1, <3>2, Zenon
  <2>4. i \in 1 .. L \/ i = L + 1 \/ (Dies /\ i = L + 2)
    BY <1>1
  <2> QED BY <2>1, <2>2, <2>3, <2>4
<1>6. PlanInv'
  BY <1>0 DEF PlanInv
<1>7. EnvironmentGrowsByNeed'
  BY <1>0 DEF NeedInv, EnvironmentGrowsByNeed, GuestCreates
<1> QED BY <1>4, <1>5, <1>6, <1>7 DEF NeedInv

LEMMA NeedEnd == NeedInv /\ EndGuest => NeedInv'
<1> SUFFICES ASSUME NeedInv, EndGuest PROVE NeedInv'
  OBVIOUS
<1>0. /\ seed' = seed /\ program' = program /\ env' = env /\ tree' = tree /\ net' = net
      /\ history' = history /\ pc' = "observe"
  BY DEF EndGuest, input
<1>1. /\ IsSeq(events') /\ Len(events) \in Nat /\ Len(events') \in Nat
      /\ Len(events') \in Len(events) .. Len(events) + 1
      /\ \A i \in 1 .. Len(events) : events'[i] = events[i]
      /\ Len(events') = Len(events) + 1 =>
           /\ events'[Len(events) + 1].event \in {"process_exit", "signal"}
           /\ events'[Len(events) + 1].errno = ""
  BY EndEvents DEF NeedInv, Types
<1>2. IsSeq(stderr')
  <2>1. stderr' = <<end>> \/ stderr' = stderr
    BY Zenon DEF EndGuest
  <2> QED BY <2>1, SeqSmall DEF NeedInv, Types
<1>4. Types'
  BY <1>0, <1>1, <1>2 DEF NeedInv, Types, IsTree, IsSeq
<1>5. EventsInv'
  <2> SUFFICES ASSUME NEW i \in 1 .. Len(events')
               PROVE  IF events'[i].event = "syscall"
                        THEN /\ i <= Len(program) /\ events'[i].syscall = program[i].call
                             /\ events'[i].path = program[i].path /\ events'[i].context = program[i].context
                        ELSE events'[i].errno = ""
    BY <1>0 DEF EventsInv
  <2>1. CASE i \in 1 .. Len(events)
    BY <1>1, <2>1 DEF NeedInv, EventsInv
  <2>2. CASE i \notin 1 .. Len(events)
    <3>0. /\ Len(events) \in Nat /\ Len(events') \in Nat
          /\ Len(events') \in Len(events) .. Len(events) + 1
      BY <1>1, Zenon
    <3>1. i = Len(events) + 1 /\ Len(events') = Len(events) + 1
      BY <2>2, <3>0
    <3>2. events'[i].event # "syscall"
      <4>1. events'[i].event \in {"process_exit", "signal"}
        BY <1>1, <3>1, Zenon
      <4> QED BY <4>1
    <3> QED BY <1>1, <3>1, <3>2, Zenon
  <2> QED BY <2>1, <2>2
<1>6. PlanInv'
  BY <1>0 DEF PlanInv
<1>7. EnvironmentGrowsByNeed'
  BY <1>0 DEF NeedInv, EnvironmentGrowsByNeed, GuestCreates
<1> QED BY <1>4, <1>5, <1>6, <1>7 DEF NeedInv

LEMMA NeedApply == NeedInv /\ ApplyPlan => NeedInv'
<1> SUFFICES ASSUME NeedInv, ApplyPlan PROVE NeedInv'
  OBVIOUS
<1>0. /\ seed' = seed /\ program' = program /\ tree' = tree /\ net' = net /\ events' = events
      /\ stderr' = stderr /\ history' = history /\ pc' = "start" /\ pc = "repair"
  BY DEF ApplyPlan, input, run
<1>1. /\ DOMAIN env' = DOMAIN env \cup Added
      /\ \A p \in DOMAIN env : env'[p] = env[p]
      /\ \A p \in Added : env'[p] = "dir"
  BY AddedIs DEF ApplyPlan
<1>2. IsTree(env)'
  <2>1. IsFiniteSet(DOMAIN env')
    <3>1. IsFiniteSet(Added) /\ IsFiniteSet(DOMAIN env)
      BY <1>0, AddedFinite DEF NeedInv, Types, IsTree
    <3>2. IsFiniteSet(DOMAIN env \cup Added)
      BY <3>1, FS_Union
    <3> QED BY <1>1, <3>2
  <2>2. ASSUME NEW p \in DOMAIN env'
        PROVE  /\ p \in Seq(STRING) /\ p # <<>> /\ env'[p] \in {"dir", "file", "link"}
               /\ Len(p) > 1 => Front(p) \in DOMAIN env'
    <3>1. CASE p \in DOMAIN env
      BY <1>1, <3>1 DEF NeedInv, Types, IsTree
    <3>2. CASE p \in Added
      BY <1>0, <1>1, <3>2, AddedFacts
    <3> QED BY <1>1, <2>2, <3>1, <3>2
  <2>3. env' = [p \in DOMAIN env' |-> env'[p]]
    BY DEF ApplyPlan
  <2>4. env' \in [DOMAIN env' -> {"dir", "file", "link"}]
    BY <2>2, <2>3
  <2> QED BY <2>1, <2>2, <2>4 DEF IsTree
<1>3. Types'
  BY <1>0, <1>2 DEF NeedInv, Types, IsSeq
<1>4. EventsInv'
  BY <1>0 DEF NeedInv, EventsInv
<1>5. PlanInv'
  BY <1>0 DEF PlanInv
<1>6. EnvironmentGrowsByNeed'
  <2>1. DOMAIN seed' \subseteq DOMAIN env'
    BY <1>0, <1>1 DEF NeedInv, EnvironmentGrowsByNeed
  <2>0. GuestCreates' = GuestCreates
    BY <1>0 DEF GuestCreates
  <2>2. ASSUME NEW p \in DOMAIN env'
        PROVE  IF p \in DOMAIN seed THEN env'[p] = seed[p]
               ELSE /\ env'[p] = "dir"
                    /\ \E n \in GuestCreates :
                         Len(p) < Len(program[n].path.parts) /\ IsPrefix(p, program[n].path.parts)
    <3>1. CASE p \in DOMAIN env
      BY <1>1, <3>1 DEF NeedInv, EnvironmentGrowsByNeed
    <3>2. CASE p \in Added
      <4>1. p \notin DOMAIN seed
        BY <3>2, AddedIs DEF NeedInv, EnvironmentGrowsByNeed
      <4>2. \E n \in GuestCreates :
              Len(p) < Len(program[n].path.parts) /\ IsPrefix(p, program[n].path.parts)
        BY <1>0, <3>2, AddedFacts
      <4> QED BY <1>1, <3>2, <4>1, <4>2
    <3> QED BY <1>1, <2>2, <3>1, <3>2
  <2> QED BY <1>0, <2>0, <2>1, <2>2 DEF EnvironmentGrowsByNeed
<1> QED BY <1>3, <1>4, <1>5, <1>6 DEF NeedInv

LEMMA NeedNext == NeedInv /\ [Next]_vars => NeedInv'
<1> SUFFICES ASSUME NeedInv, [Next]_vars PROVE NeedInv'
  OBVIOUS
<1>1. CASE StartGuest
  BY <1>1, NeedStart
<1>2. CASE Syscall
  BY <1>2, NeedSyscall
<1>3. CASE EndGuest
  BY <1>3, NeedEnd
<1>4. CASE Postprocess
  <2>1. /\ UNCHANGED <<seed, program, env, tree, written, events, net, stderr, history>>
        /\ reqs' = Extract(Bundle) /\ plan' = Plan(Extract(Bundle))
    BY <1>4 DEF Postprocess, input, run
  <2>2. Types' /\ EventsInv' /\ EnvironmentGrowsByNeed'
    BY <2>1 DEF NeedInv, Types, IsTree, IsSeq, EventsInv, EnvironmentGrowsByNeed, GuestCreates
  <2>3. Bundle' = Bundle
    BY <2>1 DEF Bundle, RootfsDiff
  <2>4. PlanInv'
    BY <2>1, <2>3 DEF PlanInv
  <2> QED BY <2>2, <2>4 DEF NeedInv
<1>5. CASE Decide
  <2>1. /\ UNCHANGED <<seed, program, env, tree, written, events, net, stderr, reqs, plan>>
        /\ history' = Append(history, Observation) /\ pc = "decide"
    BY <1>5 DEF Decide, input, run
  <2>2. IsSeq(history')
    BY <2>1, SeqAppend DEF NeedInv, Types
  <2>3. Types' /\ EventsInv' /\ EnvironmentGrowsByNeed'
    BY <2>1, <2>2 DEF NeedInv, Types, IsTree, IsSeq, EventsInv, EnvironmentGrowsByNeed, GuestCreates
  <2>4. Bundle' = Bundle
    BY <2>1 DEF Bundle, RootfsDiff
  <2>5. PlanInv'
    BY <2>1, <2>4 DEF NeedInv, PlanInv
  <2> QED BY <2>3, <2>5 DEF NeedInv
<1>6. CASE ApplyPlan
  BY <1>6, NeedApply
<1>7. CASE PlanRefused
  <2>1. UNCHANGED <<seed, program, env, tree, written, events, net, stderr, history>> /\ pc' = "done"
    BY <1>7 DEF PlanRefused, input, run
  <2>2. Types' /\ EventsInv' /\ EnvironmentGrowsByNeed'
    BY <2>1 DEF NeedInv, Types, IsTree, IsSeq, EventsInv, EnvironmentGrowsByNeed, GuestCreates
  <2>3. PlanInv'
    BY <2>1 DEF PlanInv
  <2> QED BY <2>2, <2>3 DEF NeedInv
<1>8. CASE UNCHANGED vars
  <2>1. UNCHANGED <<seed, program, env, pc, tree, written, events, net, stderr, reqs, plan, history>>
    BY <1>8 DEF vars, input, run
  <2>2. Types' /\ EventsInv' /\ EnvironmentGrowsByNeed'
    BY <2>1 DEF NeedInv, Types, IsTree, IsSeq, EventsInv, EnvironmentGrowsByNeed, GuestCreates
  <2>3. Bundle' = Bundle
    BY <2>1 DEF Bundle, RootfsDiff
  <2>4. PlanInv'
    BY <2>1, <2>3 DEF NeedInv, PlanInv
  <2> QED BY <2>2, <2>4 DEF NeedInv
<1> QED BY <1>1, <1>2, <1>3, <1>4, <1>5, <1>6, <1>7, <1>8 DEF Next

\* The environment keeps the seed and gains only directories above a path that the
\* guest itself tried to create, over all rounds of extraction, planning and
\* repair (_postprocess, RepairPlanner.plan, _build_repaired_snapshot).
THEOREM EnvironmentGrows == Spec => []EnvironmentGrowsByNeed
<1>1. NeedInv => EnvironmentGrowsByNeed
  BY DEF NeedInv
<1> QED BY <1>1, NeedInit, NeedNext, PTL DEF Spec

-----------------------------------------------------------------------------
(* A repair heals                                                          *)

Removes(i) == program[i].call = "rmdir" /\ events[i].errno = ""

\* What this attempt's environment has beyond that of the attempt before: whole
\* paths of directories.
Grown(old, new) ==
  /\ IsTree(old)
  /\ \A q \in DOMAIN new \ DOMAIN old :
       \A i \in 1 .. Len(q) : /\ q[i] # ".." /\ SubSeq(q, 1, i) \in DOMAIN new
                              /\ new[SubSeq(q, 1, i)] = "dir"
GrownInv ==
  history # <<>> =>
    /\ pc = "repair" => Last(history).env = env
    /\ pc \in {"start", "guest", "observe", "decide"} => Grown(Last(history).env, env)

\* The guest makes no links, and its directories stay until it removes one.
TreeInv ==
  pc = "guest" =>
    /\ \A q \in DOMAIN tree : tree[q] = "link" => q \in DOMAIN env /\ env[q] = "link"
    /\ (\A i \in 1 .. Len(events) : ~Removes(i)) =>
         \A q \in DOMAIN env : env[q] = "dir" => q \in DOMAIN tree /\ tree[q] = "dir"

\* A call whose directory was made after the last attempt does not miss it.
HealsInv ==
  pc \in {"guest", "observe", "decide"} /\ history # <<>> =>
    \A n \in 1 .. Len(events) :
      /\ events[n].event = "syscall" /\ Creates(events[n])
      /\ ParentDirectory(program[n].path).parts \in DOMAIN env \ DOMAIN Last(history).env
      => \E m \in 1 .. n - 1 : Removes(m)

HealthInv == GrownInv /\ TreeInv /\ HealsInv

LEMMA LastOfAppend ==
  ASSUME NEW h, IsSeq(h), NEW x
  PROVE  Last(Append(h, x)) = x /\ Append(h, x) # <<>>
<1>1. Len(h) \in Nat
  BY SeqFacts
<1>2. Len(Append(h, x)) = Len(h) + 1 /\ Append(h, x)[Len(h) + 1] = x
  BY SeqAppend
<1>3. Append(h, x) # <<>>
  <2>1. Len(Append(h, x)) # 0
    BY <1>1, <1>2
  <2> QED BY <2>1, SeqSmall
<1> QED BY <1>2, <1>3 DEF Last

\* One step of a walk out of a directory.
LEMMA WalkDir ==
  ASSUME NEW t, NEW s, Kind(t, s) = "dir", NEW name
  PROVE  WalkInto(t, At(s), name) = At(IF name = ".." THEN Up(s) ELSE Append(s, name))
<1> DEFINE none == ""
           at == [errno |-> none, node |-> s]
           to == IF name = ".." THEN Up(s) ELSE Append(s, name)
<1>1. at.errno = none /\ at.node = s
  OBVIOUS
<1>2. Follow(t, s) = s
  BY DEF Follow
<1>3. WalkInto(t, at, name) =
        IF at.errno # none THEN at
        ELSE CASE Kind(t, Follow(t, at.node)) = "absent" -> [at EXCEPT !.errno = "ENOENT"]
               [] Kind(t, Follow(t, at.node)) \in {"file", "link"} -> [at EXCEPT !.errno = "ENOTDIR"]
               [] Kind(t, Follow(t, at.node)) = "dir" ->
                    [at EXCEPT !.node = IF name = ".." THEN Up(Follow(t, at.node))
                                        ELSE Append(Follow(t, at.node), name)]
  BY Zenon DEF WalkInto
<1> HIDE DEF none
<1>4. [at EXCEPT !.node = to] = [errno |-> none, node |-> to]
  <2> HIDE DEF to
  <2> QED OBVIOUS
<1> HIDE DEF at
<1>5. WalkInto(t, at, name) = [at EXCEPT !.node = IF name = ".." THEN Up(s) ELSE Append(s, name)]
  BY <1>1, <1>2, <1>3
<1>6. WalkInto(t, at, name) = [errno |-> none, node |-> to]
  BY <1>4, <1>5
<1>7. at = At(s) /\ [errno |-> none, node |-> to] = At(to)
  BY Zenon DEF At, at, none
<1> QED BY <1>6, <1>7 DEF to

\* A walk along directories arrives.
LEMMA WalkArrives ==
  ASSUME NEW t, NEW x \in GuestPaths, NEW P \in Seq(STRING), P = ParentDirectory(x).parts, P # <<>>,
         \A i \in 1 .. Len(P) : P[i] # ".." /\ Kind(t, SubSeq(P, 1, i)) = "dir"
  PROVE  \E last : Walk(t, x) = At(IF last = ".." THEN Up(P) ELSE Append(P, last))
<1>1. /\ x.parts \in Seq(STRING) /\ Len(P) \in Nat \ {0} /\ Len(x.parts) = Len(P) + 1
      /\ \A i \in 1 .. Len(P) : P[i] = x.parts[i]
  BY ParentParts
<1>2. PICK f : /\ f[0] = At(<<>>)
               /\ \A n \in 1 .. Len(x.parts) : f[n] = WalkInto(t, f[n - 1], x.parts[n])
               /\ Walk(t, x) = f[Len(x.parts)]
  <2>1. x.parts \in Seq(STRING)
    BY <1>1
  <2> QED BY <2>1, WalkFold
<1> DEFINE T == {n \in Nat : n <= Len(P) => f[n] = At(SubSeq(P, 1, n))}
<1>3. \A s, name : Kind(t, s) = "dir" =>
        WalkInto(t, At(s), name) = At(IF name = ".." THEN Up(s) ELSE Append(s, name))
  BY WalkDir
<1>5. 0 \in T
  <2>1. SubSeq(P, 1, 0) = <<>>
    OBVIOUS
  <2> QED BY <1>2, <2>1
<1>6. \A n \in 0 .. Len(P) : Kind(t, SubSeq(P, 1, n)) = "dir"
  <2> TAKE n \in 0 .. Len(P)
  <2>1. CASE n = 0
    <3>1. SubSeq(P, 1, n) = <<>>
      BY <2>1
    <3> QED BY <3>1 DEF Kind
  <2>2. CASE n # 0
    <3>1. n \in 1 .. Len(P)
      BY <1>1, <2>2
    <3> QED BY <3>1
  <2> QED BY <2>1, <2>2
<1>7. ASSUME NEW n \in Nat, n \in T PROVE n + 1 \in T
  <2> SUFFICES ASSUME n + 1 <= Len(P) PROVE f[n + 1] = At(SubSeq(P, 1, n + 1))
    OBVIOUS
  <2>1. n + 1 \in 1 .. Len(x.parts) /\ (n + 1) - 1 = n /\ n \in 0 .. Len(P) /\ n + 1 \in 1 .. Len(P)
        /\ n <= Len(P)
    BY <1>1
  <2>2. f[n] = At(SubSeq(P, 1, n))
    BY <1>7, <2>1
  <2>3. f[n + 1] = WalkInto(t, At(SubSeq(P, 1, n)), P[n + 1])
    BY <1>1, <1>2, <2>1, <2>2
  <2>4. Kind(t, SubSeq(P, 1, n)) = "dir" /\ P[n + 1] # ".."
    BY <1>6, <2>1
  <2>5. Append(SubSeq(P, 1, n), P[n + 1]) = SubSeq(P, 1, n + 1)
    BY <2>1
  <2>6. WalkInto(t, At(SubSeq(P, 1, n)), P[n + 1]) = At(Append(SubSeq(P, 1, n), P[n + 1]))
    BY <1>3, <2>4
  <2> QED BY <2>3, <2>5, <2>6
<1>8. \A n \in Nat : n \in T
  <2> HIDE DEF T
  <2> QED BY <1>5, <1>7, SetInduction
<1>9. f[Len(P)] = At(P) /\ Kind(t, P) = "dir"
  <2>1. SubSeq(P, 1, Len(P)) = P /\ Len(P) \in Nat /\ Len(P) \in 0 .. Len(P)
    BY <1>1
  <2>2. Len(P) \in T
    BY <1>8, <2>1
  <2>3. f[Len(P)] = At(SubSeq(P, 1, Len(P)))
    BY <2>1, <2>2
  <2>4. Kind(t, SubSeq(P, 1, Len(P))) = "dir"
    BY <1>6, <2>1
  <2> QED BY <2>1, <2>3, <2>4
<1>10. Len(x.parts) \in 1 .. Len(x.parts) /\ Len(x.parts) - 1 = Len(P)
  BY <1>1
<1> DEFINE last == x.parts[Len(x.parts)]
<1>11. Walk(t, x) = WalkInto(t, At(P), last)
  BY <1>2, <1>9, <1>10
<1>12. Walk(t, x) = At(IF last = ".." THEN Up(P) ELSE Append(P, last))
  BY <1>3, <1>9, <1>11
<1> QED BY <1>12

\* A creating call below such a directory does not miss it.
LEMMA CreateArrives ==
  ASSUME NEW t, NEW c \in Calls, c.call \in {"mkdir", "creat"},
         NEW P \in Seq(STRING), P = ParentDirectory(c.path).parts, P # <<>>,
         \A i \in 1 .. Len(P) : P[i] # ".." /\ Kind(t, SubSeq(P, 1, i)) = "dir",
         \A last : Kind(t, Append(P, last)) # "link"
  PROVE  Errno(t, c) # "ENOENT"
<1> DEFINE none == ""
<1>0. c.path \in GuestPaths /\ c.errno # "ENOENT" /\ Len(P) \in Nat \ {0}
  BY DEF Calls
<1>a. Len(P) \in Nat /\ Len(P) # 0
  BY <1>0
<1>1. PICK last : Walk(t, c.path) = At(IF last = ".." THEN Up(P) ELSE Append(P, last))
  BY <1>0, WalkArrives
<1> DEFINE node == IF last = ".." THEN Up(P) ELSE Append(P, last)
<1>2. Walk(t, c.path).errno = none /\ Walk(t, c.path).node = node
  <2>1. Walk(t, c.path) = At(node)
    BY <1>1
  <2> HIDE DEF node
  <2>2. At(node) = [errno |-> none, node |-> node]
    BY Zenon DEF At
  <2> HIDE DEF none
  <2> QED BY <2>1, <2>2
<1>3. Kind(t, Up(P)) = "dir"
  <2>1. Up(P) = SubSeq(P, 1, Len(P) - 1)
    BY DEF Up, Front
  <2>2. CASE Len(P) = 1
    <3>1. Up(P) = <<>>
      BY <2>1, <2>2
    <3> QED BY <3>1 DEF Kind
  <2>3. CASE Len(P) # 1
    <3>0. \A n \in Nat : n # 0 /\ n # 1 => n - 1 \in 1 .. n
      OBVIOUS
    <3>1. Len(P) - 1 \in 1 .. Len(P)
      BY <1>a, <2>3, <3>0
    <3> QED BY <2>1, <3>1
  <2> QED BY <2>2, <2>3
<1>4. Kind(t, P) = "dir"
  <2>1. SubSeq(P, 1, Len(P)) = P /\ Len(P) \in 1 .. Len(P)
    BY <1>0
  <2> QED BY <2>1
<1>5. \A y : Up(Append(P, y)) = P
  <2> TAKE y
  <2>1. Append(P, y) # <<>> /\ Front(Append(P, y)) = P
    <3>1. Len(Append(P, y)) = Len(P) + 1 /\ Append(P, y) \in Seq(STRING \cup {y})
      OBVIOUS
    <3>2. SubSeq(Append(P, y), 1, Len(P)) = P
      OBVIOUS
    <3> QED BY <1>0, <3>1, <3>2 DEF Front
  <2> QED BY <2>1 DEF Up
<1>6. Kind(t, node) = "dir" \/ (Kind(t, node) # "link" /\ Kind(t, Up(node)) = "dir")
  <2>1. CASE last = ".."
    BY <1>3, <2>1
  <2>2. CASE last # ".."
    BY <1>4, <1>5, <2>2
  <2> QED BY <2>1, <2>2
<1> HIDE DEF node
<1>7. Follow(t, node) = node
  BY <1>6 DEF Follow
<1>8. NodeErrno(t, c.call, node) # "ENOENT"
  <2>1. CASE c.call = "mkdir"
    <3>1. NodeErrno(t, c.call, node) = IF Kind(t, node) = "absent" THEN "" ELSE "EEXIST"
      BY <2>1 DEF NodeErrno
    <3> QED BY <3>1
  <2>2. CASE c.call = "creat"
    <3>1. NodeErrno(t, c.call, node) =
            (IF Kind(t, node) = "dir" THEN "EISDIR"
             ELSE IF Kind(t, node) = "file" THEN ""
             ELSE IF Kind(t, Up(node)) = "dir" THEN "" ELSE "ENOENT")
      BY <1>7, <2>2 DEF NodeErrno
    <3> QED BY <1>6, <3>1
  <2> QED BY <2>1, <2>2
<1>9. c.call \notin NetworkSyscalls
  BY DEF NetworkSyscalls
<1>10. CASE c.errno # ""
  <2>1. Errno(t, c) = c.errno
    BY <1>10, Zenon DEF Errno
  <2> QED BY <1>0, <2>1
<1>11. CASE c.errno = ""
  <2>1. Errno(t, c) = NodeErrno(t, c.call, node)
    BY <1>2, <1>9, <1>11, Zenon DEF Errno
  <2> QED BY <1>8, <2>1
<1> QED BY <1>10, <1>11

\* What a call that succeeds does to the tree.
LEMMA EffectKeeps ==
  ASSUME NEW t, NEW c, Errno(t, c) = ""
  PROVE  /\ \A q \in DOMAIN Effect(t, c) :
              Effect(t, c)[q] = "link" => q \in DOMAIN t /\ t[q] = "link"
         /\ c.call # "rmdir" =>
              \A q \in DOMAIN t : t[q] = "dir" => q \in DOMAIN Effect(t, c) /\ Effect(t, c)[q] = "dir"
<1> DEFINE node == Walk(t, c.path).node
<1>1. CASE c.call = "mkdir"
  <2>1. Effect(t, c) = Put(t, node, "dir")
    BY <1>1 DEF Effect
  <2> HIDE DEF node
  <2> QED BY <2>1 DEF Put
<1>2. CASE c.call = "creat"
  <2>1. Effect(t, c) = Put(t, Follow(t, node), "file")
    BY <1>2 DEF Effect
  <2>2. c.call \notin NetworkSyscalls
    BY <1>2 DEF NetworkSyscalls
  <2>3. NodeErrno(t, c.call, node) = ""
    BY <2>2, Zenon DEF Errno
  <2>4. Kind(t, Follow(t, node)) # "dir"
    <3>1. SUFFICES ASSUME Kind(t, Follow(t, node)) = "dir" PROVE FALSE
      OBVIOUS
    <3>2. NodeErrno(t, c.call, node) = "EISDIR"
      BY <1>2, <3>1 DEF NodeErrno
    <3> QED BY <2>3, <3>2
  <2> DEFINE to == Follow(t, node)
  <2> HIDE DEF to
  <2>5. Effect(t, c) = Put(t, to, "file") /\ Kind(t, to) # "dir"
    BY <2>1, <2>4 DEF to
  <2>6. to \in DOMAIN t => t[to] # "dir"
    BY <2>5 DEF Kind
  <2> QED BY <2>5, <2>6 DEF Put
<1>3. CASE c.call = "rmdir"
  <2>1. Effect(t, c) = [q \in DOMAIN t \ {node} |-> t[q]]
    BY <1>3 DEF Effect
  <2> HIDE DEF node
  <2> QED BY <1>3, <2>1
<1>4. CASE c.call \notin {"mkdir", "creat", "rmdir"}
  <2>1. Effect(t, c) = t
    BY <1>4 DEF Effect
  <2> QED BY <2>1
<1> QED BY <1>1, <1>2, <1>3, <1>4

LEMMA HealthInit == Init => HealthInv
  BY DEF Init, HealthInv, GrownInv, TreeInv, HealsInv

LEMMA HealthStart == NeedInv /\ HealthInv /\ StartGuest => HealthInv'
<1> SUFFICES ASSUME NeedInv, HealthInv, StartGuest PROVE HealthInv'
  OBVIOUS
<1>0. /\ env' = env /\ history' = history /\ tree' = env /\ events' = <<>> /\ program' = program
      /\ pc = "start" /\ pc' = "guest"
  BY DEF StartGuest, input
<1>1. GrownInv'
  BY <1>0 DEF HealthInv, GrownInv, Grown
<1>2. TreeInv'
  BY <1>0 DEF TreeInv
<1>3. HealsInv'
  <2>1. (1 .. Len(events))' = {}
    BY <1>0
  <2> QED BY <2>1 DEF HealsInv
<1> QED BY <1>1, <1>2, <1>3 DEF HealthInv

\* The next call does not miss a directory that was just made, unless a directory
\* was removed in this attempt.
LEMMA NextCallHeals ==
  ASSUME NeedInv, GrownInv, TreeInv, pc = "guest", history # <<>>, Len(events) < Len(program),
         NextCall.call \in {"mkdir", "creat"},
         ParentDirectory(NextCall.path).parts \in DOMAIN env \ DOMAIN Last(history).env,
         \A i \in 1 .. Len(events) : ~Removes(i)
  PROVE  Errno(tree, NextCall) # "ENOENT"
<1> DEFINE P == ParentDirectory(NextCall.path).parts
           old == Last(history).env
<1>0. NextCall \in Calls
  BY NextCallType DEF NeedInv
<1>1. P \in DOMAIN env /\ P \notin DOMAIN old /\ P \in Seq(STRING) /\ P # <<>> /\ Len(P) \in Nat
  BY DEF NeedInv, Types, IsTree
<1>2. /\ IsTree(old)
      /\ \A q \in DOMAIN env \ DOMAIN old :
           \A i \in 1 .. Len(q) : /\ q[i] # ".." /\ SubSeq(q, 1, i) \in DOMAIN env
                                  /\ env[SubSeq(q, 1, i)] = "dir"
  BY DEF GrownInv, Grown
<1>3. /\ \A q \in DOMAIN tree : tree[q] = "link" => q \in DOMAIN env /\ env[q] = "link"
      /\ \A q \in DOMAIN env : env[q] = "dir" => q \in DOMAIN tree /\ tree[q] = "dir"
  BY DEF TreeInv
<1> HIDE DEF P, old
<1>4. \A q : q \in DOMAIN tree /\ tree[q] = "dir" => Kind(tree, q) = "dir"
  BY DEF Kind
<1>5. \A i \in 1 .. Len(P) : P[i] # ".." /\ Kind(tree, SubSeq(P, 1, i)) = "dir"
  BY <1>1, <1>2, <1>3, <1>4
<1>6. ASSUME NEW last PROVE Kind(tree, Append(P, last)) # "link"
  <2> DEFINE q == Append(P, last)
  <2>0. Len(q) = Len(P) + 1 /\ q # <<>>
    BY <1>1
  <2> SUFFICES ASSUME Kind(tree, q) = "link" PROVE FALSE
    OBVIOUS
  <2>1. q \in DOMAIN tree /\ tree[q] = "link"
    BY <2>0 DEF Kind
  <2>2. q \in DOMAIN env /\ env[q] = "link"
    <3> HIDE DEF q
    <3> QED BY <1>3, <2>1
  <2>3. q \in Seq(STRING) /\ Len(q) \in Nat /\ Len(q) > 1
    <3>1. q \in Seq(STRING)
      BY <2>2 DEF NeedInv, Types, IsTree
    <3>2. Len(P) # 0
      BY <1>1
    <3> QED BY <1>1, <2>0, <3>1, <3>2
  <2>4. Front(q) = P
    <3>1. SubSeq(q, 1, Len(P)) = P
      BY <1>1
    <3> QED BY <1>1, <2>0, <3>1 DEF Front
  <2> HIDE DEF q
  <2>5. q \notin DOMAIN old
    BY <1>1, <1>2, <2>3, <2>4 DEF IsTree
  <2>6. SubSeq(q, 1, Len(q)) = q /\ Len(q) \in 1 .. Len(q)
    BY <2>3
  <2>7. env[q] = "dir"
    BY <1>2, <2>2, <2>5, <2>6
  <2> QED BY <2>2, <2>7
<1> QED BY <1>0, <1>1, <1>5, <1>6, CreateArrives DEF P

LEMMA HealthSyscall == NeedInv /\ HealthInv /\ Syscall => HealthInv'
<1> SUFFICES ASSUME NeedInv, HealthInv, Syscall PROVE HealthInv'
  OBVIOUS
<1> DEFINE L == Len(events)
           c == NextCall
<1>0. /\ program' = program /\ env' = env /\ history' = history
      /\ pc' = (IF Dies THEN "observe" ELSE "guest") /\ pc = "guest" /\ L < Len(program)
  BY DEF Syscall, input, Dies, NextCall
<1>1. /\ L \in Nat
      /\ Len(events') = IF Dies THEN L + 2 ELSE L + 1
      /\ \A i \in 1 .. L : events'[i] = events[i]
      /\ events'[L + 1] = NextEvent
      /\ Dies => events'[L + 2] = Exit(1)
  BY SyscallEvents DEF NeedInv, Types
<1>2. \A i \in 1 .. L : Removes(i)' <=> Removes(i)
  BY <1>0, <1>1 DEF Removes
<1>3. \A k : k = L + 1 => (Removes(k)' <=> c.call = "rmdir" /\ Errno(tree, c) = "")
  BY <1>0, <1>1, NextEventFields, Zenon DEF Removes, NextCall
<1>4. GrownInv'
  BY <1>0 DEF HealthInv, GrownInv, Grown
<1>5. TreeInv'
  <2>1. tree' = IF Errno(tree, c) = "" THEN Effect(tree, c) ELSE tree
    BY Zenon DEF Syscall, NextCall
  <2>2. /\ \A q \in DOMAIN tree : tree[q] = "link" => q \in DOMAIN env /\ env[q] = "link"
        /\ (\A i \in 1 .. L : ~Removes(i)) =>
             \A q \in DOMAIN env : env[q] = "dir" => q \in DOMAIN tree /\ tree[q] = "dir"
    BY <1>0 DEF HealthInv, TreeInv
  <2>3. /\ \A q \in DOMAIN tree' : tree'[q] = "link" => q \in DOMAIN tree /\ tree[q] = "link"
        /\ ~(c.call = "rmdir" /\ Errno(tree, c) = "") =>
             \A q \in DOMAIN tree : tree[q] = "dir" => q \in DOMAIN tree' /\ tree'[q] = "dir"
    <3>1. CASE Errno(tree, c) = ""
      <4>1. tree' = Effect(tree, c)
        BY <2>1, <3>1, Zenon
      <4>2. /\ \A q \in DOMAIN Effect(tree, c) :
                 Effect(tree, c)[q] = "link" => q \in DOMAIN tree /\ tree[q] = "link"
            /\ c.call # "rmdir" =>
                 \A q \in DOMAIN tree : tree[q] = "dir" =>
                   q \in DOMAIN Effect(tree, c) /\ Effect(tree, c)[q] = "dir"
        BY <3>1, EffectKeeps
      <4> QED BY <3>1, <4>1, <4>2, Zenon
    <3>2. CASE Errno(tree, c) # ""
      <4>1. tree' = tree
        BY <2>1, <3>2, Zenon
      <4> QED BY <4>1
    <3> QED BY <3>1, <3>2
  <2>4. L + 1 \in 1 .. Len(events') /\ \A i \in 1 .. L : i \in 1 .. Len(events')
    BY <1>1
  <2>5. (\A i \in 1 .. Len(events') : ~Removes(i)') =>
          /\ ~(c.call = "rmdir" /\ Errno(tree, c) = "")
          /\ \A i \in 1 .. L : ~Removes(i)
    BY <1>2, <1>3, <2>4, Zenon
  <2> HIDE DEF c
  <2>6. /\ \A q \in DOMAIN tree' : tree'[q] = "link" => q \in DOMAIN env /\ env[q] = "link"
        /\ (\A i \in 1 .. Len(events') : ~Removes(i)') =>
             \A q \in DOMAIN env : env[q] = "dir" => q \in DOMAIN tree' /\ tree'[q] = "dir"
    BY <2>2, <2>3, <2>5, Zenon
  <2> QED BY <1>0, <2>6, Zenon DEF TreeInv
<1>6. HealsInv'
  <2> SUFFICES ASSUME history # <<>>, NEW n \in 1 .. Len(events'),
                      events'[n].event = "syscall", Creates(events'[n]),
                      ParentDirectory(program[n].path).parts \in DOMAIN env \ DOMAIN Last(history).env
               PROVE  \E m \in 1 .. n - 1 : Removes(m)'
    BY <1>0 DEF HealsInv
  <2>1. CASE n \in 1 .. L
    <3>1. \E m \in 1 .. n - 1 : Removes(m)
      BY <1>0, <1>1, <2>1 DEF HealthInv, HealsInv
    <3>2. \A m \in 1 .. n - 1 : m \in 1 .. L
      BY <1>1, <2>1
    <3> QED BY <1>2, <3>1, <3>2
  <2>2. CASE n = L + 1
    <3>1. NextCall.call \in {"mkdir", "creat"} /\ Errno(tree, NextCall) = "ENOENT" /\ program[n] = NextCall
      BY <1>1, <2>2, NextEventFields DEF Creates, NextCall
    <3>2. n - 1 = L
      BY <1>1, <2>2
    <3>3. \E m \in 1 .. L : Removes(m)
      BY <1>0, <3>1, NextCallHeals DEF HealthInv
    <3> QED BY <1>2, <3>2, <3>3
  <2>3. CASE Dies /\ n = L + 2
    <3>1. events'[n].event = "process_exit"
      BY <1>1, <2>3, ExitFields
    <3> QED BY <3>1
  <2>4. n \in 1 .. L \/ n = L + 1 \/ (Dies /\ n = L + 2)
    BY <1>1
  <2> QED BY <2>1, <2>2, <2>3, <2>4
<1> QED BY <1>4, <1>5, <1>6 DEF HealthInv

LEMMA HealthEnd == NeedInv /\ HealthInv /\ EndGuest => HealthInv'
<1> SUFFICES ASSUME NeedInv, HealthInv, EndGuest PROVE HealthInv'
  OBVIOUS
<1>0. /\ program' = program /\ env' = env /\ history' = history /\ pc = "guest" /\ pc' = "observe"
  BY DEF EndGuest, input
<1>1. /\ Len(events) \in Nat /\ Len(events') \in Nat
      /\ Len(events') \in Len(events) .. Len(events) + 1
      /\ \A i \in 1 .. Len(events) : events'[i] = events[i]
      /\ Len(events') = Len(events) + 1 =>
           events'[Len(events) + 1].event \in {"process_exit", "signal"}
  <2>1. IsSeq(events)
    BY DEF NeedInv, Types
  <2> QED BY <2>1, EndEvents, Zenon
<1>2. \A i \in 1 .. Len(events) : Removes(i)' <=> Removes(i)
  BY <1>0, <1>1 DEF Removes
<1>4. GrownInv'
  BY <1>0 DEF HealthInv, GrownInv, Grown
<1>5. TreeInv'
  BY <1>0 DEF TreeInv
<1>6. HealsInv'
  <2> SUFFICES ASSUME history # <<>>, NEW n \in 1 .. Len(events'),
                      events'[n].event = "syscall", Creates(events'[n]),
                      ParentDirectory(program[n].path).parts \in DOMAIN env \ DOMAIN Last(history).env
               PROVE  \E m \in 1 .. n - 1 : Removes(m)'
    BY <1>0 DEF HealsInv
  <2>1. n \in 1 .. Len(events)
    BY <1>1
  <2>2. \E m \in 1 .. n - 1 : Removes(m)
    BY <1>0, <1>1, <2>1 DEF HealthInv, HealsInv
  <2>3. \A m \in 1 .. n - 1 : m \in 1 .. Len(events)
    BY <1>1, <2>1
  <2> QED BY <1>2, <2>2, <2>3
<1> QED BY <1>4, <1>5, <1>6 DEF HealthInv

LEMMA HealthApply == NeedInv /\ HealthInv /\ ApplyPlan => HealthInv'
<1> SUFFICES ASSUME NeedInv, HealthInv, ApplyPlan PROVE HealthInv'
  OBVIOUS
<1>0. history' = history /\ pc' = "start" /\ pc = "repair" /\ ~Refused
  BY DEF ApplyPlan
<1>1. /\ DOMAIN env' = DOMAIN env \cup Added
      /\ \A p \in DOMAIN env : env'[p] = env[p]
      /\ \A p \in Added : env'[p] = "dir"
  BY AddedIs DEF ApplyPlan
<1>2. ASSUME NEW q \in Added, NEW i \in 1 .. Len(q)
      PROVE  q[i] # ".." /\ SubSeq(q, 1, i) \in DOMAIN env' /\ env'[SubSeq(q, 1, i)] = "dir"
  <2>1. /\ q \in Seq(STRING) /\ Len(q) \in Nat /\ q[i] # ".." /\ SubSeq(q, 1, i) \in DOMAIN env \cup Added
        /\ \E p \in Automatic(plan) : /\ Len(q) \in 1 .. Len(p.parts)
                                      /\ q = SubSeq(p.parts, 1, Len(q))
    BY <1>0, AddedFacts
  <2>2. PICK p \in Automatic(plan) : Len(q) \in 1 .. Len(p.parts) /\ q = SubSeq(p.parts, 1, Len(q))
    BY <2>1
  <2>3. p.parts \in Seq(STRING) /\ Len(p.parts) \in Nat
    BY <1>0, PlannedIsNeeded
  <2>4. SubSeq(q, 1, i) = SubSeq(p.parts, 1, i)
    BY <2>2, <2>3, Beginnings
  <2>5. i \in 1 .. Len(p.parts)
    BY <2>1, <2>2, <2>3
  <2>6. SubSeq(q, 1, i) \in Along(p)
    BY <2>4, <2>5 DEF Along
  <2>7. Kind(env, SubSeq(q, 1, i)) \notin {"file", "link"}
    BY <1>0, <2>6 DEF Refused, Obstructed
  <2>8. CASE SubSeq(q, 1, i) \in DOMAIN env
    <3>1. /\ SubSeq(q, 1, i) # <<>>
          /\ env[SubSeq(q, 1, i)] \in {"dir", "file", "link"}
      BY <2>8 DEF NeedInv, Types, IsTree
    <3>2. env[SubSeq(q, 1, i)] = "dir"
      BY <2>7, <2>8, <3>1 DEF Kind
    <3> QED BY <1>1, <2>1, <2>8, <3>2
  <2>9. CASE SubSeq(q, 1, i) \in Added
    BY <1>1, <2>1, <2>9
  <2> QED BY <2>1, <2>8, <2>9
<1>3. GrownInv'
  <2> SUFFICES ASSUME history # <<>> PROVE Grown(Last(history).env, env')
    BY <1>0 DEF GrownInv, Grown, IsTree
  <2>1. Last(history).env = env
    BY <1>0 DEF HealthInv, GrownInv
  <2>2. Grown(env, env')
    BY <1>1, <1>2 DEF NeedInv, Types, Grown
  <2> QED BY <2>1, <2>2
<1> QED BY <1>0, <1>3 DEF HealthInv, TreeInv, HealsInv

LEMMA HealthNext == NeedInv /\ HealthInv /\ [Next]_vars => HealthInv'
<1> SUFFICES ASSUME NeedInv, HealthInv, [Next]_vars PROVE HealthInv'
  OBVIOUS
<1>1. CASE StartGuest
  BY <1>1, HealthStart
<1>2. CASE Syscall
  BY <1>2, HealthSyscall
<1>3. CASE EndGuest
  BY <1>3, HealthEnd
<1>4. CASE Postprocess
  <2>1. /\ UNCHANGED <<program, env, tree, events, history>>
        /\ pc = "observe" /\ pc' = "decide"
    BY <1>4 DEF Postprocess, input, run
  <2>2. \A i : Removes(i)' <=> Removes(i)
    BY <2>1 DEF Removes
  <2> QED BY <2>1, <2>2 DEF HealthInv, GrownInv, TreeInv, HealsInv, Grown
<1>5. CASE Decide
  <2>1. /\ UNCHANGED <<program, env, tree, events>>
        /\ history' = Append(history, Observation) /\ pc = "decide" /\ pc' \in {"repair", "done"}
    BY <1>5 DEF Decide, input, run
  <2>2. Last(history').env = env
    <3>1. Last(history') = Observation
      BY <2>1, LastOfAppend DEF NeedInv, Types
    <3> QED BY <3>1 DEF Observation
  <2> QED BY <2>1, <2>2 DEF HealthInv, GrownInv, TreeInv, HealsInv
<1>6. CASE ApplyPlan
  BY <1>6, HealthApply
<1>7. CASE PlanRefused
  <2>1. pc' = "done"
    BY <1>7 DEF PlanRefused
  <2> QED BY <2>1 DEF HealthInv, GrownInv, TreeInv, HealsInv
<1>8. CASE UNCHANGED vars
  <2>1. UNCHANGED <<program, env, tree, events, history, pc>>
    BY <1>8 DEF vars, input, run
  <2>2. \A i : Removes(i)' <=> Removes(i)
    BY <2>1 DEF Removes
  <2> QED BY <2>1, <2>2 DEF HealthInv, GrownInv, TreeInv, HealsInv, Grown
<1> QED BY <1>1, <1>2, <1>3, <1>4, <1>5, <1>6, <1>7, <1>8 DEF Next

LEMMA HealthImplies == NeedInv /\ HealthInv => RepairHeals
<1> SUFFICES ASSUME NeedInv, HealthInv, pc \in {"guest", "observe"}, NEW n \in Repaired,
                    n <= Len(events), events[n].errno = "ENOENT"
             PROVE  \E m \in 1 .. n - 1 : program[m].call = "rmdir" /\ events[m].errno = ""
  BY DEF RepairHeals
<1>1. /\ n \in 1 .. Len(program) /\ program[n].call \in {"mkdir", "creat"} /\ history # <<>>
      /\ ParentDirectory(program[n].path).parts \in DOMAIN env \ DOMAIN Last(history).env
  BY DEF Repaired, GuestCreates
<1>2. n \in 1 .. Len(events)
  BY <1>1, SeqFacts DEF NeedInv, Types
<1>3. events[n].event = "syscall"
  <2>1. events[n].errno # ""
    OBVIOUS
  <2> QED BY <1>2, <2>1, Zenon DEF NeedInv, EventsInv
<1>4. Creates(events[n])
  BY <1>1, <1>2, <1>3 DEF NeedInv, EventsInv, Creates
<1>5. \E m \in 1 .. n - 1 : Removes(m)
  BY <1>1, <1>2, <1>3, <1>4 DEF HealthInv, HealsInv
<1> QED BY <1>5, Zenon DEF Removes

\* A repair helps: a creating call whose missing directory the applier made
\* (_build_repaired_snapshot) does not fail that way in the next attempt, unless
\* the guest removed a directory before.
THEOREM RepairsHeal == Spec => []RepairHeals
<1>1. Init => NeedInv /\ HealthInv
  BY NeedInit, HealthInit
<1>2. NeedInv /\ HealthInv /\ [Next]_vars => (NeedInv /\ HealthInv)'
  BY NeedNext, HealthNext
<1> QED BY <1>1, <1>2, HealthImplies, PTL DEF Spec

-----------------------------------------------------------------------------
(* An attempt is a function of its environment                             *)

Sit(t, w, es, nt, dead) == [tree |-> t, written |-> w, events |-> es, net |-> nt, dead |-> dead]

NextTree(t, c) == IF Errno(t, c) = "" THEN Effect(t, c) ELSE t
NextWritten(t, w, c) ==
  IF Errno(t, c) = "" /\ c.call = "creat" THEN w \cup {Follow(t, Walk(t, c.path).node)} ELSE w
NextDead(t, c) == c.fatal /\ Errno(t, c) # ""
NextEvents(t, es, c) ==
  Append(es, Event("syscall", c.call, c.path, Errno(t, c), c.context, 0))
    \o (IF NextDead(t, c) THEN <<Exit(1)>> ELSE <<>>)
NextNet(t, nt, c) ==
  IF Errno(t, c) = "" /\ c.call \in NetworkSyscalls
    THEN Append(nt, [operation |-> IF c.call = "connect" THEN "connect" ELSE "datagram_exchange",
                     endpoint |-> c.path, answered |-> c.answered])
    ELSE nt

\* The guest after its first n calls; one that has died stays as it is.
StepOf(s, c) ==
  IF s.dead THEN s
  ELSE Sit(NextTree(s.tree, c), NextWritten(s.tree, s.written, c), NextEvents(s.tree, s.events, c),
           NextNet(s.tree, s.net, c), NextDead(s.tree, c))
IsRun(r, prog, e, m) ==
  r = [n \in 0 .. m |-> IF n = 0 THEN Sit(e, {}, <<>>, <<>>, FALSE) ELSE StepOf(r[n - 1], prog[n])]
RunOf(prog, e) == CHOOSE r : IsRun(r, prog, e, Len(prog))

DiffOf(t, w, e) == {p \in DOMAIN t : p \notin DOMAIN e \/ t[p] # e[p] \/ p \in w}
EndOf(fin, es) ==
  CASE fin = "exit" -> Append(es, Exit(0))
    [] fin = "signal" -> Append(es, Event("signal", "", RootPath, "", "guest", 0))
    [] OTHER -> es
BundleOf(prog, fin, e) ==
  LET r == RunOf(prog, e)[Len(prog)]
  IN  [events |-> IF r.dead THEN r.events ELSE EndOf(fin, r.events), net |-> r.net,
       stderr |-> IF r.dead \/ fin \notin {"ld.so", "lib.so"} THEN <<>> ELSE <<fin>>,
       diff |-> DiffOf(r.tree, r.written, e)]
ObservationOf(prog, fin, e) ==
  LET b == BundleOf(prog, fin, e)
  IN  [env |-> e, reqs |-> Extract(b), plan |-> Plan(Extract(b)),
       guest |-> NormalizeGuestEvents(b.events), net |-> b.net]

LEMMA RunSteps ==
  ASSUME NEW prog \in Seq(Syscalls), NEW e
  PROVE  /\ RunOf(prog, e)[0] = Sit(e, {}, <<>>, <<>>, FALSE)
         /\ \A n \in 1 .. Len(prog) : RunOf(prog, e)[n] = StepOf(RunOf(prog, e)[n - 1], prog[n])
<1> DEFINE base == Sit(e, {}, <<>>, <<>>, FALSE)
           R(r, m) == r = [n \in 0 .. m |-> IF n = 0 THEN base ELSE StepOf(r[n - 1], prog[n])]
           Good == {m \in Nat : \E r : R(r, m)}
<1>0. \A r, m : IsRun(r, prog, e, m) <=> R(r, m)
  BY DEF IsRun
<1> HIDE DEF base
<1>1. 0 \in Good
  <2> DEFINE r == [n \in 0 .. 0 |-> base]
  <2>1. R(r, 0)
    OBVIOUS
  <2> QED BY <2>1
<1>2. ASSUME NEW m \in Nat, m \in Good PROVE m + 1 \in Good
  <2>1. PICK r : R(r, m)
    BY <1>2
  <2> DEFINE s == [n \in 0 .. m + 1 |-> IF n <= m THEN r[n] ELSE StepOf(r[m], prog[m + 1])]
  <2>2. ASSUME NEW n \in 0 .. m + 1
        PROVE  s[n] = IF n = 0 THEN base ELSE StepOf(s[n - 1], prog[n])
    <3>1. CASE n <= m
      <4>1. n \in 0 .. m /\ (n # 0 => n - 1 \in 0 .. m + 1 /\ n - 1 <= m)
        BY <3>1
      <4>2. r[n] = IF n = 0 THEN base ELSE StepOf(r[n - 1], prog[n])
        BY <2>1, <4>1
      <4> QED BY <3>1, <4>1, <4>2
    <3>2. CASE n = m + 1
      <4>1. n # 0 /\ n - 1 = m /\ m \in 0 .. m + 1 /\ ~(n <= m)
        BY <3>2
      <4> QED BY <3>2, <4>1
    <3> QED BY <3>1, <3>2
  <2>3. s = [n \in 0 .. m + 1 |-> s[n]]
    OBVIOUS
  <2> HIDE DEF s
  <2>4. R(s, m + 1)
    BY <2>2, <2>3
  <2>5. m + 1 \in Nat
    OBVIOUS
  <2> HIDE DEF R
  <2> QED BY <2>4, <2>5
<1>3. Len(prog) \in Good
  <2> HIDE DEF Good
  <2> QED BY <1>1, <1>2, SetInduction
<1> DEFINE run1 == RunOf(prog, e)
<1>4. R(run1, Len(prog))
  <2>1. \E r : R(r, Len(prog))
    BY <1>3
  <2>2. \E r : IsRun(r, prog, e, Len(prog))
    BY <1>0, <2>1, Zenon
  <2>3. IsRun(run1, prog, e, Len(prog))
    BY <2>2, Zenon DEF RunOf
  <2> QED BY <1>0, <2>3, Zenon
<1> HIDE DEF run1
<1>5. run1[0] = base
  BY <1>4
<1>6. ASSUME NEW n \in 1 .. Len(prog) PROVE run1[n] = StepOf(run1[n - 1], prog[n])
  <2>1. n \in 0 .. Len(prog) /\ n # 0
    OBVIOUS
  <2> QED BY <1>4, <2>1
<1> QED BY <1>5, <1>6 DEF run1, base

LEMMA RunDead ==
  ASSUME NEW prog \in Seq(Syscalls), NEW e, NEW k \in 0 .. Len(prog), RunOf(prog, e)[k].dead
  PROVE  RunOf(prog, e)[Len(prog)] = RunOf(prog, e)[k]
<1> DEFINE r == RunOf(prog, e)
           T == {n \in Nat : k + n <= Len(prog) => r[k + n] = r[k]}
<1>0. \A n \in 1 .. Len(prog) : r[n] = StepOf(r[n - 1], prog[n])
  BY RunSteps
<1>a. r[k].dead
  OBVIOUS
<1> HIDE DEF r
<1>1. 0 \in T
  <2>1. k + 0 = k
    OBVIOUS
  <2> QED BY <2>1
<1>2. ASSUME NEW n \in Nat, n \in T PROVE n + 1 \in T
  <2> SUFFICES ASSUME k + (n + 1) <= Len(prog) PROVE r[k + (n + 1)] = r[k]
    OBVIOUS
  <2>1. k + (n + 1) \in 1 .. Len(prog) /\ (k + (n + 1)) - 1 = k + n /\ k + n <= Len(prog)
    OBVIOUS
  <2>2. r[k + n] = r[k]
    BY <1>2, <2>1
  <2>3. r[k + (n + 1)] = StepOf(r[k], prog[k + (n + 1)])
    BY <1>0, <2>1, <2>2
  <2>4. \A c : StepOf(r[k], c) = r[k]
    BY <1>a, Zenon DEF StepOf
  <2> QED BY <2>3, <2>4
<1>3. \A n \in Nat : n \in T
  <2> HIDE DEF T
  <2> QED BY <1>1, <1>2, SetInduction
<1>4. Len(prog) - k \in Nat /\ k + (Len(prog) - k) = Len(prog) /\ k + (Len(prog) - k) <= Len(prog)
  OBVIOUS
<1>5. Len(prog) - k \in T
  BY <1>3, <1>4
<1> QED BY <1>4, <1>5 DEF r

LEMMA BundleEnds ==
  ASSUME NEW prog, NEW fin, NEW e, NEW r, r = RunOf(prog, e)[Len(prog)]
  PROVE  /\ r.dead => BundleOf(prog, fin, e) =
               [events |-> r.events, net |-> r.net, stderr |-> <<>>, diff |-> DiffOf(r.tree, r.written, e)]
         /\ ~r.dead => BundleOf(prog, fin, e) =
               [events |-> EndOf(fin, r.events), net |-> r.net,
                stderr |-> IF fin \in {"ld.so", "lib.so"} THEN <<fin>> ELSE <<>>,
                diff |-> DiffOf(r.tree, r.written, e)]
  BY DEF BundleOf

\* The attempt so far, and the attempts before it, are what their environments
\* make of the program.
GuestRun ==
  pc = "guest" =>
    /\ RunOf(program, env)[Len(events)] = Sit(tree, written, events, net, FALSE)
    /\ stderr = <<>> /\ Len(events) <= Len(program)
EndedRun == pc \in {"observe", "decide", "repair"} => Bundle = BundleOf(program, end, env)
\* The calls among the events are calls of the program.
AsProgrammed(prog, b) ==
  \A e \in ToSet(b.events) : e.event = "syscall" =>
    \E n \in 1 .. Len(prog) : e.syscall = prog[n].call /\ e.path = prog[n].path
PastRun ==
  history # <<>> =>
    LET old == Last(history).env
    IN  /\ Last(history) = ObservationOf(program, end, old)
        /\ IsBundle(BundleOf(program, end, old)) /\ AsProgrammed(program, BundleOf(program, end, old))
RunInv == GuestRun /\ EndedRun /\ PastRun

LEMMA EventsAsProgrammed ==
  ASSUME NeedInv
  PROVE  AsProgrammed(program, Bundle)
<1> SUFFICES ASSUME NEW e \in ToSet(events), e.event = "syscall"
             PROVE  \E n \in 1 .. Len(program) : e.syscall = program[n].call /\ e.path = program[n].path
  BY BundleType DEF NeedInv, AsProgrammed
<1>1. Len(events) \in Nat /\ ToSet(events) = {events[i] : i \in 1 .. Len(events)}
  BY SeqFacts DEF NeedInv, Types
<1>2. PICK n \in 1 .. Len(events) : e = events[n]
  BY <1>1
<1>3. n <= Len(program) /\ e.syscall = program[n].call /\ e.path = program[n].path
  BY <1>2 DEF NeedInv, EventsInv
<1>4. Len(program) \in Nat
  BY DEF NeedInv, Types
<1>5. n \in 1 .. Len(program)
  BY <1>1, <1>3, <1>4
<1> QED BY <1>3, <1>5

\* What is observed is a function of the environment.
LEMMA ObservationIs ==
  ASSUME NeedInv, RunInv, pc = "decide"
  PROVE  /\ Observation = ObservationOf(program, end, env) /\ Observation.env = env
         /\ Observation.plan = plan /\ Observation.reqs = reqs
         /\ IsBundle(BundleOf(program, end, env)) /\ AsProgrammed(program, BundleOf(program, end, env))
<1>1. Bundle = BundleOf(program, end, env)
  BY DEF RunInv, EndedRun
<1>2. Bundle.events = events /\ Bundle.net = net /\ IsBundle(Bundle)
  BY BundleType DEF NeedInv
<1>3. reqs = Extract(Bundle) /\ plan = Plan(reqs)
  BY DEF NeedInv, PlanInv
<1>4. ObservationOf(program, end, env) =
        [env |-> env, reqs |-> Extract(Bundle), plan |-> Plan(Extract(Bundle)),
         guest |-> NormalizeGuestEvents(Bundle.events), net |-> Bundle.net]
  BY <1>1, Zenon DEF ObservationOf
<1>5. Observation = ObservationOf(program, end, env)
  BY <1>2, <1>3, <1>4 DEF Observation
<1>6. Observation.env = env /\ Observation.plan = plan /\ Observation.reqs = reqs
  BY DEF Observation
<1> QED BY <1>1, <1>2, <1>5, <1>6, EventsAsProgrammed

LEMMA PastKept ==
  ASSUME PastRun, UNCHANGED <<program, end, history>>
  PROVE  PastRun'
<1> QED BY DEF PastRun, IsBundle, AsProgrammed

LEMMA RunInit == Init => RunInv
  BY DEF Init, RunInv, GuestRun, EndedRun, PastRun

LEMMA RunStart == NeedInv /\ RunInv /\ StartGuest => RunInv'
<1> SUFFICES ASSUME NeedInv, RunInv, StartGuest PROVE RunInv'
  OBVIOUS
<1>0. /\ UNCHANGED <<program, end, env, history>> /\ pc' = "guest"
      /\ tree' = env /\ written' = {} /\ events' = <<>> /\ net' = <<>> /\ stderr' = <<>>
  BY DEF StartGuest, input
<1>1. RunOf(program, env)[0] = Sit(env, {}, <<>>, <<>>, FALSE)
  BY RunSteps DEF NeedInv, Types
<1>2. Len(events') = 0 /\ 0 <= Len(program)
  BY <1>0 DEF NeedInv, Types
<1>3. RunOf(program', env')[Len(events')] = Sit(tree', written', events', net', FALSE)
  BY <1>0, <1>1, <1>2, Zenon
<1>4. GuestRun'
  BY <1>0, <1>2, <1>3 DEF GuestRun
<1>5. EndedRun'
  BY <1>0 DEF EndedRun
<1>6. PastRun'
  BY <1>0, PastKept DEF RunInv
<1> QED BY <1>4, <1>5, <1>6 DEF RunInv

LEMMA RunSyscall == NeedInv /\ RunInv /\ Syscall => RunInv'
<1> SUFFICES ASSUME NeedInv, RunInv, Syscall PROVE RunInv'
  OBVIOUS
<1> DEFINE L == Len(events)
           c == NextCall
           s == Sit(tree, written, events, net, FALSE)
<1>0. /\ UNCHANGED <<program, end, env, stderr, history>> /\ pc = "guest" /\ L < Len(program)
      /\ pc' = IF Dies THEN "observe" ELSE "guest"
  BY DEF Syscall, input, Dies, NextCall
<1>1. /\ tree' = NextTree(tree, c) /\ written' = NextWritten(tree, written, c)
  BY Zenon DEF Syscall, NextTree, NextWritten, NextCall
<1>2. events' = NextEvents(tree, events, c)
  BY Zenon DEF Syscall, NextEvents, NextDead, NextCall
<1>3. net' = NextNet(tree, net, c)
  BY Zenon DEF Syscall, NextNet, NextCall
<1>4. NextDead(tree, c) = Dies /\ Dies \in BOOLEAN
  BY DEF NextDead, Dies
<1>5. L \in Nat /\ L + 1 \in 1 .. Len(program) /\ (L + 1) - 1 = L
      /\ (L + 1) \in 0 .. Len(program) /\ L + 1 <= Len(program)
  BY <1>0, NextCallType DEF NeedInv, Types
<1>6. RunOf(program, env)[L] = s /\ stderr = <<>>
  BY <1>0 DEF RunInv, GuestRun
<1>7. RunOf(program, env)[L + 1] = StepOf(s, c)
  <2>1. RunOf(program, env)[L + 1] = StepOf(RunOf(program, env)[(L + 1) - 1], program[L + 1])
    BY <1>5, RunSteps DEF NeedInv, Types
  <2> QED BY <1>5, <1>6, <2>1 DEF NextCall
<1>8. StepOf(s, c) = Sit(tree', written', events', net', Dies)
  <2>1. s.tree = tree /\ s.written = written /\ s.events = events /\ s.net = net /\ s.dead = FALSE
    BY DEF Sit
  <2> HIDE DEF s, c
  <2>2. ~s.dead
    BY <2>1
  <2> QED BY <1>1, <1>2, <1>3, <1>4, <2>1, <2>2, Zenon DEF StepOf
<1> HIDE DEF s, c
<1>9. RunOf(program, env)[L + 1] = Sit(tree', written', events', net', Dies)
  BY <1>7, <1>8
<1>10. PastRun'
  BY <1>0, PastKept DEF RunInv
<1>11. CASE ~Dies
  <2>1. Len(events') = L + 1
    BY <1>11, SyscallEvents DEF NeedInv, Types
  <2>2. Dies = FALSE
    BY <1>4, <1>11
  <2>3. RunOf(program', env')[Len(events')] = Sit(tree', written', events', net', FALSE)
    BY <1>0, <1>9, <2>1, <2>2, Zenon
  <2>4. GuestRun'
    BY <1>0, <1>5, <1>6, <2>1, <2>3 DEF GuestRun
  <2>5. EndedRun'
    BY <1>0, <1>11 DEF EndedRun
  <2> QED BY <1>10, <2>4, <2>5 DEF RunInv
<1>12. CASE Dies
  <2>1. Dies = TRUE
    BY <1>4, <1>12
  <2>2. RunOf(program, env)[L + 1] = Sit(tree', written', events', net', TRUE)
    BY <1>9, <2>1, Zenon
  <2>3. RunOf(program, env)[L + 1].dead
    BY <2>2 DEF Sit
  <2>4. RunOf(program, env)[Len(program)] = RunOf(program, env)[L + 1]
    BY <1>5, <2>3, RunDead DEF NeedInv, Types
  <2>5. RunOf(program, env)[Len(program)] = Sit(tree', written', events', net', TRUE)
    BY <2>2, <2>4
  <2>6. BundleOf(program, end, env) =
          [events |-> events', net |-> net', stderr |-> <<>>, diff |-> DiffOf(tree', written', env)]
    <3> DEFINE r == RunOf(program, env)[Len(program)]
    <3>1. r.tree = tree' /\ r.written = written' /\ r.events = events' /\ r.net = net' /\ r.dead
      BY <2>5 DEF Sit
    <3>2. r.dead => BundleOf(program, end, env) =
            [events |-> r.events, net |-> r.net, stderr |-> <<>>, diff |-> DiffOf(r.tree, r.written, env)]
      BY BundleEnds
    <3> HIDE DEF r
    <3> QED BY <3>1, <3>2
  <2>7. Bundle' = [events |-> events', net |-> net', stderr |-> <<>>, diff |-> DiffOf(tree', written', env)]
    BY <1>0, <1>6 DEF Bundle, RootfsDiff, DiffOf
  <2>8. BundleOf(program, end, env) = BundleOf(program, end, env)'
    BY <1>0
  <2>9. EndedRun'
    BY <2>6, <2>7, <2>8 DEF EndedRun
  <2>10. GuestRun'
    BY <1>0, <1>12 DEF GuestRun
  <2> QED BY <1>10, <2>9, <2>10 DEF RunInv
<1> QED BY <1>11, <1>12

LEMMA RunEnd == NeedInv /\ RunInv /\ EndGuest => RunInv'
<1> SUFFICES ASSUME NeedInv, RunInv, EndGuest PROVE RunInv'
  OBVIOUS
<1>0. /\ UNCHANGED <<program, end, env, tree, written, net, history>> /\ pc = "guest" /\ pc' = "observe"
      /\ Len(events) = Len(program) /\ stderr' = IF end \in {"ld.so", "lib.so"} THEN <<end>> ELSE stderr
  BY DEF EndGuest, input
<1>1. events' = EndOf(end, events)
  BY Zenon DEF EndGuest, EndOf
<1>2. /\ RunOf(program, env)[Len(program)] = Sit(tree, written, events, net, FALSE)
      /\ stderr = <<>>
  BY <1>0 DEF RunInv, GuestRun
<1>3. BundleOf(program, end, env) =
        [events |-> events', net |-> net,
         stderr |-> IF end \in {"ld.so", "lib.so"} THEN <<end>> ELSE <<>>,
         diff |-> DiffOf(tree, written, env)]
  <2> DEFINE r == RunOf(program, env)[Len(program)]
  <2>1. r.tree = tree /\ r.written = written /\ r.events = events /\ r.net = net /\ ~r.dead
    BY <1>2 DEF Sit
  <2>2. ~r.dead => BundleOf(program, end, env) =
          [events |-> EndOf(end, r.events), net |-> r.net,
           stderr |-> IF end \in {"ld.so", "lib.so"} THEN <<end>> ELSE <<>>,
           diff |-> DiffOf(r.tree, r.written, env)]
    BY BundleEnds
  <2> HIDE DEF r
  <2> QED BY <1>1, <2>1, <2>2
<1>4. Bundle' = [events |-> events', net |-> net,
                 stderr |-> IF end \in {"ld.so", "lib.so"} THEN <<end>> ELSE <<>>,
                 diff |-> DiffOf(tree, written, env)]
  BY <1>0, <1>2 DEF Bundle, RootfsDiff, DiffOf
<1>5. EndedRun'
  <2>1. BundleOf(program, end, env) = BundleOf(program, end, env)'
    BY <1>0
  <2> QED BY <1>3, <1>4, <2>1 DEF EndedRun
<1>6. GuestRun' /\ PastRun'
  BY <1>0, PastKept DEF GuestRun, RunInv
<1> QED BY <1>5, <1>6 DEF RunInv

LEMMA RunNext == NeedInv /\ RunInv /\ [Next]_vars => RunInv'
<1> SUFFICES ASSUME NeedInv, RunInv, [Next]_vars PROVE RunInv'
  OBVIOUS
<1>a. ASSUME UNCHANGED <<program, end, env, tree, written, events, net, stderr>>, EndedRun,
             pc' \in {"observe", "decide", "repair"} => pc \in {"observe", "decide", "repair"}
      PROVE  EndedRun'
  <2>1. Bundle' = Bundle
    BY <1>a DEF Bundle, RootfsDiff
  <2>2. BundleOf(program, end, env) = BundleOf(program, end, env)'
    BY <1>a
  <2> QED BY <1>a, <2>1, <2>2 DEF EndedRun
<1>1. CASE StartGuest
  BY <1>1, RunStart
<1>2. CASE Syscall
  BY <1>2, RunSyscall
<1>3. CASE EndGuest
  BY <1>3, RunEnd
<1>4. CASE Postprocess
  <2>1. /\ UNCHANGED <<program, end, env, tree, written, events, net, stderr, history>>
        /\ pc = "observe" /\ pc' = "decide"
    BY <1>4 DEF Postprocess, input, run
  <2>2. GuestRun' /\ PastRun'
    BY <2>1, PastKept DEF GuestRun, RunInv
  <2>3. EndedRun'
    BY <1>a, <2>1 DEF RunInv
  <2> QED BY <2>2, <2>3 DEF RunInv
<1>5. CASE Decide
  <2>1. /\ UNCHANGED <<program, end, env, tree, written, events, net, stderr>>
        /\ pc = "decide" /\ pc' \in {"repair", "done"} /\ history' = Append(history, Observation)
    BY <1>5 DEF Decide, input, run
  <2>2. GuestRun'
    BY <2>1 DEF GuestRun
  <2>3. EndedRun'
    BY <1>a, <2>1 DEF RunInv
  <2>4. Last(history') = Observation
    BY <2>1, LastOfAppend DEF NeedInv, Types
  <2>5. /\ Observation = ObservationOf(program, end, env) /\ Observation.env = env
        /\ IsBundle(BundleOf(program, end, env)) /\ AsProgrammed(program, BundleOf(program, end, env))
    BY <2>1, ObservationIs
  <2>6. /\ Last(history') = ObservationOf(program, end, Last(history').env)
        /\ IsBundle(BundleOf(program, end, Last(history').env))
        /\ AsProgrammed(program, BundleOf(program, end, Last(history').env))
    BY <2>4, <2>5
  <2>7. \A x : /\ ObservationOf(program', end', x) = ObservationOf(program, end, x)
               /\ BundleOf(program', end', x) = BundleOf(program, end, x)
    BY <2>1
  <2>8. PastRun'
    BY <2>1, <2>6, <2>7 DEF PastRun, IsBundle, AsProgrammed
  <2> QED BY <2>2, <2>3, <2>8 DEF RunInv
<1>6. CASE ApplyPlan
  <2>1. UNCHANGED <<program, end, history>> /\ pc' = "start"
    BY <1>6 DEF ApplyPlan, input
  <2>2. GuestRun' /\ EndedRun' /\ PastRun'
    BY <2>1, PastKept DEF GuestRun, EndedRun, RunInv
  <2> QED BY <2>2 DEF RunInv
<1>7. CASE PlanRefused
  <2>1. UNCHANGED <<program, end, history>> /\ pc' = "done"
    BY <1>7 DEF PlanRefused, input
  <2>2. GuestRun' /\ EndedRun' /\ PastRun'
    BY <2>1, PastKept DEF GuestRun, EndedRun, RunInv
  <2> QED BY <2>2 DEF RunInv
<1>8. CASE UNCHANGED vars
  <2>1. UNCHANGED <<program, end, env, pc, tree, written, events, net, stderr, history>>
    BY <1>8 DEF vars, input, run
  <2>2. EndedRun' /\ PastRun'
    BY <1>a, <2>1, PastKept DEF RunInv
  <2>3. GuestRun'
    BY <2>1 DEF RunInv, GuestRun
  <2> QED BY <2>2, <2>3 DEF RunInv
<1> QED BY <1>1, <1>2, <1>3, <1>4, <1>5, <1>6, <1>7, <1>8 DEF Next

-----------------------------------------------------------------------------
(* The rounds come to an end by themselves                                 *)

\* The creating calls for which a repair has made the directory.
Settled ==
  {n \in GuestCreates : ParentDirectory(program[n].path).parts \in DOMAIN env \ DOMAIN seed}

\* Every attempt but the first has settled a call that was not settled before,
\* or its environment is that of the attempt before.
RepairedCount ==
  pc \in {"start", "guest", "observe", "decide"} /\ history # <<>> /\ env # Last(history).env =>
    /\ Len(history) <= Cardinality(Settled)
    /\ \E p \in Automatic(Last(history).plan) : p.parts \in DOMAIN env \ DOMAIN Last(history).env
DecidedCount ==
  pc = "repair" =>
    history # <<>> /\ Len(history) - 1 <= Cardinality(Settled) /\ Last(history).plan = plan
CountInv == RepairedCount /\ DecidedCount /\ BudgetSuffices

LEMMA SettledFinite ==
  ASSUME NeedInv
  PROVE  /\ IsFiniteSet(GuestCreates) /\ IsFiniteSet(Settled)
         /\ Cardinality(Settled) \in Nat /\ Cardinality(GuestCreates) \in Nat
         /\ Cardinality(Settled) <= Cardinality(GuestCreates)
<1>1. Len(program) \in Int /\ 1 \in Int
  BY DEF NeedInv, Types
<1>2. IsFiniteSet(1 .. Len(program))
  BY <1>1, FS_Interval
<1>3. GuestCreates \in SUBSET (1 .. Len(program)) /\ Settled \in SUBSET GuestCreates
  BY DEF GuestCreates, Settled
<1>4. IsFiniteSet(GuestCreates)
  BY <1>2, <1>3, FS_Subset
<1>5. IsFiniteSet(Settled) /\ Cardinality(Settled) <= Cardinality(GuestCreates)
  BY <1>3, <1>4, FS_Subset
<1> QED BY <1>4, <1>5, FS_CardinalityType

\* An attempt in the environment of the one before ends the session.
LEMMA SameEnvironmentStops ==
  ASSUME NeedInv, RunInv, pc = "decide", history # <<>>, env = Last(history).env
  PROVE  StopReason(Observation) \in {"execution_crashed", "fixed_point"}
<1>1. Last(history) = ObservationOf(program, end, env)
  BY DEF RunInv, PastRun
<1>2. Observation = ObservationOf(program, end, env)
  BY ObservationIs
<1>3. Last(history) = Observation
  BY <1>1, <1>2
<1> QED BY <1>3 DEF StopReason

\* A repair that changes the environment settles a call.
LEMMA RepairSettles ==
  ASSUME NeedInv, ApplyPlan, env' # env
  PROVE  /\ Cardinality(Settled)' >= Cardinality(Settled) + 1 /\ Cardinality(Settled)' \in Nat
         /\ \E p \in Automatic(plan) : p.parts \in DOMAIN env' \ DOMAIN env
<1>0. /\ pc = "repair" /\ program' = program /\ seed' = seed
      /\ env' = [p \in DOMAIN env \cup Added |-> IF p \in DOMAIN env THEN env[p] ELSE "dir"]
  BY DEF ApplyPlan, input
<1>1. DOMAIN env' = DOMAIN env \cup Added
  BY <1>0
<1>2. Added # {}
  <2> SUFFICES ASSUME Added = {} PROVE env' = env
    OBVIOUS
  <2>1. env = [p \in DOMAIN env |-> env[p]]
    BY DEF NeedInv, Types, IsTree
  <2>2. env' = [p \in DOMAIN env |-> env[p]]
    BY <1>0
  <2> QED BY <2>1, <2>2
<1>3. PICK q : q \in Added
  BY <1>2
<1>4. PICK p \in Automatic(plan) : q \in Along(p)
  BY <1>3, AddedIs
<1>5. p.parts \in Seq(STRING) /\ Len(p.parts) \in Nat \ {0}
  BY <1>0, PlannedIsNeeded
<1>6. PICK n \in GuestCreates : p = ParentDirectory(program[n].path)
  BY <1>0, PlannedIsNeeded
<1>7. p.parts \notin DOMAIN env
  <2> SUFFICES ASSUME p.parts \in DOMAIN env PROVE FALSE
    OBVIOUS
  <2>1. PICK m \in 1 .. Len(p.parts) : q = SubSeq(p.parts, 1, m)
    BY <1>4 DEF Along
  <2>2. q \in DOMAIN env
    BY <2>1, TreePrefixes DEF NeedInv, Types
  <2> QED BY <1>3, <2>2, AddedIs
<1>8. p.parts \in Along(p)
  <2>1. p.parts = SubSeq(p.parts, 1, Len(p.parts)) /\ Len(p.parts) \in 1 .. Len(p.parts)
    BY <1>5
  <2> QED BY <2>1 DEF Along
<1>9. p.parts \in Added
  BY <1>7, <1>8, AddedIs
<1>10. p.parts \in DOMAIN env' \ DOMAIN env
  BY <1>1, <1>7, <1>9
<1>11. GuestCreates' = GuestCreates
  BY <1>0 DEF GuestCreates
<1>12. DOMAIN seed \subseteq DOMAIN env
  BY DEF NeedInv, EnvironmentGrowsByNeed
<1>13. n \notin Settled
  BY <1>6, <1>7 DEF Settled
<1>14. Settled \cup {n} \in SUBSET Settled'
  <2>1. Settled \subseteq Settled'
    BY <1>0, <1>1, <1>11 DEF Settled
  <2>2. n \in Settled'
    BY <1>0, <1>6, <1>10, <1>11, <1>12 DEF Settled
  <2> QED BY <2>1, <2>2
<1>15. IsFiniteSet(Settled) /\ Cardinality(Settled) \in Nat
  BY SettledFinite
<1>16. IsFiniteSet(Settled')
  <2>2. Settled' \in SUBSET GuestCreates
    BY <1>11 DEF Settled
  <2>3. IsFiniteSet(GuestCreates)
    BY SettledFinite
  <2> QED BY <2>2, <2>3, FS_Subset
<1>17. Cardinality(Settled \cup {n}) = Cardinality(Settled) + 1
  BY <1>13, <1>15, FS_AddElement
<1>18. Cardinality(Settled \cup {n}) <= Cardinality(Settled')
  BY <1>14, <1>16, FS_Subset
<1>19. Cardinality(Settled') \in Nat
  BY <1>16, FS_CardinalityType
<1>20. Cardinality(Settled)' >= Cardinality(Settled) + 1
  BY <1>15, <1>17, <1>18, <1>19
<1> QED BY <1>10, <1>19, <1>20

LEMMA CountInit == Init => CountInv
<1> SUFFICES ASSUME Init PROVE CountInv
  OBVIOUS
<1> QED BY DEF Init, CountInv, RepairedCount, DecidedCount, BudgetSuffices

LEMMA CountApply == NeedInv /\ HealthInv /\ CountInv /\ ApplyPlan => CountInv'
<1> SUFFICES ASSUME NeedInv, HealthInv, CountInv, ApplyPlan PROVE CountInv'
  OBVIOUS
<1>0. /\ pc = "repair" /\ pc' = "start" /\ UNCHANGED <<program, seed, history, plan, outcome>>
  BY DEF ApplyPlan, input
<1>1. history # <<>> /\ Len(history) - 1 <= Cardinality(Settled) /\ Last(history).plan = plan
  BY <1>0 DEF CountInv, DecidedCount
<1>2. Last(history).env = env
  BY <1>0, <1>1 DEF HealthInv, GrownInv
<1>3. DecidedCount'
  BY <1>0 DEF DecidedCount
<1>4. BudgetSuffices'
  BY <1>0 DEF CountInv, BudgetSuffices, GuestCreates
<1>5. RepairedCount'
  <2> SUFFICES ASSUME env' # env PROVE RepairedCount'
    BY <1>0, <1>2 DEF RepairedCount
  <2>1. /\ Cardinality(Settled)' >= Cardinality(Settled) + 1
        /\ \E p \in Automatic(plan) : p.parts \in DOMAIN env' \ DOMAIN env
    BY RepairSettles
  <2>2. Len(history) \in Nat /\ Cardinality(Settled) \in Nat /\ Cardinality(Settled)' \in Nat
    BY RepairSettles, SettledFinite, SeqFacts DEF NeedInv, Types
  <2>3. Len(history') <= Cardinality(Settled)'
    BY <1>0, <1>1, <2>1, <2>2
  <2>4. \E p \in Automatic(Last(history').plan) : p.parts \in DOMAIN env' \ DOMAIN Last(history').env
    BY <1>0, <1>1, <1>2, <2>1
  <2> QED BY <2>3, <2>4 DEF RepairedCount, Automatic
<1> QED BY <1>3, <1>4, <1>5 DEF CountInv

LEMMA CountDecide == NeedInv /\ RunInv /\ CountInv /\ Decide => CountInv'
<1> SUFFICES ASSUME NeedInv, RunInv, CountInv, Decide PROVE CountInv'
  OBVIOUS
<1>0. /\ pc = "decide" /\ UNCHANGED <<program, seed, env, plan>>
      /\ history' = Append(history, Observation) /\ outcome' = StopReason(Observation)
      /\ pc' = IF StopReason(Observation) = "none" THEN "repair" ELSE "done"
  BY DEF Decide, input
<1>1. /\ Last(history') = Observation /\ history' # <<>> /\ Len(history) \in Nat
      /\ Len(history') = Len(history) + 1
  BY <1>0, LastOfAppend, SeqAppend, SeqFacts DEF NeedInv, Types
<1>2. GuestCreates' = GuestCreates /\ Settled' = Settled
  BY <1>0 DEF GuestCreates, Settled
<1>3. /\ Cardinality(Settled) \in Nat /\ Cardinality(GuestCreates) \in Nat
      /\ Cardinality(Settled) <= Cardinality(GuestCreates)
  BY SettledFinite
<1>4. RepairedCount'
  BY <1>0 DEF RepairedCount
<1>5. ASSUME StopReason(Observation) \notin {"execution_crashed", "fixed_point"}
      PROVE  Len(history) <= Cardinality(Settled)
  <2>1. CASE history = <<>>
    <3>1. Len(history) = 0
      BY <2>1
    <3> QED BY <1>3, <3>1
  <2>2. CASE history # <<>>
    <3>1. env # Last(history).env
      BY <1>0, <1>5, <2>2, SameEnvironmentStops
    <3> QED BY <1>0, <2>2, <3>1 DEF CountInv, RepairedCount
  <2> QED BY <2>1, <2>2
<1>6. DecidedCount'
  <2> SUFFICES ASSUME StopReason(Observation) = "none" PROVE DecidedCount'
    BY <1>0 DEF DecidedCount
  <2>1. Len(history) <= Cardinality(Settled)
    BY <1>5
  <2>2. Len(history') - 1 <= Cardinality(Settled')
    BY <1>1, <1>2, <2>1
  <2>3. Last(history').plan = plan
    BY <1>1 DEF Observation
  <2> QED BY <1>0, <1>1, <2>2, <2>3 DEF DecidedCount
<1>7. BudgetSuffices'
  <2> SUFFICES ASSUME StopReason(Observation) = "budget_exhausted"
               PROVE  MaxIterations < Cardinality(GuestCreates) + 2
    BY <1>0, <1>2 DEF BudgetSuffices
  <2>1. Len(history) + 1 >= MaxIterations
    BY DEF StopReason
  <2>2. Len(history) <= Cardinality(Settled)
    BY <1>5
  <2>3. MaxIterations \in Nat
    BY BudgetAssumption
  <2> QED BY <1>1, <1>3, <2>1, <2>2, <2>3
<1> QED BY <1>4, <1>6, <1>7 DEF CountInv

LEMMA CountNext == NeedInv /\ HealthInv /\ RunInv /\ CountInv /\ [Next]_vars => CountInv'
<1> SUFFICES ASSUME NeedInv, HealthInv, RunInv, CountInv, [Next]_vars PROVE CountInv'
  OBVIOUS
<1>a. ASSUME UNCHANGED <<program, seed, env, history, outcome>>, pc' # "repair",
             pc' \in {"start", "guest", "observe", "decide"} => pc \in {"start", "guest", "observe", "decide"}
      PROVE  CountInv'
  <2>1. GuestCreates' = GuestCreates /\ Settled' = Settled
    BY <1>a DEF GuestCreates, Settled
  <2>2. RepairedCount' /\ DecidedCount' /\ BudgetSuffices'
    BY <1>a, <2>1 DEF CountInv, RepairedCount, DecidedCount, BudgetSuffices
  <2> QED BY <2>2 DEF CountInv
<1>1. CASE StartGuest
  BY <1>a, <1>1 DEF StartGuest, input
<1>2. CASE Syscall
  <2>1. /\ UNCHANGED <<program, seed, env, history, outcome>>
        /\ pc = "guest" /\ pc' \in {"observe", "guest"}
    BY <1>2 DEF Syscall, input
  <2> QED BY <1>a, <2>1
<1>3. CASE EndGuest
  BY <1>a, <1>3 DEF EndGuest, input
<1>4. CASE Postprocess
  BY <1>a, <1>4 DEF Postprocess, input
<1>5. CASE Decide
  BY <1>5, CountDecide
<1>6. CASE ApplyPlan
  BY <1>6, CountApply
<1>7. CASE PlanRefused
  <2>1. /\ UNCHANGED <<program, seed, env, history>> /\ pc' = "done" /\ outcome' = "refused"
    BY <1>7 DEF PlanRefused, input
  <2> QED BY <2>1 DEF CountInv, RepairedCount, DecidedCount, BudgetSuffices
<1>8. CASE UNCHANGED vars
  <2>1. UNCHANGED <<program, seed, env, history, outcome, pc, plan>>
    BY <1>8 DEF vars, input
  <2>2. GuestCreates' = GuestCreates /\ Settled' = Settled
    BY <2>1 DEF GuestCreates, Settled
  <2> QED BY <2>1, <2>2 DEF CountInv, RepairedCount, DecidedCount, BudgetSuffices
<1> QED BY <1>1, <1>2, <1>3, <1>4, <1>5, <1>6, <1>7, <1>8 DEF Next

\* The session ends by itself: _decide_stop_reason never reports an exhausted
\* budget when the budget is at least two attempts more than the guest has
\* creating calls.
THEOREM BudgetIsEnough == Spec => []BudgetSuffices
<1> DEFINE Inv == NeedInv /\ HealthInv /\ RunInv /\ CountInv
<1>1. Init => Inv
  BY NeedInit, HealthInit, RunInit, CountInit
<1>2. Inv /\ [Next]_vars => Inv'
  BY NeedNext, HealthNext, RunNext, CountNext
<1>3. Inv => BudgetSuffices
  BY DEF CountInv
<1> QED BY <1>1, <1>2, <1>3, PTL DEF Spec

-----------------------------------------------------------------------------
(* A repair is no regression                                               *)

\* The oracle's events are the guest's, each by what it keeps of them.
LEMMA NormalizedElements ==
  ASSUME NEW es, IsSeq(es)
  PROVE  ToSet(NormalizeGuestEvents(es)) = {Normalized(e) : e \in {e \in ToSet(es) : e.context = "guest"}}
<1> DEFINE g == SelectSyscallEvents(es)
           s == [n \in 1 .. Len(g) |-> Normalized(g[n])]
<1>1. IsSeq(g) /\ ToSet(g) = {e \in ToSet(es) : e.context = "guest"}
  BY SelectElements
<1>2. Len(g) \in Nat /\ ToSet(g) = {g[i] : i \in 1 .. Len(g)}
  BY <1>1, SeqFacts
<1>3. NormalizeGuestEvents(es) = s
  BY Zenon DEF NormalizeGuestEvents
<1> HIDE DEF g
<1>4. \A n \in 1 .. Len(g) : s[n] = Normalized(g[n])
  OBVIOUS
<1>5. ToSet(s) = {s[n] : n \in 1 .. Len(g)}
  <2>1. s = [n \in 1 .. Len(g) |-> s[n]]
    OBVIOUS
  <2> HIDE DEF s
  <2> QED BY <1>2, <2>1, SeqIntro
<1> HIDE DEF s
<1>6. ToSet(s) = {Normalized(e) : e \in ToSet(g)}
  BY <1>2, <1>4, <1>5
<1> QED BY <1>1, <1>3, <1>6

LEMMA NormalizedFields ==
  ASSUME NEW e, NEW d, Normalized(e) = Normalized(d)
  PROVE  /\ e.event = d.event /\ SyscallName(e.syscall) = SyscallName(d.syscall)
         /\ e.path = d.path /\ e.errno = d.errno
<1> DEFINE x == Normalized(e)
           y == Normalized(d)
<1>1. x.event = e.event /\ x.syscall = SyscallName(e.syscall) /\ x.path = e.path /\ x.errno = e.errno
  BY DEF Normalized
<1>2. y.event = d.event /\ y.syscall = SyscallName(d.syscall) /\ y.path = d.path /\ y.errno = d.errno
  BY DEF Normalized
<1> QED BY <1>1, <1>2

\* Claims are made from these fields only.
LEMMA SameClaims ==
  ASSUME NEW e, NEW d, e.event = d.event, e.path = d.path, e.errno = d.errno,
         e.event = "syscall" => e.syscall = d.syscall, NEW bl
  PROVE  ClaimsOf(e, bl) = ClaimsOf(d, bl)
<1>1. CASE e.event = "syscall"
  <2>1. PathClaims(e, bl) = PathClaims(d, bl)
    <3>1. e.syscall = d.syscall
      BY <1>1
    <3>2. Creating(e) <=> Creating(d)
      BY <3>1 DEF Creating
    <3>3. HandlesMissing(e) <=> HandlesMissing(d)
      BY <3>1, <3>2, Zenon DEF HandlesMissing
    <3>4. MissingPath(e, bl) = MissingPath(d, bl)
      BY <3>1, <3>2, Zenon DEF MissingPath
    <3> QED BY <3>1, <3>2, <3>3, <3>4, Zenon DEF PathClaims
  <2> QED BY <1>1, <2>1, Zenon DEF ClaimsOf
<1>2. CASE e.event # "syscall"
  BY <1>2, Zenon DEF ClaimsOf
<1> QED BY <1>1, <1>2

\* A report whose guest did nothing that the guest of another did not do has no
\* requirement unmet that the other has not, unless the loader complained.
LEMMA UnmetShrinks ==
  ASSUME NEW a, IsBundle(a), NEW b, IsBundle(b), b.stderr = <<>>,
         OpensOneWay, AsProgrammed(program, a), AsProgrammed(program, b),
         ToSet(NormalizeGuestEvents(b.events)) \subseteq ToSet(NormalizeGuestEvents(a.events))
  PROVE  Unmet(Extract(b)) \subseteq Unmet(Extract(a))
<1> SUFFICES ASSUME NEW k \in Unmet(Extract(b)) PROVE k \in Unmet(Extract(a))
  OBVIOUS
<1>1. PICK e, bl :
        /\ e \in ToSet(b.events) /\ e.context = "guest"
        /\ \E c \in ToSet(ClaimsOf(e, bl)) : c.key = k /\ c.status = "unmet"
  BY ExtractFacts
<1>2. PICK d \in ToSet(a.events) : d.context = "guest" /\ Normalized(e) = Normalized(d)
  <2>1. Normalized(e) \in ToSet(NormalizeGuestEvents(b.events))
    BY <1>1, NormalizedElements DEF IsBundle
  <2>2. Normalized(e) \in ToSet(NormalizeGuestEvents(a.events))
    BY <2>1
  <2> QED BY <2>2, NormalizedElements DEF IsBundle
<1>3. /\ e.event = d.event /\ SyscallName(e.syscall) = SyscallName(d.syscall)
      /\ e.path = d.path /\ e.errno = d.errno
  BY <1>2, NormalizedFields
<1>4. ASSUME e.event = "syscall" PROVE e.syscall = d.syscall
  <2>1. PICK m \in 1 .. Len(program) : e.syscall = program[m].call /\ e.path = program[m].path
    BY <1>1, <1>4 DEF AsProgrammed
  <2>2. PICK n \in 1 .. Len(program) : d.syscall = program[n].call /\ d.path = program[n].path
    BY <1>2, <1>3, <1>4 DEF AsProgrammed
  <2>3. ~(e.syscall = "open" /\ d.syscall = "creat") /\ ~(e.syscall = "creat" /\ d.syscall = "open")
    BY <1>3, <2>1, <2>2 DEF OpensOneWay
  <2> QED BY <1>3, <2>3 DEF SyscallName
<1>5. \A x : ClaimsOf(e, x) = ClaimsOf(d, x)
  BY <1>3, <1>4, SameClaims
<1>6. PICK c \in ToSet(ClaimsOf(d, bl)) : c.key = k /\ c.status = "unmet"
  BY <1>1, <1>5
<1>7. PICK bl2 : \A r \in ToSet(ClaimsOf(d, bl2)) : r.status = "unmet" => r.key \in Unmet(Extract(a))
  BY <1>2, ExtractFacts
<1>8. PICK r \in ToSet(ClaimsOf(d, bl2)) : r.key = c.key /\ r.status = c.status
  BY <1>6, ClaimsOfFacts
<1> QED BY <1>6, <1>7, <1>8

\* The requirement that was repaired is not unmet again.
LEMMA RepairedIsMet ==
  ASSUME NeedInv, HealthInv, pc = "decide", history # <<>>,
         \A n \in 1 .. Len(program) : program[n].call # "rmdir",
         NEW k, k.operation = "directory_exists",
         k.resource.parts \in DOMAIN env \ DOMAIN Last(history).env
  PROVE  k \notin Unmet(Extract(Bundle))
<1> SUFFICES ASSUME k \in Unmet(Extract(Bundle)) PROVE FALSE
  OBVIOUS
<1>1. IsBundle(Bundle) /\ Bundle.events = events
  BY BundleType DEF NeedInv
<1>2. k \in DOMAIN Extract(Bundle)
  BY DEF Unmet
<1>3. \E e \in ToSet(events) : /\ e.context = "guest" /\ e.event = "syscall" /\ Creates(e)
                               /\ k.resource = ParentDirectory(e.path)
  BY <1>1, <1>2, ExtractFacts
<1>4. ToSet(events) = {events[i] : i \in 1 .. Len(events)} /\ Len(events) \in Nat
  BY SeqFacts DEF NeedInv, Types
<1>5. PICK n \in 1 .. Len(events) : /\ events[n].event = "syscall" /\ Creates(events[n])
                                    /\ k.resource = ParentDirectory(events[n].path)
  BY <1>3, <1>4
<1>6. events[n].path = program[n].path /\ n <= Len(program)
  BY <1>5 DEF NeedInv, EventsInv
<1>7. ParentDirectory(program[n].path).parts \in DOMAIN env \ DOMAIN Last(history).env
  BY <1>5, <1>6
<1>8. PICK m \in 1 .. n - 1 : Removes(m)
  BY <1>5, <1>7 DEF HealthInv, HealsInv
<1>9. m \in 1 .. Len(program)
  BY <1>4, <1>5, <1>6, <1>8 DEF NeedInv, Types
<1>10. program[m].call = "rmdir"
  BY <1>8, Zenon DEF Removes
<1> QED BY <1>9, <1>10

\* The attempt after a repair has something to its credit.
LEMMA RepairIsPositive ==
  ASSUME NeedInv, HealthInv, RunInv, CountInv, pc = "decide", history # <<>>,
         env # Last(history).env, end \notin {"ld.so", "lib.so"}, OpensOneWay,
         \A n \in 1 .. Len(program) : program[n].call # "rmdir"
  PROVE  Positive(Last(history), Observation)
<1> DEFINE old == Last(history)
           a == BundleOf(program, end, old.env)
           U == Unmet(Extract(a))
           V == Unmet(Extract(Bundle))
<1>1. IsBundle(a) /\ AsProgrammed(program, a) /\ old = ObservationOf(program, end, old.env)
  BY DEF RunInv, PastRun
<1>2. /\ old.reqs = Extract(a) /\ old.plan = Plan(Extract(a))
      /\ old.guest = NormalizeGuestEvents(a.events)
  <2>1. old = [env |-> old.env, reqs |-> Extract(a), plan |-> Plan(Extract(a)),
               guest |-> NormalizeGuestEvents(a.events), net |-> a.net]
    BY <1>1, Zenon DEF ObservationOf
  <2> HIDE DEF old, a
  <2> QED BY <2>1
<1>3. IsBundle(Bundle) /\ Bundle.events = events /\ Bundle.stderr = stderr
  BY BundleType DEF NeedInv
<1>4. Bundle.stderr = <<>>
  <2>1. Bundle = BundleOf(program, end, env)
    BY DEF RunInv, EndedRun
  <2> QED BY <2>1 DEF BundleOf
<1>5. Observation.reqs = Extract(Bundle) /\ Observation.guest = NormalizeGuestEvents(events)
  BY DEF Observation, NeedInv, PlanInv
<1>6. PICK p \in Automatic(old.plan) : p.parts \in DOMAIN env \ DOMAIN old.env
  BY DEF CountInv, RepairedCount
<1>7. PICK k \in U : k.operation = "directory_exists" /\ k.resource = p
  <2> HIDE DEF a, old
  <2>1. p \in Automatic(Plan(Extract(a)))
    BY <1>2, <1>6
  <2> QED BY <1>1, <2>1, AutomaticFacts
<1>8. k \notin V
  BY <1>6, <1>7, RepairedIsMet
<1>9. IsFiniteSet(U)
  <2>1. IsFiniteSet(DOMAIN Extract(a))
    BY <1>1, ExtractFacts
  <2>2. U \in SUBSET DOMAIN Extract(a)
    BY DEF Unmet
  <2> QED BY <2>1, <2>2, FS_Subset
<1>10. CASE ToSet(Observation.guest) \ ToSet(old.guest) # {}
  BY <1>10 DEF Positive
<1>11. CASE ToSet(Observation.guest) \ ToSet(old.guest) = {}
  <2>1. ToSet(NormalizeGuestEvents(Bundle.events)) \subseteq ToSet(NormalizeGuestEvents(a.events))
    BY <1>2, <1>3, <1>5, <1>11
  <2>2. V \subseteq U
    <3> HIDE DEF a
    <3> QED BY <1>1, <1>3, <1>4, <2>1, UnmetShrinks, EventsAsProgrammed
  <2> HIDE DEF U, V
  <2>3. V \in SUBSET U /\ V # U
    BY <1>7, <1>8, <2>2
  <2>4. IsFiniteSet(V) /\ Cardinality(V) <= Cardinality(U) /\ Cardinality(V) # Cardinality(U)
    BY <1>9, <2>3, FS_Subset
  <2>5. Cardinality(V) \in Nat /\ Cardinality(U) \in Nat
    BY <1>9, <2>4, FS_CardinalityType
  <2>6. Cardinality(V) < Cardinality(U)
    BY <2>4, <2>5
  <2>7. Unmet(Observation.reqs) = V /\ Unmet(old.reqs) = U
    BY <1>2, <1>5 DEF U, V
  <2>8. Cardinality(Unmet(Observation.reqs)) < Cardinality(Unmet(old.reqs))
    BY <2>6, <2>7
  <2> QED BY <2>8 DEF Positive
<1> QED BY <1>10, <1>11

LEMMA RegressionNext ==
  NeedInv /\ HealthInv /\ RunInv /\ CountInv /\ RepairIsNoRegression /\ [Next]_vars => RepairIsNoRegression'
<1> SUFFICES ASSUME NeedInv, HealthInv, RunInv, CountInv, RepairIsNoRegression, [Next]_vars
             PROVE  RepairIsNoRegression'
  OBVIOUS
<1>1. CASE UNCHANGED <<program, end, history, progress>>
  BY <1>1 DEF RepairIsNoRegression, OpensOneWay
<1>2. CASE Decide
  <2>0. /\ pc = "decide" /\ UNCHANGED <<program, end>> /\ history' = Append(history, Observation)
        /\ history # <<>> => progress' = Compare(Last(history), Observation)
    BY <1>2 DEF Decide, input
  <2>1. /\ Last(history') = Observation /\ Len(history) \in Nat /\ Len(history') = Len(history) + 1
        /\ \A i \in 1 .. Len(history) : history'[i] = history[i]
    BY <2>0, LastOfAppend, SeqAppend, SeqFacts DEF NeedInv, Types
  <2> SUFFICES ASSUME end \notin {"ld.so", "lib.so"}, OpensOneWay, \A n \in 1 .. Len(program) : program[n].call # "rmdir",
                      Len(history') > 1, Last(history').env # history'[Len(history') - 1].env
               PROVE  progress' # "regression"
    BY <2>0 DEF RepairIsNoRegression, OpensOneWay
  <2>2. Len(history) \in 1 .. Len(history) /\ Len(history') - 1 = Len(history)
    BY <2>1
  <2>3. history'[Len(history') - 1] = Last(history)
    BY <2>1, <2>2 DEF Last
  <2>4. Last(history').env = env
    BY <2>1 DEF Observation
  <2>5. history # <<>>
    <3>1. Len(history) # 0
      BY <2>2
    <3> QED BY <3>1
  <2>6. Positive(Last(history), Observation)
    BY <2>0, <2>3, <2>4, <2>5, RepairIsPositive
  <2>7. Compare(Last(history), Observation) # "regression"
    BY <2>6 DEF Compare
  <2> QED BY <2>0, <2>5, <2>7
<1>3. [Next]_vars => Decide \/ UNCHANGED <<program, end, history, progress>>
  <2>1. StartGuest \/ Syscall \/ EndGuest => UNCHANGED <<program, end, history, progress>>
    BY DEF StartGuest, Syscall, EndGuest, input
  <2>2. Postprocess \/ ApplyPlan \/ PlanRefused \/ UNCHANGED vars =>
          UNCHANGED <<program, end, history, progress>>
    BY DEF Postprocess, ApplyPlan, PlanRefused, vars, input
  <2> QED BY <2>1, <2>2 DEF Next
<1> QED BY <1>1, <1>2, <1>3

\* ProgressOracle.compare never calls an attempt a regression whose environment a
\* repair has changed: either the guest did something it had not done before, or
\* the repaired requirement is gone and no other has come in its place.
THEOREM NoRepairRegresses == Spec => []RepairIsNoRegression
<1> DEFINE Inv == NeedInv /\ HealthInv /\ RunInv /\ CountInv /\ RepairIsNoRegression
<1>1. Init => Inv
  <2>1. Init => RepairIsNoRegression
    <3> SUFFICES ASSUME Init PROVE progress # "regression"
      BY DEF RepairIsNoRegression
    <3> QED BY DEF Init
  <2> QED BY <2>1, NeedInit, HealthInit, RunInit, CountInit
<1>2. Inv /\ [Next]_vars => Inv'
  BY NeedNext, HealthNext, RunNext, CountNext, RegressionNext
<1>3. Inv => RepairIsNoRegression
  OBVIOUS
<1> QED BY <1>1, <1>2, <1>3, PTL DEF Spec
=============================================================================
