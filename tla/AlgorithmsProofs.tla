-------------------------- MODULE AlgorithmsProofs --------------------------
(***************************************************************************)
(* The properties of Algorithms for inputs of any length.                  *)
(***************************************************************************)
EXTENDS AlgorithmsTerms, TLAPS, WellFoundedInduction, SequenceTheorems,
        FiniteSetTheorems

LEMMA SmallestElement ==
    ASSUME NEW T, T \subseteq Nat, T # {}
    PROVE  \E x \in T : \A y \in T : ~(y < x)
  <1> DEFINE less == OpToRel(<, Nat)
  <1>1. IsWellFoundedOn(less, Nat)  BY NatLessThanWellFounded
  <1>2. \A x, y \in Nat : y < x => <<y, x>> \in less  BY Zenon DEF OpToRel
  <1> HIDE DEF less
  <1>3. PICK x \in T : \A y \in T : ~(<<y, x>> \in less)  BY <1>1, WFMin
  <1> QED  BY <1>2, <1>3

LEMMA SetInduction ==
    ASSUME NEW S, 0 \in S, \A n \in Nat : n \in S => n + 1 \in S
    PROVE  Nat \subseteq S
  <1> DEFINE bad == Nat \ S
  <1>1. SUFFICES ASSUME bad # {} PROVE FALSE  OBVIOUS
  <1>2. PICK x \in bad : \A y \in bad : ~(y < x)  BY <1>1, SmallestElement
  <1>3. x \in Nat /\ x # 0 /\ x - 1 \in Nat  BY <1>2
  <1>4. x - 1 \notin bad  BY <1>2, <1>3
  <1> QED  BY <1>2, <1>3, <1>4

LEMMA SetInductionUpTo ==
    ASSUME NEW n \in Nat, NEW S, 0 \in S,
           \A m \in 0..(n - 1) : m \in S => m + 1 \in S
    PROVE  0..n \subseteq S
  <1> DEFINE T == {m \in Nat : m > n \/ m \in S}
  <1>1. 0 \in T  OBVIOUS
  <1>2. \A m \in Nat : m \in T => m + 1 \in T  OBVIOUS
  <1> HIDE DEF T
  <1>3. Nat \subseteq T  BY <1>1, <1>2, SetInduction
  <1> QED  BY <1>3 DEF T

LEMMA MaxOfInterval ==
    ASSUME NEW n \in Nat, n > 0
    PROVE  Max(1..n) = n /\ (1..n) \ {n} = 1..(n - 1)
  <1>1. \A x \in 1..n : (\A y \in 1..n : x >= y) <=> x = n  OBVIOUS
  <1> QED  BY <1>1 DEF Max

LEMMA MaxIsIn ==
    ASSUME NEW n \in Nat, NEW s, s \subseteq 1..n, s # {}
    PROVE  /\ Max(s) \in s
           /\ \A y \in s : Max(s) >= y
  <1> DEFINE T == {t \in Nat : n - t \in s}
  <1>1. PICK t \in T : \A u \in T : ~(u < t)
    <2>1. T \subseteq Nat  OBVIOUS
    <2>2. T # {}
      <3>1. PICK x \in s : TRUE  OBVIOUS
      <3>2. n - x \in T  OBVIOUS
      <3> QED  BY <3>2
    <2> HIDE DEF T
    <2> QED  BY <2>1, <2>2, SmallestElement
  <1>2. \A y \in s : n - t >= y
    <2> TAKE y \in s
    <2>1. n - y \in T  OBVIOUS
    <2> QED  BY <1>1, <2>1
  <1>3. n - t \in s  OBVIOUS
  <1> QED  BY <1>2, <1>3 DEF Max

----
(* The loops of the models, under one name each, so that what holds of any *)
(* FoldLeft is proved once: Turn is the state after one turn of a loop.    *)
LEMMA LoopExists ==
    ASSUME NEW loop, NEW base, NEW seq, NEW n \in Nat
    PROVE  \E g : LoopEq(loop, base, seq, n, g)
  <1> DEFINE S == {m \in Nat : \E g : LoopEq(loop, base, seq, m, g)}
  <1>1. 0 \in S
    <2> DEFINE g == [s \in SUBSET (1..0) |-> base]
    <2>1. LoopEq(loop, base, seq, 0, g)  BY DEF LoopEq
    <2> QED  BY <2>1
  <1>2. ASSUME NEW m \in Nat, m \in S PROVE m + 1 \in S
    <2>1. PICK g : LoopEq(loop, base, seq, m, g)  BY <1>2
    <2> DEFINE next(f, s) == IF s = {} THEN base
                             ELSE Turn(loop, f[s \ {Max(s)}], seq[Max(s)])
               h == [s \in SUBSET (1..(m + 1)) |-> next(g, s)]
    <2>2. ASSUME NEW s \in SUBSET (1..m) PROVE h[s] = g[s]
      <3>1. s \in SUBSET (1..(m + 1))  OBVIOUS
      <3>2. h[s] = next(g, s)  BY <3>1
      <3>3. g[s] = next(g, s)  BY <2>1 DEF LoopEq
      <3> QED  BY <3>2, <3>3
    <2>3. ASSUME NEW s \in SUBSET (1..(m + 1)), s # {}
          PROVE  s \ {Max(s)} \in SUBSET (1..m)
      <3>1. m + 1 \in Nat /\ s \subseteq 1..(m + 1)  OBVIOUS
      <3>2. /\ Max(s) \in s
            /\ \A y \in s : Max(s) >= y  BY <3>1, <2>3, MaxIsIn
      <3>3. ASSUME NEW y \in s, y # Max(s) PROVE y \in 1..m
        <4>1. y \in 1..(m + 1) /\ Max(s) \in 1..(m + 1) /\ Max(s) >= y
          BY <3>1, <3>2
        <4> QED  BY <3>3, <4>1
      <3> QED  BY <3>3
    <2> HIDE DEF h
    <2>4. \A s \in SUBSET (1..(m + 1)) :
             s # {} => h[s \ {Max(s)}] = g[s \ {Max(s)}]  BY <2>2, <2>3
    <2>5. h = [s \in SUBSET (1..(m + 1)) |-> next(h, s)]  BY <2>4 DEF h
    <2>6. LoopEq(loop, base, seq, m + 1, h)  BY <2>5 DEF LoopEq
    <2>7. m + 1 \in Nat  OBVIOUS
    <2> QED  BY <2>6, <2>7
  <1> HIDE DEF S
  <1>3. n \in S  BY <1>1, <1>2, SetInduction
  <1> QED  BY <1>3 DEF S

LEMMA LoopRuns ==
    ASSUME NEW loop, NEW base, NEW seq, NEW n \in Nat, NEW g,
           LoopEq(loop, base, seq, n, g)
    PROVE  \E r : Runs(loop, base, seq, n, r) /\ r[n] = g[1..n]
  <1> DEFINE r == [m \in 0..n |-> g[1..m]]
  <1>1. r[0] = base
    <2>1. 1..0 = {} /\ 1..0 \in SUBSET (1..n)  OBVIOUS
    <2> QED  BY <2>1 DEF LoopEq
  <1>2. ASSUME NEW m \in 1..n
        PROVE  r[m] = Turn(loop, r[m - 1], seq[m])
    <2>1. 1..m \in SUBSET (1..n)  OBVIOUS
    <2>2. m \in 1..m  OBVIOUS
    <2>3. Max(1..m) = m /\ (1..m) \ {m} = 1..(m - 1)  BY MaxOfInterval
    <2>4. g[1..m] = Turn(loop, g[(1..m) \ {Max(1..m)}], seq[Max(1..m)])
      BY <2>1, <2>2 DEF LoopEq
    <2>5. r[m] = g[1..m] /\ r[m - 1] = g[1..(m - 1)]  OBVIOUS
    <2> QED  BY <2>3, <2>4, <2>5
  <1>3. r[n] = g[1..n] /\ r = [m \in 0..n |-> r[m]]  OBVIOUS
  <1> HIDE DEF r
  <1> QED  BY <1>1, <1>2, <1>3 DEF Runs

(* Loops that start alike and go through the same are alike.               *)
LEMMA RunsAgree ==
    ASSUME NEW loop, NEW base, NEW seq, NEW other, NEW n \in Nat,
           NEW k \in Nat, NEW l \in Nat, n <= k, n <= l, NEW r, NEW q,
           Runs(loop, base, seq, k, r), Runs(loop, base, other, l, q),
           \A m \in 1..n : seq[m] = other[m]
    PROVE  r[n] = q[n]
  <1> DEFINE S == {m \in 0..n : r[m] = q[m]}
  <1>1. 0 \in S  BY DEF Runs
  <1>2. ASSUME NEW m \in 0..(n - 1), m \in S PROVE m + 1 \in S
    <2>1. m + 1 \in 1..n /\ m + 1 \in 1..k /\ m + 1 \in 1..l /\ (m + 1) - 1 = m
      OBVIOUS
    <2>2. r[m + 1] = Turn(loop, r[m], seq[m + 1])  BY <2>1 DEF Runs
    <2>3. q[m + 1] = Turn(loop, q[m], other[m + 1])  BY <2>1 DEF Runs
    <2> QED  BY <1>2, <2>1, <2>2, <2>3
  <1> HIDE DEF S
  <1>3. 0..n \subseteq S  BY <1>1, <1>2, SetInductionUpTo
  <1> QED  BY <1>3 DEF S

LEMMA RunsExist ==
    ASSUME NEW loop, NEW base, NEW seq, NEW n \in Nat
    PROVE  \E r : Runs(loop, base, seq, n, r)
  BY LoopExists, LoopRuns

LEMMA AfterIsRun ==
    ASSUME NEW loop, NEW base, NEW seq, NEW n \in Nat, NEW k \in Nat, n <= k,
           NEW r, Runs(loop, base, seq, k, r)
    PROVE  After(loop, base, seq, n) = r[n]
  <1> DEFINE q == CHOOSE q : Runs(loop, base, seq, n, q)
  <1>1. Runs(loop, base, seq, n, q)  BY RunsExist
  <1> HIDE DEF q
  <1>2. q[n] = r[n]  BY <1>1, RunsAgree
  <1> QED  BY <1>2 DEF After, q

LEMMA LoopIs ==
    ASSUME NEW loop, NEW base, NEW seq, NEW n \in Nat, NEW fold,
           \E g : LoopEq(loop, base, seq, n, g) /\ fold = g[1..n]
    PROVE  fold = After(loop, base, seq, n)
  <1>1. PICK g : LoopEq(loop, base, seq, n, g) /\ fold = g[1..n]  OBVIOUS
  <1>2. PICK r : Runs(loop, base, seq, n, r) /\ r[n] = g[1..n]
    BY <1>1, LoopRuns
  <1> QED  BY <1>1, <1>2, AfterIsRun

LEMMA AfterNone ==
    ASSUME NEW loop, NEW base, NEW seq
    PROVE  After(loop, base, seq, 0) = base
  <1>1. PICK r : Runs(loop, base, seq, 0, r)  BY RunsExist
  <1>2. r[0] = base  BY <1>1 DEF Runs
  <1> QED  BY <1>1, <1>2, AfterIsRun

LEMMA AfterNext ==
    ASSUME NEW loop, NEW base, NEW seq, NEW n \in Nat
    PROVE  After(loop, base, seq, n + 1) =
              Turn(loop, After(loop, base, seq, n), seq[n + 1])
  <1>1. PICK r : Runs(loop, base, seq, n + 1, r)  BY RunsExist
  <1>2. n + 1 \in Nat /\ n + 1 \in 1..(n + 1) /\ (n + 1) - 1 = n  OBVIOUS
  <1>3. r[n + 1] = Turn(loop, r[n], seq[n + 1])  BY <1>1, <1>2 DEF Runs
  <1>4. After(loop, base, seq, n + 1) = r[n + 1]  BY <1>1, <1>2, AfterIsRun
  <1>5. After(loop, base, seq, n) = r[n]  BY <1>1, <1>2, AfterIsRun
  <1> QED  BY <1>3, <1>4, <1>5

LEMMA AfterAgrees ==
    ASSUME NEW loop, NEW base, NEW seq, NEW other, NEW n \in Nat,
           \A m \in 1..n : seq[m] = other[m]
    PROVE  After(loop, base, seq, n) = After(loop, base, other, n)
  <1>1. PICK r : Runs(loop, base, seq, n, r)  BY RunsExist
  <1>2. PICK q : Runs(loop, base, other, n, q)  BY RunsExist
  <1>3. r[n] = q[n]  BY <1>1, <1>2, RunsAgree
  <1>4. After(loop, base, seq, n) = r[n]  BY <1>1, AfterIsRun
  <1>5. After(loop, base, other, n) = q[n]  BY <1>2, AfterIsRun
  <1> QED  BY <1>3, <1>4, <1>5

(* A loop that goes on where another has stopped.                          *)
LEMMA AfterBoth ==
    ASSUME NEW loop, NEW base, NEW seq, NEW rest, NEW n \in Nat, NEW k \in Nat,
           \A m \in 1..k : rest[m] = seq[n + m]
    PROVE  After(loop, base, seq, n + k) =
              After(loop, After(loop, base, seq, n), rest, k)
  <1> DEFINE middle == After(loop, base, seq, n)
             S == {m \in 0..k : After(loop, base, seq, n + m) =
                                   After(loop, middle, rest, m)}
  <1>1. 0 \in S  BY AfterNone
  <1>2. ASSUME NEW m \in 0..(k - 1), m \in S PROVE m + 1 \in S
    <2>1. /\ m \in Nat /\ n + m \in Nat /\ n + (m + 1) = (n + m) + 1
          /\ m + 1 \in 0..k /\ m + 1 \in 1..k  OBVIOUS
    <2>2. After(loop, base, seq, (n + m) + 1) =
             Turn(loop, After(loop, base, seq, n + m), seq[(n + m) + 1])
      BY <2>1, AfterNext
    <2>3. After(loop, middle, rest, m + 1) =
             Turn(loop, After(loop, middle, rest, m), rest[m + 1])
      BY <2>1, AfterNext
    <2>4. rest[m + 1] = seq[(n + m) + 1]  BY <2>1
    <2> QED  BY <1>2, <2>1, <2>2, <2>3, <2>4
  <1> HIDE DEF S
  <1>3. 0..k \subseteq S  BY <1>1, <1>2, SetInductionUpTo
  <1> QED  BY <1>3 DEF S

----
(* The inputs.                                                             *)
LEMMA InputInvariance == Spec => []InputType
  <1>1. Init => InputType  BY DEF Init, InputType
  <1>2. InputType /\ [Grow]_vars => InputType'
    <2> SUFFICES ASSUME InputType, [Grow]_vars PROVE InputType'  OBVIOUS
    <2>1. CASE Grow  BY <2>1 DEF Grow, InputType
    <2>2. CASE UNCHANGED vars  BY <2>2 DEF vars, InputType
    <2> QED  BY <2>1, <2>2
  <1> QED  BY <1>1, <1>2, PTL DEF Spec

LEMMA AppendToFunction ==
    ASSUME NEW n \in Nat, NEW f, NEW x
    PROVE  Append([i \in 1..n |-> f[i]], x) =
              [i \in 1..(n + 1) |-> IF i <= n THEN f[i] ELSE x]
  <1> DEFINE A == {f[i] : i \in 1..n} \union {x}
             s == [i \in 1..n |-> f[i]]
             t == [i \in 1..(n + 1) |-> IF i <= n THEN f[i] ELSE x]
  <1>1. s \in Seq(A) /\ t \in Seq(A) /\ x \in A /\ Len(s) = n /\ Len(t) = n + 1
    OBVIOUS
  <1>2. /\ Append(s, x) \in Seq(A)
        /\ Len(Append(s, x)) = n + 1
        /\ \A i \in 1..n : Append(s, x)[i] = s[i]
        /\ Append(s, x)[n + 1] = x  BY <1>1, AppendProperties
  <1>3. \A i \in 1..(n + 1) : Append(s, x)[i] = t[i]  BY <1>2
  <1> HIDE DEF s, t, A
  <1>4. Append(s, x) = t  BY <1>1, <1>2, <1>3, SeqEqual
  <1> QED  BY <1>4 DEF s, t

----
(* The working directory.                                                  *)
LEMMA FollowLoop ==
    ASSUME NEW there, NEW base, NEW seq, NEW n \in Nat, DOMAIN seq = 1..n
    PROVE  FoldLeft(LAMBDA at, name : Follow(there, at, name), base, seq) =
              After(<<"Follow", there>>, base, seq, n)
  <1> DEFINE Eq(g) == g = [s \in SUBSET (1..n) |->
                              IF s = {} THEN base
                              ELSE Follow(there, g[s \ {Max(s)}], seq[Max(s)])]
             g == CHOOSE g : Eq(g)
  <1>1. \A f : Eq(f) <=> LoopEq(<<"Follow", there>>, base, seq, n, f)
    BY DEF Turn, LoopEq
  <1>2. FoldLeft(LAMBDA at, name : Follow(there, at, name), base, seq) =
           g[1..n]  BY DEF FoldLeft, MapThenFoldSet
  <1> HIDE DEF Eq
  <1>3. Eq(g)  BY <1>1, LoopExists
  <1> HIDE DEF g
  <1> QED  BY <1>1, <1>2, <1>3, LoopIs

LEMMA WalkStarts ==
    ASSUME NEW there, NEW from, NEW names
    PROVE  Walk(there, from, names, 0) = from
  BY AfterNone DEF Walk

LEMMA WalkGoesOn ==
    ASSUME NEW there, NEW from, NEW names, NEW n \in Nat
    PROVE  Walk(there, from, names, n + 1) =
              Follow(there, Walk(there, from, names, n), names[n + 1])
  <1> DEFINE loop == <<"Follow", there>>
  <1>1. After(loop, from, names, n + 1) =
           Turn(loop, After(loop, from, names, n), names[n + 1])  BY AfterNext
  <1>2. Turn(loop, After(loop, from, names, n), names[n + 1]) =
           Follow(there, After(loop, from, names, n), names[n + 1])
    BY DEF Turn
  <1> QED  BY <1>1, <1>2 DEF Walk

LEMMA WalkBoth ==
    ASSUME NEW there, NEW from, NEW names, NEW rest, NEW n \in Nat,
           NEW k \in Nat, GoesOn(rest, names, n, k),
           NEW l \in Nat, l = n + k
    PROVE  Walk(there, from, names, l) =
              Walk(there, Walk(there, from, names, n), rest, k)
  <1> DEFINE loop == <<"Follow", there>>
  <1> HIDE DEF loop
  <1>1. After(loop, from, names, n + k) =
           After(loop, After(loop, from, names, n), rest, k)
    BY AfterBoth DEF GoesOn
  <1> QED  BY <1>1 DEF Walk, loop

LEMMA ResolveIsWalk ==
    ASSUME NEW there, NEW cwd, NEW path \in Paths
    PROVE  Resolve(there, cwd, path) =
              Walk(there, IF path.absolute THEN <<>> ELSE cwd, path.names,
                   Len(path.names))
  <1> DEFINE base == IF path.absolute THEN <<>> ELSE cwd
             n == Len(path.names)
  <1>1. n \in Nat /\ DOMAIN path.names = 1..n  BY DEF Paths
  <1>2. FoldLeft(LAMBDA at, name : Follow(there, at, name), base, path.names) =
           After(<<"Follow", there>>, base, path.names, n)
    <2> HIDE DEF n
    <2> QED  BY <1>1, FollowLoop
  <1> QED  BY <1>2, Zenon DEF Resolve, Walk

(* A path that leads somewhere leads there also if there is more.          *)
LEMMA WalkInMore ==
    ASSUME NEW there, NEW more, there \subseteq more, Missing \notin more,
           NEW from, NEW names, NEW n \in Nat
    PROVE  \/ Walk(there, from, names, n) = Missing
           \/ Walk(there, from, names, n) = Walk(more, from, names, n)
  <1> DEFINE S == {m \in Nat :
                     \/ Walk(there, from, names, m) = Missing
                     \/ Walk(there, from, names, m) = Walk(more, from, names, m)}
  <1>1. 0 \in S  BY WalkStarts
  <1>2. ASSUME NEW m \in Nat, m \in S PROVE m + 1 \in S
    <2>1. Walk(there, from, names, m + 1) =
             Follow(there, Walk(there, from, names, m), names[m + 1])
      BY WalkGoesOn
    <2>2. Walk(more, from, names, m + 1) =
             Follow(more, Walk(more, from, names, m), names[m + 1])
      BY WalkGoesOn
    <2>3. \A name : Follow(there, Missing, name) = Missing  BY DEF Follow
    <2>4. \A at, name : \/ Follow(there, at, name) = Missing
                        \/ Follow(there, at, name) = Follow(more, at, name)
      BY DEF Follow
    <2> QED  BY <1>2, <2>1, <2>2, <2>3, <2>4
  <1> HIDE DEF S
  <1>3. n \in S  BY <1>1, <1>2, SetInduction
  <1> QED  BY <1>3 DEF S

LEMMA WalkDown ==
    ASSUME NEW there, IsTree(there), Missing \notin there, NEW d \in there,
           NEW names, \A i \in 1..Len(d) : names[i] = d[i]
    PROVE  Walk(there, <<>>, names, Len(d)) = d
  <1> DEFINE k == Len(d)
             S == {m \in 0..k : Walk(there, <<>>, names, m) = SubSeq(d, 1, m)}
  <1>1. d \in Seq(Names) /\ k \in Nat  BY DEF IsTree
  <1>2. 0 \in S
    <2>1. SubSeq(d, 1, 0) = <<>>  BY SubSeqEmpty
    <2>2. Walk(there, <<>>, names, 0) = <<>>  BY WalkStarts
    <2>3. 0 \in 0..k  BY <1>1
    <2> QED  BY <2>1, <2>2, <2>3, Zenon
  <1>3. ASSUME NEW m \in 0..(k - 1), m \in S PROVE m + 1 \in S
    <2>1. m \in Nat /\ m \in 0..k /\ m + 1 \in 1..k /\ m + 1 \in 0..k  BY <1>1
    <2>2. Walk(there, <<>>, names, m + 1) =
             Follow(there, SubSeq(d, 1, m), d[m + 1])
      <3>1. Walk(there, <<>>, names, m + 1) =
               Follow(there, Walk(there, <<>>, names, m), names[m + 1])
        BY <2>1, WalkGoesOn
      <3> QED  BY <1>3, <2>1, <3>1
    <2>3. d[m + 1] \notin {".", ".."}
      <3>1. d[m + 1] \in Names  BY <1>1, <2>1
      <3>2. Names \cap {".", ".."} = {}  BY DirectoriesAssumption DEF Dots
      <3> QED  BY <3>1, <3>2
    <2>4. Append(SubSeq(d, 1, m), d[m + 1]) = SubSeq(d, 1, m + 1)
      BY <1>1, <2>1
    <2>5. SubSeq(d, 1, m) \in there /\ SubSeq(d, 1, m + 1) \in there
      BY <2>1 DEF IsTree
    <2>6. Follow(there, SubSeq(d, 1, m), d[m + 1]) = SubSeq(d, 1, m + 1)
      BY <2>3, <2>4, <2>5 DEF Follow
    <2> QED  BY <2>1, <2>2, <2>6
  <1> HIDE DEF S
  <1>4. 0..k \subseteq S
    <2> HIDE DEF k
    <2> QED  BY <1>1, <1>2, <1>3, SetInductionUpTo
  <1>5. k \in S  BY <1>1, <1>4
  <1>6. SubSeq(d, 1, k) = d  BY <1>1
  <1> QED  BY <1>5, <1>6 DEF S

(* A relative path leads where the absolute one leads that cd makes of it. *)
LEMMA ResolveFromRoot ==
    ASSUME NEW there, IsTree(there), Missing \notin there, NEW cwd \in there,
           NEW path \in Paths, ~path.absolute, NEW whole \in Paths,
           whole.absolute,
           Len(cwd) \in Nat,
           Len(whole.names) = Len(cwd) + Len(path.names),
           GoesOn(cwd, whole.names, 0, Len(cwd)),
           GoesOn(path.names, whole.names, Len(cwd), Len(path.names))
    PROVE  Resolve(there, cwd, whole) = Resolve(there, cwd, path)
  <1> DEFINE names == whole.names
             n == Len(cwd)
             k == Len(path.names)
             l == Len(names)
  <1>1. n \in Nat /\ k \in Nat /\ l \in Nat /\ l = n + k  BY DEF Paths
  <1>2. \A i \in 1..n : names[i] = cwd[i]  BY <1>1 DEF GoesOn
  <1>3. Walk(there, <<>>, names, n) = cwd  BY <1>2, WalkDown
  <1>4. Walk(there, <<>>, names, l) =
           Walk(there, Walk(there, <<>>, names, n), path.names, k)
    BY <1>1, WalkBoth
  <1>5. Resolve(there, cwd, whole) = Walk(there, <<>>, names, l)
    BY ResolveIsWalk
  <1>6. Resolve(there, cwd, path) = Walk(there, cwd, path.names, k)
    BY ResolveIsWalk
  <1> QED  BY <1>3, <1>4, <1>5, <1>6

LEMMA ResolveStays ==
    ASSUME NEW there, IsTree(there), Missing \notin there, NEW cwd \in there,
           NEW path \in Paths
    PROVE  Resolve(there, cwd, path) \in there \union {Missing}
  <1> DEFINE base == IF path.absolute THEN <<>> ELSE cwd
             names == path.names
             S == {m \in Nat : Walk(there, base, names, m)
                                  \in there \union {Missing}}
  <1>1. 0 \in S
    <2>1. cwd \in Seq(Names)  BY DEF IsTree
    <2>2. 0 \in 0..Len(cwd)  BY <2>1
    <2>3. SubSeq(cwd, 1, 0) \in there  BY <2>2 DEF IsTree
    <2>4. SubSeq(cwd, 1, 0) = <<>>  BY SubSeqEmpty
    <2>5. base \in there  BY <2>3, <2>4
    <2> HIDE DEF base, names
    <2>6. Walk(there, base, names, 0) = base  BY WalkStarts
    <2> QED  BY <2>5, <2>6
  <1>2. ASSUME NEW m \in Nat, m \in S PROVE m + 1 \in S
    <2> HIDE DEF base, names
    <2>1. Walk(there, base, names, m + 1) =
             Follow(there, Walk(there, base, names, m), names[m + 1])
      BY WalkGoesOn
    <2>2. \A at, name : Follow(there, at, name) \in there \union {Missing}
      BY DEF Follow
    <2>3. m + 1 \in Nat  OBVIOUS
    <2> QED  BY <2>1, <2>2, <2>3
  <1> DEFINE n == Len(names)
  <1>3. n \in Nat  BY DEF Paths
  <1>4. Resolve(there, cwd, path) = Walk(there, base, names, n)
    BY ResolveIsWalk
  <1> HIDE DEF S, n, base, names
  <1>5. n \in S  BY <1>1, <1>2, <1>3, SetInduction
  <1> QED  BY <1>4, <1>5 DEF S

LEMMA DesiredLeadsThere ==
    ASSUME NEW shell, ShellType(shell), shell.cwd \in shell.there,
           NEW path \in Paths
    PROVE  LET desired == Desired(path, GetWorkingPath(shell))
           IN  /\ desired \in Paths
               /\ desired.absolute
               /\ Resolve(shell.there, shell.cwd, desired) =
                     Resolve(shell.there, shell.cwd, path)
  <1> DEFINE there == shell.there
             cwd == shell.cwd
             at == [absolute |-> TRUE, names |-> cwd]
             desired == Desired(path, at)
  <1>1. GetWorkingPath(shell) = at  BY DEF GetWorkingPath
  <1>2. CASE path.absolute
    <2>1. desired = path  BY <1>2 DEF Desired
    <2> QED  BY <1>1, <1>2, <2>1
  <1>3. CASE ~path.absolute
    <2> DEFINE names == path.names
    <2>1. /\ IsTree(there) /\ Missing \notin there /\ cwd \in there
          /\ cwd \in Seq(Names \union Dots) /\ names \in Seq(Names \union Dots)
      <3>1. IsTree(there) /\ there \subseteq Directories  BY DEF ShellType
      <3>2. cwd \in Seq(Names)  BY <3>1 DEF IsTree
      <3>3. names \in Seq(Names \union Dots)  BY DEF Paths
      <3> QED  BY <3>1, <3>2, <3>3, DirectoriesAssumption
    <2>2. desired = [absolute |-> TRUE, names |-> cwd \o names]
      BY <1>3 DEF Desired
    <2> HIDE DEF there, cwd, names, desired
    <2>3. /\ cwd \o names \in Seq(Names \union Dots)
          /\ Len(cwd) \in Nat /\ Len(names) \in Nat
          /\ Len(cwd \o names) = Len(cwd) + Len(names)
          /\ GoesOn(cwd, cwd \o names, 0, Len(cwd))
          /\ GoesOn(names, cwd \o names, Len(cwd), Len(names))
      BY <2>1 DEF GoesOn
    <2>4. /\ desired \in Paths /\ desired.absolute
          /\ desired.names = cwd \o names  BY <2>2, <2>3 DEF Paths
    <2>5. /\ Len(desired.names) = Len(cwd) + Len(path.names)
          /\ GoesOn(cwd, desired.names, 0, Len(cwd))
          /\ GoesOn(path.names, desired.names, Len(cwd), Len(path.names))
      BY <2>3, <2>4 DEF names
    <2>6. Resolve(there, cwd, desired) = Resolve(there, cwd, path)
      BY <1>3, <2>1, <2>3, <2>4, <2>5, ResolveFromRoot
    <2> QED  BY <1>1, <2>4, <2>6 DEF there, cwd, desired
  <1> QED  BY <1>2, <1>3

LEMMA DirLooksThere ==
    ASSUME NEW shell, ShellType(shell), NEW path \in Paths
    PROVE  Dir(shell, <<path>>) = Leads(shell, path)
  <1> DEFINE at == GetWorkingPath(shell)
  <1>1. Dir(shell, <<path>>) =
           IF at = Missing THEN Missing
           ELSE Resolve(shell.there, shell.cwd, Desired(path, at))  BY DEF Dir
  <1>2. CASE shell.cwd \in shell.there
    <2>1. at \in Paths
      <3>1. \A d \in Directories : d \in Seq(Names \union Dots)
        BY DirectoriesAssumption
      <3> QED  BY <1>2, <3>1 DEF GetWorkingPath, ShellType, Paths
    <2>2. at # Missing  BY <2>1, DirectoriesAssumption
    <2>3. Resolve(shell.there, shell.cwd, Desired(path, at)) =
             Resolve(shell.there, shell.cwd, path)  BY <1>2, DesiredLeadsThere
    <2> QED  BY <1>1, <1>2, <2>2, <2>3 DEF Leads
  <1>3. CASE shell.cwd \notin shell.there
    <2>1. at = Missing  BY <1>3 DEF GetWorkingPath
    <2> QED  BY <1>1, <1>3, <2>1 DEF Leads
  <1> QED  BY <1>2, <1>3

LEMMA ShellMoves ==
    ASSUME NEW shell, ShellType(shell), NEW to, NEW desired
    PROVE  [shell EXCEPT !.cwd = to, !.PWD = desired] =
              [cwd |-> to, PWD |-> desired, there |-> shell.there]
  <1>1. shell = [cwd |-> shell.cwd, PWD |-> shell.PWD, there |-> shell.there]
    BY DEF ShellType
  <1>2. PICK s : s = [shell EXCEPT !.cwd = to]  OBVIOUS
  <1>3. s = [cwd |-> to, PWD |-> shell.PWD, there |-> shell.there]
    BY <1>1, <1>2
  <1>4. [shell EXCEPT !.cwd = to, !.PWD = desired] = [s EXCEPT !.PWD = desired]
    BY <1>2
  <1>5. [s EXCEPT !.PWD = desired] =
           [cwd |-> to, PWD |-> desired, there |-> shell.there]  BY <1>3
  <1> QED  BY <1>4, <1>5

(* What cd makes of the shell.                                             *)
LEMMA CdGoesThere ==
    ASSUME NEW shell, ShellType(shell), NEW path \in Paths
    PROVE  /\ Leads(shell, path) = Missing => Cd(shell, <<path>>) = shell
           /\ Leads(shell, path) # Missing =>
                 /\ Leads(shell, path) \in shell.there
                 /\ shell.cwd \in shell.there
                 /\ \/ /\ path = Relative(".")
                       /\ Leads(shell, path) = shell.cwd
                       /\ Cd(shell, <<path>>) = shell
                    \/ /\ Cd(shell, <<path>>) =
                             [cwd |-> Leads(shell, path),
                              PWD |-> NewPwd(shell, path),
                              there |-> shell.there]
                       /\ Leads(shell, path) =
                             Resolve(shell.there, shell.cwd,
                                     NewPwd(shell, path))
  <1> DEFINE at == GetWorkingPath(shell)
             desired == NewPwd(shell, path)
             to == Resolve(shell.there, shell.cwd, desired)
  <1>1. Cd(shell, <<path>>) =
           IF at = Missing \/ path = Relative(".") THEN shell
           ELSE IF to = Missing THEN shell
           ELSE [shell EXCEPT !.cwd = to, !.PWD = desired]  BY DEF Cd, NewPwd
  <1>2. CASE shell.cwd \notin shell.there
    <2>1. at = Missing /\ Leads(shell, path) = Missing
      BY <1>2 DEF GetWorkingPath, Leads
    <2> QED  BY <1>1, <2>1
  <1>3. CASE shell.cwd \in shell.there
    <2>1. Leads(shell, path) = Resolve(shell.there, shell.cwd, path)
      BY <1>3 DEF Leads
    <2>2. IsTree(shell.there) /\ Missing \notin shell.there
      BY DirectoriesAssumption DEF ShellType
    <2>3. Leads(shell, path) \in shell.there \union {Missing}
      BY <1>3, <2>1, <2>2, ResolveStays
    <2>4. to = Leads(shell, path)  BY <1>3, <2>1, DesiredLeadsThere DEF NewPwd
    <2>5. at # Missing
      <3>1. at \in Paths
        <4>1. \A d \in Directories : d \in Seq(Names \union Dots)
          BY DirectoriesAssumption
        <4> QED  BY <1>3, <4>1 DEF GetWorkingPath, ShellType, Paths
      <3> QED  BY <3>1, DirectoriesAssumption
    <2>6. CASE path = Relative(".")
      <3>1. Leads(shell, path) = shell.cwd
        <4> DEFINE there == shell.there
                   cwd == shell.cwd
        <4>1. /\ ~path.absolute /\ path.names = <<".">> /\ Len(path.names) = 1
              /\ path.names[0 + 1] = "."  BY <2>6 DEF Relative
        <4>2. Resolve(there, cwd, path) = Walk(there, cwd, path.names, 0 + 1)
          <5>1. Resolve(there, cwd, path) =
                   Walk(there, IF path.absolute THEN <<>> ELSE cwd,
                        path.names, Len(path.names))  BY ResolveIsWalk
          <5>2. Len(path.names) = 0 + 1  BY <4>1
          <5> QED  BY <4>1, <5>1, <5>2
        <4>3. Walk(there, cwd, path.names, 0 + 1) =
                 Follow(there, Walk(there, cwd, path.names, 0), ".")
          BY <4>1, WalkGoesOn
        <4>4. Walk(there, cwd, path.names, 0) = cwd  BY WalkStarts
        <4>5. Follow(there, cwd, ".") = cwd  BY <1>3, <2>2 DEF Follow
        <4> QED  BY <2>1, <4>2, <4>3, <4>4, <4>5
      <3>2. Cd(shell, <<path>>) = shell  BY <1>1, <2>6
      <3> QED  BY <1>3, <2>3, <2>6, <3>1, <3>2
    <2>7. CASE path # Relative(".")
      <3>1. Cd(shell, <<path>>) =
               IF to = Missing THEN shell
               ELSE [shell EXCEPT !.cwd = to, !.PWD = desired]
        BY <1>1, <2>5, <2>7
      <3>2. [shell EXCEPT !.cwd = to, !.PWD = desired] =
               [cwd |-> to, PWD |-> desired, there |-> shell.there]
        BY ShellMoves
      <3> HIDE DEF to, desired
      <3>3. Leads(shell, path) = Missing => Cd(shell, <<path>>) = shell
        BY <2>4, <3>1
      <3>4. Leads(shell, path) # Missing =>
               Cd(shell, <<path>>) =
                  [cwd |-> Leads(shell, path), PWD |-> desired,
                   there |-> shell.there]  BY <2>4, <3>1, <3>2
      <3> QED  BY <1>3, <2>3, <2>4, <3>3, <3>4 DEF to, desired
    <2> QED  BY <2>6, <2>7
  <1> QED  BY <1>2, <1>3

LEMMA SessionLoop ==
    ASSUME NEW base, NEW seq, NEW n \in Nat, DOMAIN seq = 1..n
    PROVE FoldLeft(LAMBDA shell, s :
                       IF s.do = "cd" THEN Cd(shell, s.args)
                       ELSE RemoveDirectory(shell, s.args[1].names),
                    base, seq) = After(<<"Session">>, base, seq, n)
  <1> DEFINE session(shell, s) ==
                IF s.do = "cd" THEN Cd(shell, s.args)
                ELSE RemoveDirectory(shell, s.args[1].names)
             Eq(g) == g = [s \in SUBSET (1..n) |->
                              IF s = {} THEN base
                              ELSE session(g[s \ {Max(s)}], seq[Max(s)])]
             g == CHOOSE g : Eq(g)
  <1>1. \A f : Eq(f) <=> LoopEq(<<"Session">>, base, seq, n, f)
    BY DEF Turn, LoopEq
  <1>2. FoldLeft(LAMBDA shell, s :
                    IF s.do = "cd" THEN Cd(shell, s.args)
                    ELSE RemoveDirectory(shell, s.args[1].names),
                 base, seq) = g[1..n]  BY DEF FoldLeft, MapThenFoldSet
  <1> HIDE DEF Eq
  <1>3. Eq(g)  BY <1>1, LoopExists
  <1> HIDE DEF g
  <1> QED  BY <1>1, <1>2, <1>3, LoopIs

LEMMA StartedInv == SessionInv(Started, {})
  <1>1. /\ IsTree(Directories) /\ Missing \notin Directories
        /\ Home \in Directories /\ Home \in Seq(Names \union Dots)
    BY DirectoriesAssumption DEF IsTree
  <1>2. ShellType(Started)  BY <1>1 DEF ShellType, Started, Paths
  <1> DEFINE PWD == [absolute |-> TRUE, names |-> Home]
  <1>3. PWD \in Paths /\ PWD.absolute /\ PWD.names = Home  BY <1>1 DEF Paths
  <1>4. Resolve(Directories, Home, PWD) = Walk(Directories, <<>>, Home, Len(Home))
    BY <1>3, ResolveIsWalk
  <1>5. Walk(Directories, <<>>, Home, Len(Home)) = Home  BY <1>1, WalkDown
  <1>6. PwdLeads(Started, {})  BY <1>4, <1>5 DEF PwdLeads, Started
  <1> QED  BY <1>2, <1>6 DEF SessionInv

LEMMA CdKeepsInv ==
    ASSUME NEW shell, NEW said, SessionInv(shell, said), NEW path \in Paths,
           NEW more, said \subseteq more,
           path = Relative("..") => Up \in more
    PROVE  SessionInv(Cd(shell, <<path>>), more)
  <1> DEFINE to == Leads(shell, path)
             pwd == NewPwd(shell, path)
             moved == [cwd |-> to, PWD |-> pwd, there |-> shell.there]
  <1>1. ShellType(shell) /\ PwdLeads(shell, more)  BY DEF SessionInv, PwdLeads
  <1>2. \/ Cd(shell, <<path>>) = shell
        \/ /\ Cd(shell, <<path>>) = moved
           /\ to # Missing
           /\ to \in shell.there
           /\ shell.cwd \in shell.there
           /\ to = Resolve(shell.there, shell.cwd, pwd)  BY <1>1, CdGoesThere
  <1>3. CASE Cd(shell, <<path>>) = shell  BY <1>1, <1>3 DEF SessionInv
  <1>4. CASE /\ Cd(shell, <<path>>) = moved
             /\ to # Missing
             /\ to \in shell.there
             /\ shell.cwd \in shell.there
             /\ to = Resolve(shell.there, shell.cwd, pwd)
    <2>1. \/ pwd = Relative("..") /\ Up \in more
          \/ pwd \in Paths /\ pwd.absolute
      <3>1. Desired(path, GetWorkingPath(shell)) \in Paths
        BY <1>1, <1>4, DesiredLeadsThere
      <3>2. Desired(path, GetWorkingPath(shell)).absolute
        BY <1>1, <1>4, DesiredLeadsThere
      <3> QED  BY <3>1, <3>2 DEF NewPwd
    <2>2. pwd \in Paths
      <3>1. Relative("..") \in Paths
        <4>1. <<"..">> \in Seq(Names \union Dots)
          <5>1. ".." \in Names \union Dots  BY DEF Dots
          <5> QED  BY <5>1
        <4> QED  BY <4>1 DEF Paths, Relative
      <3> HIDE DEF pwd
      <3> QED  BY <2>1, <3>1
    <2>3. ShellType(moved)
      <3>1. to \in Directories  BY <1>1, <1>4 DEF ShellType
      <3> HIDE DEF to, pwd
      <3> QED  BY <1>1, <2>2, <3>1 DEF ShellType
    <2>4. PwdLeads(moved, more)
      <3> HIDE DEF to, pwd
      <3>1. CASE pwd = Relative("..") /\ Up \in more
        BY <3>1 DEF PwdLeads, Relative
      <3>2. CASE pwd \in Paths /\ pwd.absolute
        <4>1. shell.there \subseteq Directories /\ Missing \notin Directories
          BY <1>1, DirectoriesAssumption DEF ShellType
        <4> DEFINE n == Len(pwd.names)
        <4>2. n \in Nat  BY <2>2 DEF Paths
        <4>3. Resolve(shell.there, shell.cwd, pwd) =
                 Walk(shell.there, <<>>, pwd.names, n)  BY <3>2, ResolveIsWalk
        <4>4. Resolve(Directories, Home, pwd) =
                 Walk(Directories, <<>>, pwd.names, n)  BY <3>2, ResolveIsWalk
        <4> HIDE DEF n
        <4>5. \/ Walk(shell.there, <<>>, pwd.names, n) = Missing
              \/ Walk(shell.there, <<>>, pwd.names, n) =
                    Walk(Directories, <<>>, pwd.names, n)
          BY <4>1, <4>2, WalkInMore
        <4>6. Resolve(Directories, Home, pwd) = to  BY <1>4, <4>3, <4>4, <4>5
        <4> QED  BY <3>2, <4>6 DEF PwdLeads
      <3> QED  BY <2>1, <3>1, <3>2
    <2> QED  BY <1>4, <2>3, <2>4 DEF SessionInv
  <1> QED  BY <1>2, <1>3, <1>4

LEMMA RemoveKeepsInv ==
    ASSUME NEW shell, NEW said, SessionInv(shell, said), NEW dir,
           NEW more, said \subseteq more
    PROVE  SessionInv(RemoveDirectory(shell, dir), more)
  <1> DEFINE there == shell.there \ {dir}
             removed == [shell EXCEPT !.there = @ \ {dir}]
  <1>1. ShellType(shell) /\ PwdLeads(shell, more)  BY DEF SessionInv, PwdLeads
  <1>2. CASE \E d \in shell.there : d # dir /\ IsPrefix(dir, d)
    <2>1. RemoveDirectory(shell, dir) = shell  BY <1>2 DEF RemoveDirectory
    <2> QED  BY <1>1, <2>1 DEF SessionInv
  <1>3. CASE ~\E d \in shell.there : d # dir /\ IsPrefix(dir, d)
    <2>1. RemoveDirectory(shell, dir) = removed  BY <1>3 DEF RemoveDirectory
    <2>2. removed = [cwd |-> shell.cwd, PWD |-> shell.PWD, there |-> there]
      BY <1>1 DEF ShellType
    <2>3. IsTree(there)
      <3> SUFFICES ASSUME NEW d \in there, NEW n \in 0..Len(d)
                   PROVE  /\ d \in Seq(Names)
                          /\ SubSeq(d, 1, n) \in there  BY DEF IsTree
      <3>1. /\ d \in Seq(Names)
            /\ SubSeq(d, 1, n) \in shell.there  BY <1>1 DEF ShellType, IsTree
      <3>2. IsPrefix(SubSeq(d, 1, n), d)
        <4>1. Len(SubSeq(d, 1, n)) = n /\ n <= Len(d)  BY <3>1
        <4>2. SubSeq(SubSeq(d, 1, n), 1, n) = SubSeq(d, 1, n)
          <5>1. SubSeq(d, 1, n) \in Seq(Names)  BY <3>1
          <5> QED  BY <4>1, <5>1, SubSeqFull
        <4> QED  BY <4>1, <4>2 DEF IsPrefix
      <3>3. SubSeq(d, 1, n) # dir  BY <1>3, <3>2
      <3> QED  BY <3>1, <3>3
    <2>4. ShellType(removed)  BY <1>1, <2>2, <2>3 DEF ShellType
    <2>5. PwdLeads(removed, more)  BY <1>1, <2>2 DEF PwdLeads
    <2> QED  BY <2>1, <2>4, <2>5 DEF SessionInv
  <1> QED  BY <1>2, <1>3

LEMMA AfterSession ==
    ASSUME NEW session \in Seq([do : {"cd", "rmdir"}, args : Seq(Paths)])
    PROVE  SessionInv(ShellAfter(session), ToSet(session))
  <1> DEFINE n == Len(session)
             loop == <<"Session">>
             state(m) == After(loop, Started, session, m)
             said(m) == {session[i] : i \in 1..m}
             S == {m \in 0..n : SessionInv(state(m), said(m))}
  <1>1. n \in Nat /\ DOMAIN session = 1..n  OBVIOUS
  <1>2. 0 \in S
    <2>1. state(0) = Started  BY AfterNone
    <2>2. said(0) = {}  OBVIOUS
    <2>3. 0 \in 0..n  BY <1>1
    <2> QED  BY <2>1, <2>2, <2>3, StartedInv, Zenon
  <1>3. ASSUME NEW m \in 0..(n - 1), m \in S PROVE m + 1 \in S
    <2> DEFINE step == session[m + 1]
               before == state(m)
               after == state(m + 1)
    <2>1. m \in Nat /\ m + 1 \in 0..n /\ m + 1 \in 1..n  BY <1>1
    <2>2. step \in [do : {"cd", "rmdir"}, args : Seq(Paths)]
      BY <2>1, ElementOfSeq
    <2>3. said(m) \subseteq said(m + 1) /\ step \in said(m + 1)  BY <2>1
    <2>4. after = Turn(loop, before, step)  BY <2>1, AfterNext
    <2>5. after = IF step.do = "cd" THEN Cd(before, step.args)
                  ELSE RemoveDirectory(before, step.args[1].names)
      BY <2>4 DEF Turn
    <2>6. SessionInv(before, said(m))  BY <1>3
    <2> HIDE DEF step, before, after, said
    <2>7. step = [do |-> step.do, args |-> step.args]  BY <2>2
    <2>8. ASSUME step.do = "rmdir"
          PROVE  SessionInv(after, said(m + 1))
      BY <2>3, <2>5, <2>6, <2>8, RemoveKeepsInv
    <2>9. ASSUME step.do = "cd", Len(step.args) # 1
          PROVE  SessionInv(after, said(m + 1))
      <3>1. Cd(before, step.args) = before  BY <2>9 DEF Cd
      <3> QED  BY <2>3, <2>5, <2>6, <2>9, <3>1 DEF SessionInv, PwdLeads
    <2>10. ASSUME step.do = "cd", Len(step.args) = 1
           PROVE  SessionInv(after, said(m + 1))
      <3> DEFINE path == step.args[1]
      <3>1. path \in Paths /\ step.args = <<path>>  BY <2>2, <2>10
      <3>2. path = Relative("..") => Up \in said(m + 1)
        BY <2>3, <2>7, <2>10, <3>1 DEF Up
      <3>3. after = Cd(before, <<path>>)  BY <2>5, <2>10, <3>1
      <3> HIDE DEF path
      <3> QED  BY <2>3, <2>6, <3>1, <3>2, <3>3, CdKeepsInv
    <2>11. SessionInv(after, said(m + 1))  BY <2>2, <2>8, <2>9, <2>10
    <2> QED  BY <2>1, <2>11 DEF after, said
  <1> HIDE DEF S
  <1>4. 0..n \subseteq S
    <2> HIDE DEF n
    <2> QED  BY <1>1, <1>2, <1>3, SetInductionUpTo
  <1>5. n \in S  BY <1>1, <1>4
  <1>6. ShellAfter(session) = state(n)
    <2> HIDE DEF n
    <2>1. FoldLeft(LAMBDA shell, s :
                      IF s.do = "cd" THEN Cd(shell, s.args)
                      ELSE RemoveDirectory(shell, s.args[1].names),
                   Started, session) = After(loop, Started, session, n)
      BY <1>1, SessionLoop
    <2> QED  BY <2>1, Zenon DEF ShellAfter
  <1>7. ToSet(session) = said(n)  BY <1>1 DEF ToSet
  <1> QED  BY <1>5, <1>6, <1>7 DEF S

(* cd goes, and dir looks, where the path leads from the working directory *)
(* whatever was said before, also after directories were removed, and PWD  *)
(* leads to the working directory unless cd .. was given (cd.cpp 21-54,    *)
(* dir.cpp 24-56).                                                         *)
THEOREM CdAndDirGoTogether == Spec => []CdAndDirFollowThePath
  <1>1. InputType => CdAndDirFollowThePath
    <2> SUFFICES ASSUME InputType, kind = "session"
                 PROVE  CdAndDirFollowThePath
      BY DEF CdAndDirFollowThePath
    <2> DEFINE shell == ShellAfter(input)
    <2>1. Inputs["session"] \subseteq [do : {"cd", "rmdir"}, args : Seq(Paths)]
      BY SessionAssumption DEF InputType
    <2>2. input \in Seq([do : {"cd", "rmdir"}, args : Seq(Paths)])
      <3>1. input \in Seq(Inputs["session"])  BY DEF InputType
      <3> QED  BY <2>1, <3>1, SeqMonotonic
    <2>3. SessionInv(shell, ToSet(input))  BY <2>2, AfterSession
    <2> HIDE DEF shell
    <2>4. ASSUME NEW step \in Inputs["session"], step.do = "cd",
                 Len(step.args) = 1
          PROVE  LET path == step.args[1]
                     after == Cd(shell, <<path>>)
                 IN  /\ Dir(shell, <<path>>) = Leads(shell, path)
                     /\ IF Leads(shell, path) = Missing THEN after = shell
                        ELSE after.cwd = Leads(shell, path)
      <3> DEFINE path == step.args[1]
                 after == Cd(shell, <<path>>)
      <3>1. path \in Paths  BY <2>1, <2>4
      <3> HIDE DEF path
      <3>2. ShellType(shell)  BY <2>3 DEF SessionInv
      <3>3. Dir(shell, <<path>>) = Leads(shell, path)
        BY <3>1, <3>2, DirLooksThere
      <3>4. Leads(shell, path) = Missing => after = shell
        BY <3>1, <3>2, CdGoesThere
      <3>5. Leads(shell, path) # Missing => after.cwd = Leads(shell, path)
        <4>1. Leads(shell, path) # Missing =>
                 \/ /\ Leads(shell, path) = shell.cwd
                    /\ after = shell
                 \/ after = [cwd |-> Leads(shell, path),
                             PWD |-> NewPwd(shell, path),
                             there |-> shell.there]  BY <3>1, <3>2, CdGoesThere
        <4> HIDE DEF after
        <4> QED  BY <4>1
      <3> QED  BY <3>3, <3>4, <3>5 DEF path
    <2>5. /\ shell.PWD.absolute =>
               Resolve(Directories, Home, shell.PWD) = shell.cwd
          /\ ~shell.PWD.absolute =>
               shell.PWD = Relative("..") /\ Up \in ToSet(input)
      BY <2>3 DEF SessionInv, PwdLeads
    <2> QED  BY <2>4, <2>5, Zenon
             DEF CdAndDirFollowThePath, shell, Leads, Up
  <1> QED  BY <1>1, InputInvariance, PTL

----
(* The binary heap.                                                        *)
(* What the recursive functions of a way through the heap are defined by:  *)
(* from an index in go the way leads on to another.  "end" is where it     *)
(* ends, "way" what it has passed.                                         *)
LEMMA RankBound ==
    ASSUME NEW n \in Nat, NEW rank, \A i \in 1..n : rank[i] \in Nat
    PROVE  \E k \in Nat : \A i \in 1..n : rank[i] < k
  <1> DEFINE S == {m \in Nat : m <= n => \E k \in Nat : \A i \in 1..m : rank[i] < k}
  <1>1. 0 \in S
    <2>1. \A i \in 1..0 : rank[i] < 0  OBVIOUS
    <2> QED  BY <2>1
  <1>2. ASSUME NEW m \in Nat, m \in S PROVE m + 1 \in S
    <2>1. SUFFICES ASSUME m + 1 <= n
                   PROVE  \E k \in Nat : \A i \in 1..(m + 1) : rank[i] < k
      OBVIOUS
    <2>2. PICK k \in Nat : \A i \in 1..m : rank[i] < k  BY <1>2, <2>1
    <2>3. rank[m + 1] \in Nat  BY <2>1
    <2> DEFINE l == IF rank[m + 1] < k THEN k ELSE rank[m + 1] + 1
    <2>4. l \in Nat /\ k <= l /\ rank[m + 1] < l  BY <2>3
    <2> HIDE DEF l
    <2>5. ASSUME NEW i \in 1..(m + 1) PROVE rank[i] < l
      <3>1. CASE i = m + 1  BY <2>4, <3>1
      <3>2. CASE i \in 1..m
        <4>1. rank[i] < k /\ rank[i] \in Nat  BY <2>1, <2>2, <3>2
        <4> QED  BY <2>4, <4>1
      <3> QED  BY <3>1, <3>2
    <2> QED  BY <2>4, <2>5
  <1> HIDE DEF S
  <1>3. n \in S  BY <1>1, <1>2, SetInduction
  <1> QED  BY <1>3 DEF S

LEMMA WayExists ==
    ASSUME NEW what, NEW go, NEW to, NEW n \in Nat, NEW rank,
           Ranked(go, to, n, rank)
    PROVE  \E f : WayEq(what, go, to, n, f)
  <1> DEFINE value(f, i) == IF i \in go THEN Passed(what, i, f[to[i]])
                            ELSE Stopped(what, i)
             S == {k \in Nat : \E f : \A i \in 1..n :
                                         rank[i] < k => f[i] = value(f, i)}
  <1>0. /\ \A i \in 1..n : rank[i] \in Nat
        /\ \A i \in go : to[i] \in 1..n /\ rank[to[i]] < rank[i]  BY DEF Ranked
  <1>1. 0 \in S  BY <1>0
  <1>2. ASSUME NEW k \in Nat, k \in S PROVE k + 1 \in S
    <2>1. PICK f : \A i \in 1..n : rank[i] < k => f[i] = value(f, i)  BY <1>2
    <2> DEFINE h == [i \in 1..n |-> IF rank[i] < k THEN f[i] ELSE value(f, i)]
    <2>2. ASSUME NEW i \in 1..n, rank[i] < k + 1 PROVE h[i] = value(h, i)
      <3>1. h[i] = value(f, i)  BY <2>1
      <3>2. ASSUME i \in go PROVE h[to[i]] = f[to[i]]
        <4>1. to[i] \in 1..n /\ rank[to[i]] < k  BY <1>0, <2>2, <3>2
        <4> QED  BY <4>1
      <3> HIDE DEF h
      <3> QED  BY <3>1, <3>2
    <2> HIDE DEF h, value
    <2> QED  BY <2>2
  <1> HIDE DEF S, value
  <1>3. PICK k \in Nat : \A i \in 1..n : rank[i] < k  BY <1>0, RankBound
  <1>4. k \in S  BY <1>1, <1>2, SetInduction
  <1>5. PICK f : \A i \in 1..n : f[i] = value(f, i)  BY <1>3, <1>4 DEF S
  <1> DEFINE g == [i \in 1..n |-> f[i]]
  <1>6. \A i \in 1..n : value(g, i) = value(f, i)  BY <1>0 DEF value
  <1>7. g = [i \in 1..n |-> value(g, i)]  BY <1>5, <1>6
  <1> HIDE DEF g
  <1>8. WayEq(what, go, to, n, g)  BY <1>7 DEF WayEq, value
  <1> QED  BY <1>8

LEMMA WaysAre ==
    ASSUME NEW go, NEW to, NEW n \in Nat, NEW rank, Ranked(go, to, n, rank),
           NEW end, WayEq("end", go, to, n, end),
           NEW way, WayEq("way", go, to, n, way), NEW s \in 1..n
    PROVE  IsWay(go, to, n, rank, s, end[s], way[s])
  <1> DEFINE S == {k \in Nat : \A i \in 1..n :
                      rank[i] < k => IsWay(go, to, n, rank, i, end[i], way[i])}
  <1>0. /\ \A i \in 1..n : rank[i] \in Nat
        /\ \A i \in go : i \in 1..n /\ to[i] \in 1..n /\ rank[to[i]] < rank[i]
    BY DEF Ranked
  <1>1. 0 \in S  BY <1>0
  <1>2. ASSUME NEW k \in Nat, k \in S PROVE k + 1 \in S
    <2> SUFFICES ASSUME NEW i \in 1..n, rank[i] < k + 1
                 PROVE  IsWay(go, to, n, rank, i, end[i], way[i])
      OBVIOUS
    <2>1. CASE i \notin go
      <3>1. end[i] = i /\ way[i] = {}  BY <2>1, Zenon DEF WayEq, Stopped
      <3> QED  BY <1>0, <2>1, <3>1 DEF IsWay
    <2>2. CASE i \in go
      <3> DEFINE j == to[i]
      <3>1. end[i] = end[j] /\ way[i] = {i} \union way[j]
        BY <2>2 DEF WayEq, Passed
      <3>2. j \in 1..n /\ rank[j] < rank[i] /\ rank[j] < k  BY <1>0, <2>2
      <3>3. IsWay(go, to, n, rank, j, end[j], way[j])  BY <1>2, <3>2
      <3> HIDE DEF j
      <3>4. /\ end[j] \in 1..n /\ end[j] \notin go
            /\ way[j] \subseteq go
            /\ j \in way[j] \union {end[j]}
            /\ \A l \in way[j] : to[l] \in way[j] \union {end[j]}
        BY <3>3 DEF IsWay
      <3>5. ASSUME NEW l \in way[i] \union {end[i]}
            PROVE  /\ rank[l] <= rank[i]
                   /\ l # i => \E m \in way[i] : to[m] = l
        <4>1. CASE l = i  BY <1>0, <4>1
        <4>2. CASE l = j
          <5>1. i \in way[i] /\ to[i] = j  BY <3>1 DEF j
          <5> QED  BY <1>0, <3>2, <4>2, <5>1
        <4>3. CASE l # i /\ l # j
          <5>1. l \in way[j] \union {end[j]}  BY <3>1, <4>3
          <5>2. /\ rank[l] <= rank[j]
                /\ \E m \in way[j] : to[m] = l  BY <3>3, <4>3, <5>1 DEF IsWay
          <5>3. l \in 1..n  BY <1>0, <3>4, <5>1
          <5> QED  BY <1>0, <3>1, <3>2, <5>2, <5>3
        <4> QED  BY <4>1, <4>2, <4>3
      <3>6. \A l \in way[i] : to[l] \in way[i] \union {end[i]}
        BY <3>1, <3>4 DEF j
      <3>7. /\ end[i] \in 1..n /\ end[i] \notin go
            /\ way[i] \subseteq go
            /\ i \in way[i] \union {end[i]}  BY <2>2, <3>1, <3>4
      <3> QED  BY <3>5, <3>6, <3>7 DEF IsWay
    <2> QED  BY <2>1, <2>2
  <1> HIDE DEF S
  <1>3. rank[s] + 1 \in S
    <2>1. rank[s] + 1 \in Nat  BY <1>0
    <2> QED  BY <1>1, <1>2, <2>1, SetInduction
  <1> QED  BY <1>0, <1>3 DEF S

LEMMA HalfIsLess ==
    ASSUME NEW i \in Nat, i > 1
    PROVE  i \div 2 \in 1..(i - 1)
  OBVIOUS

LEMMA ClimbIsLess ==
    ASSUME NEW n \in Nat, NEW p, NEW c \in 1..n,
           \A j \in p : j \in 2..n /\ j \div 2 \in p \union {c},
           c \notin p
    PROVE  \A j \in p : c < j
  <1> DEFINE S == {m \in 0..n : \A j \in p : j <= m => c < j}
  <1>1. 0 \in S  OBVIOUS
  <1>2. ASSUME NEW m \in 0..(n - 1), m \in S PROVE m + 1 \in S
    <2> SUFFICES ASSUME NEW j \in p, j <= m + 1 PROVE c < j  OBVIOUS
    <2>1. j \in 2..n /\ j \div 2 \in p \union {c}  OBVIOUS
    <2>2. j \div 2 \in 1..(j - 1)  BY <2>1, HalfIsLess
    <2>3. CASE j \div 2 = c  BY <2>1, <2>2, <2>3
    <2>4. CASE j \div 2 \in p
      <3>1. j \div 2 <= m  BY <2>1, <2>2
      <3>2. c < j \div 2  BY <1>2, <2>4, <3>1
      <3> QED  BY <2>1, <2>2, <3>2
    <2> QED  BY <2>1, <2>3, <2>4
  <1> HIDE DEF S
  <1>3. 0..n \subseteq S  BY <1>1, <1>2, SetInductionUpTo
  <1>4. n \in S  BY <1>3
  <1> QED  BY <1>4 DEF S

LEMMA SiftUpIs ==
    ASSUME NEW h \in Seq(Entries), NEW hole \in 1..Len(h), NEW entry \in Entries
    PROVE  \E c, p : /\ Sifts(h, hole, entry, c, p)
                     /\ SiftUp(h, hole, entry) =
                           [i \in 1..Len(h) |->
                               IF i = c THEN entry
                               ELSE IF i \in p THEN h[i \div 2] ELSE h[i]]
  <1> DEFINE n == Len(h)
             passes(i) == i > 1 /\ Less(h[i \div 2], entry)
             go == {i \in 1..n : passes(i)}
             to == [i \in 1..n |-> i \div 2]
             rank == [i \in 1..n |-> i]
             ClimbEq(f) == f = [i \in 1..n |-> IF passes(i) THEN f[i \div 2] ELSE i]
             PathEq(f) == f = [i \in 1..n |->
                                 IF passes(i) THEN {i} \union f[i \div 2] ELSE {}]
             climb == CHOOSE f : ClimbEq(f)
             path == CHOOSE f : PathEq(f)
  <1>1. n \in Nat  OBVIOUS
  <1>2. \A f : ClimbEq(f) <=> WayEq("end", go, to, n, f)
    BY DEF WayEq, Passed, Stopped
  <1>3. \A f : PathEq(f) <=> WayEq("way", go, to, n, f)
    BY DEF WayEq, Passed, Stopped
  <1>4. Ranked(go, to, n, rank)
    <2>1. ASSUME NEW i \in go PROVE to[i] \in 1..n /\ rank[to[i]] < rank[i]
      <3>1. i \in 1..n /\ i \in Nat /\ i > 1  OBVIOUS
      <3>2. i \div 2 \in 1..(i - 1)  BY <3>1, HalfIsLess
      <3> QED  BY <1>1, <3>1, <3>2
    <2> QED  BY <1>1, <2>1 DEF Ranked
  <1>5. SiftUp(h, hole, entry) =
           [i \in 1..n |-> IF i = climb[hole] THEN entry
                           ELSE IF i \in path[hole] THEN h[i \div 2] ELSE h[i]]
    BY DEF SiftUp
  <1>6. \A j \in go : /\ j \in 2..n /\ h[j \div 2].priority < entry.priority
                      /\ to[j] = j \div 2  BY DEF Less
  <1>7. \A j \in 1..n : j \notin go =>
             j = 1 \/ h[j \div 2].priority >= entry.priority
    <2> SUFFICES ASSUME NEW j \in 1..n, j \notin go, j # 1
                 PROVE  h[j \div 2].priority >= entry.priority
      OBVIOUS
    <2>1. j > 1 /\ j \in Nat  OBVIOUS
    <2>2. j \div 2 \in 1..(j - 1)  BY <2>1, HalfIsLess
    <2>3. j \div 2 \in 1..n  BY <1>1, <2>2
    <2>4. h[j \div 2] \in Entries  BY <2>3, ElementOfSeq
    <2>5. ~(h[j \div 2].priority < entry.priority)  BY <2>1 DEF Less
    <2> QED  BY <2>4, <2>5 DEF Entries
  <1>8. \A j \in 1..n : rank[j] = j  OBVIOUS
  <1>9. go \subseteq 1..n  OBVIOUS
  <1> HIDE DEF ClimbEq, PathEq, go, to, n, rank
  <1>10. ClimbEq(climb) /\ PathEq(path)  BY <1>1, <1>2, <1>3, <1>4, WayExists
  <1> HIDE DEF climb, path
  <1>11. IsWay(go, to, n, rank, hole, climb[hole], path[hole])
    <2>1. WayEq("end", go, to, n, climb) /\ WayEq("way", go, to, n, path)
      BY <1>2, <1>3, <1>10
    <2>2. hole \in 1..n  BY DEF n
    <2> QED  BY <1>1, <1>4, <2>1, <2>2, WaysAre
  <1> DEFINE c == climb[hole]
             p == path[hole]
  <1>12. Sifts(h, hole, entry, c, p)
    <2>1. /\ c \in 1..n /\ c \notin go /\ p \subseteq go
          /\ hole \in p \union {c}
          /\ \A j \in p : to[j] \in p \union {c}
          /\ \A j \in p \union {c} : rank[j] <= rank[hole]
          /\ \A j \in p \union {c} : j # hole => \E i \in p : to[i] = j
      BY <1>11 DEF IsWay
    <2> HIDE DEF c, p
    <2>2. c = 1 \/ h[c \div 2].priority >= entry.priority  BY <1>7, <2>1
    <2>3. \A j \in p : /\ j \in 2..n /\ h[j \div 2].priority < entry.priority
                       /\ j \div 2 \in p \union {c}  BY <1>6, <2>1
    <2>4. \A j \in p : c < j
      <3>1. c \notin p  BY <2>1
      <3> QED  BY <1>1, <2>1, <2>3, <3>1, ClimbIsLess
    <2>5. \A j \in p \union {c} : j <= hole
      <3>1. p \union {c} \subseteq 1..n /\ hole \in 1..n  BY <2>1, <1>9
      <3> QED  BY <1>8, <2>1, <3>1
    <2>6. \A j \in p \union {c} : j # hole => \E i \in p : i \div 2 = j
      BY <1>6, <2>1
    <2> QED  BY <2>1, <2>2, <2>3, <2>4, <2>5, <2>6 DEF Sifts, n
  <1> QED  BY <1>5, <1>12 DEF n

(* The entries that are there after sifting, and that they are a heap.     *)
LEMMA SiftUpKeepsHeap ==
    ASSUME NEW h \in Seq(Entries), NEW hole \in 1..Len(h), NEW entry \in Entries,
           2 * hole > Len(h),
           \A i \in 2..Len(h) : i # hole =>
              h[i \div 2].priority >= h[i].priority
    PROVE  /\ IsHeap(SiftUp(h, hole, entry))
           /\ Len(SiftUp(h, hole, entry)) = Len(h)
  <1> DEFINE n == Len(h)
             r == SiftUp(h, hole, entry)
  <1>1. n \in Nat /\ hole \in Nat  OBVIOUS
  <1>2. PICK c, p : /\ Sifts(h, hole, entry, c, p)
                    /\ r = [i \in 1..n |->
                              IF i = c THEN entry
                              ELSE IF i \in p THEN h[i \div 2] ELSE h[i]]
    BY SiftUpIs
  <1> HIDE DEF r
  <1>3. \A i \in 1..n : h[i] \in Entries  BY ElementOfSeq
  <1>4. \A i \in 2..n : i \div 2 \in 1..n /\ i \div 2 < i
    <2> TAKE i \in 2..n
    <2>1. i \div 2 \in 1..(i - 1)  BY HalfIsLess
    <2> QED  BY <1>1, <2>1
  <1>5. r \in Seq(Entries) /\ Len(r) = n
    <2>1. ASSUME NEW i \in 1..n PROVE r[i] \in Entries
      <3>1. CASE i = c  BY <1>2, <3>1
      <3>2. CASE i # c /\ i \in p
        <4>1. i \in 2..n  BY <1>2, <3>2 DEF Sifts
        <4> QED  BY <1>2, <1>3, <1>4, <3>2, <4>1
      <3>3. CASE i # c /\ i \notin p  BY <1>2, <1>3, <3>3
      <3> QED  BY <3>1, <3>2, <3>3
    <2>2. r = [i \in 1..n |-> r[i]]  BY <1>2
    <2> HIDE DEF n
    <2> QED  BY <1>1, <2>1, <2>2
  <1>6. ASSUME NEW k \in 2..n PROVE r[k \div 2].priority >= r[k].priority
    <2> DEFINE m == k \div 2
    <2>1. m \in 1..n /\ m < k /\ k \in 1..n /\ k \in Nat /\ m \in Nat  BY <1>4
    <2>2. m # hole
      <3>1. 2 * m <= k  OBVIOUS
      <3> HIDE DEF m
      <3> QED  BY <1>1, <2>1, <3>1
    <2> USE DEF Entries
    <2>3. /\ h[m].priority \in Nat /\ h[k].priority \in Nat
          /\ entry.priority \in Nat  BY <1>3, <2>1
    <2>4. k # hole => h[m].priority >= h[k].priority  OBVIOUS
    <2>5. CASE k = c
      <3>1. m # c /\ m \notin p  BY <2>1, <2>5, <1>2 DEF Sifts
      <3>2. r[m] = h[m] /\ r[k] = entry  BY <1>2, <2>1, <2>5, <3>1
      <3>3. h[m].priority >= entry.priority  BY <1>2, <2>5 DEF Sifts
      <3> QED  BY <3>2, <3>3
    <2>6. CASE k # c /\ k \in p
      <3>1. r[k] = h[m]  BY <1>2, <2>1, <2>6
      <3>2. m \in p \union {c} /\ h[m].priority < entry.priority
        BY <1>2, <2>6 DEF Sifts
      <3>3. CASE m = c
        <4>1. r[m] = entry  BY <1>2, <2>1, <3>3
        <4>2. r[m].priority = entry.priority /\ r[k].priority = h[m].priority
          BY <3>1, <4>1
        <4>3. r[m].priority >= r[k].priority
          <5> HIDE DEF m, n, Entries
          <5> QED  BY <2>3, <3>2, <4>2
        <4> QED  BY <4>3
      <3>4. CASE m \in p /\ m # c
        <4>1. r[m] = h[m \div 2] /\ m \in 2..n  BY <1>2, <2>1, <3>4 DEF Sifts
        <4>2. h[m \div 2].priority >= h[m].priority  BY <2>2, <4>1
        <4> QED  BY <3>1, <4>1, <4>2
      <3> QED  BY <3>2, <3>3, <3>4
    <2>7. CASE k # c /\ k \notin p
      <3>1. r[k] = h[k] /\ k # hole  BY <1>2, <2>1, <2>7 DEF Sifts
      <3>0. h[m].priority >= h[k].priority  BY <2>4, <3>1
      <3>2. CASE m = c
        <4>1. r[m] = entry  BY <1>2, <2>1, <3>2
        <4>2. PICK j \in p : j \div 2 = c  BY <1>2, <2>2, <3>2 DEF Sifts
        <4>3. h[c].priority < entry.priority  BY <1>2, <4>2 DEF Sifts
        <4>4. r[m].priority >= r[k].priority
          <5>1. r[m].priority = entry.priority /\ r[k].priority = h[k].priority
            BY <3>1, <4>1
          <5> HIDE DEF m, n, Entries
          <5>2. h[k].priority < entry.priority  BY <2>3, <3>0, <3>2, <4>3
          <5> QED  BY <2>3, <5>1, <5>2
        <4> QED  BY <4>4
      <3>3. CASE m \in p /\ m # c
        <4>1. r[m] = h[m \div 2] /\ m \in 2..n  BY <1>2, <2>1, <3>3 DEF Sifts
        <4>2. h[m \div 2].priority >= h[m].priority  BY <2>2, <4>1
        <4>3. h[m \div 2].priority \in Nat  BY <1>3, <1>4, <4>1
        <4>4. r[m].priority >= r[k].priority
          <5> DEFINE up == h[m \div 2].priority
          <5>1. up >= h[m].priority /\ up \in Nat /\ r[m].priority = up
            BY <4>1, <4>2, <4>3
          <5> HIDE DEF m, n, up, Entries
          <5> QED  BY <2>3, <3>0, <3>1, <5>1
        <4> QED  BY <4>4
      <3>4. CASE m \notin p /\ m # c
        <4>1. r[m] = h[m]  BY <1>2, <2>1, <3>4
        <4> QED  BY <2>4, <3>1, <4>1
      <3> QED  BY <3>2, <3>3, <3>4
    <2> QED  BY <2>5, <2>6, <2>7
  <1> QED  BY <1>5, <1>6 DEF IsHeap, r

LEMMA SiftUpHolds ==
    ASSUME NEW h \in Seq(Entries), NEW hole \in 1..Len(h), NEW entry \in Entries
    PROVE  Held(SiftUp(h, hole, entry)) = HeldBut(h, hole) \union {entry}
  <1> DEFINE n == Len(h)
             r == SiftUp(h, hole, entry)
  <1>1. n \in Nat /\ hole \in Nat /\ DOMAIN h = 1..n  OBVIOUS
  <1>2. PICK c, p : /\ Sifts(h, hole, entry, c, p)
                    /\ r = [i \in 1..n |->
                              IF i = c THEN entry
                              ELSE IF i \in p THEN h[i \div 2] ELSE h[i]]
    BY SiftUpIs
  <1> HIDE DEF r
  <1>3. DOMAIN r = 1..n /\ c \in 1..n  BY <1>2 DEF Sifts
  <1>4. ASSUME NEW i \in 1..n
        PROVE  r[i] = entry \/ \E j \in 1..n : j # hole /\ r[i] = h[j]
    <2>1. CASE i = c  BY <1>2, <2>1
    <2>2. CASE i # c /\ i \in p
      <3>1. i \in 2..n /\ i \div 2 \in p \union {c} /\ i <= hole
        BY <1>2, <2>2 DEF Sifts
      <3>2. i \div 2 \in 1..(i - 1)  BY <3>1, HalfIsLess
      <3>3. i \div 2 \in 1..n /\ i \div 2 # hole  BY <1>1, <3>1, <3>2
      <3>4. r[i] = h[i \div 2]  BY <1>2, <2>2
      <3> QED  BY <3>3, <3>4
    <2>3. CASE i # c /\ i \notin p
      <3>1. r[i] = h[i] /\ i # hole  BY <1>2, <2>3 DEF Sifts
      <3> QED  BY <3>1
    <2> QED  BY <2>1, <2>2, <2>3
  <1>5. ASSUME NEW j \in 1..n, j # hole PROVE \E i \in 1..n : r[i] = h[j]
    <2>1. CASE j \notin p /\ j # c  BY <1>2, <2>1
    <2>2. CASE j \in p \union {c}
      <3>1. PICK i \in p : i \div 2 = j  BY <1>2, <1>5, <2>2 DEF Sifts
      <3>2. i \in 2..n /\ c < i  BY <1>2 DEF Sifts
      <3>3. i # c /\ i \in 1..n  BY <1>3, <3>2
      <3>4. r[i] = h[i \div 2]  BY <1>2, <3>1, <3>3
      <3> QED  BY <3>1, <3>3, <3>4
    <2> QED  BY <2>1, <2>2
  <1>6. r[c] = entry  BY <1>2, <1>3
  <1> HIDE DEF n
  <1>7. Held(r) = HeldBut(h, hole) \union {entry}
    <2>1. ASSUME NEW x \in Held(r) PROVE x \in HeldBut(h, hole) \union {entry}
      <3>1. PICK i \in 1..n : x = r[i]  BY <1>3 DEF Held
      <3> QED  BY <1>1, <1>4, <3>1 DEF HeldBut
    <2>2. ASSUME NEW x \in HeldBut(h, hole) PROVE x \in Held(r)
      <3>1. PICK j \in 1..n : j # hole /\ x = h[j]  BY <1>1 DEF HeldBut
      <3> QED  BY <1>3, <1>5, <3>1 DEF Held
    <2>3. entry \in Held(r)  BY <1>3, <1>6 DEF Held
    <2> QED  BY <2>1, <2>2, <2>3
  <1> QED  BY <1>7 DEF r

(* The first entry is one of the greatest.                                 *)
LEMMA FirstIsMaximal ==
    ASSUME NEW h, IsHeap(h), NEW i \in 1..Len(h)
    PROVE  h[1].priority >= h[i].priority
  <1> DEFINE n == Len(h)
             S == {m \in 0..n : \A j \in 1..m : h[1].priority >= h[j].priority}
  <1>1. /\ h \in Seq(Entries) /\ n \in Nat
        /\ \A j \in 2..n : h[j \div 2].priority >= h[j].priority  BY DEF IsHeap
  <1>2. \A j \in 1..n : h[j].priority \in Nat
    <2> TAKE j \in 1..n
    <2>1. h[j] \in Entries  BY <1>1, ElementOfSeq
    <2> QED  BY <2>1 DEF Entries
  <1>3. 0 \in S  BY <1>1
  <1>4. ASSUME NEW m \in 0..(n - 1), m \in S PROVE m + 1 \in S
    <2>1. m + 1 \in 1..n /\ m \in Nat /\ 1 \in 1..n  BY <1>1
    <2>2. h[1].priority >= h[m + 1].priority
      <3>1. CASE m = 0  BY <1>2, <2>1, <3>1
      <3>2. CASE m > 0
        <4> DEFINE k == m + 1
                   j == k \div 2
        <4>1. k \in 2..n /\ k \in Nat /\ k > 1  BY <2>1, <3>2
        <4>2. j \in 1..(k - 1)
          <5> HIDE DEF k
          <5> QED  BY <4>1, HalfIsLess
        <4>3. j \in 1..m /\ j \in 1..n
          <5> HIDE DEF j
          <5> QED  BY <2>1, <4>2
        <4>4. h[1].priority >= h[j].priority  BY <1>4, <4>3
        <4>5. h[j].priority >= h[k].priority  BY <1>1, <4>1
        <4>6. h[1].priority \in Nat /\ h[j].priority \in Nat /\ h[k].priority \in Nat
          BY <1>2, <2>1, <4>3
        <4> HIDE DEF j
        <4>7. h[1].priority >= h[k].priority
          <5> HIDE DEF k, n
          <5> QED  BY <4>4, <4>5, <4>6
        <4> QED  BY <4>7
      <3> QED  BY <2>1, <3>1, <3>2
    <2>3. ASSUME NEW j \in 1..(m + 1) PROVE h[1].priority >= h[j].priority
      <3>1. j \in 1..m \/ j = m + 1  BY <2>1
      <3> QED  BY <1>4, <2>2, <3>1
    <2>4. m + 1 \in 0..n  BY <2>1
    <2> QED  BY <2>3, <2>4
  <1> HIDE DEF S
  <1>5. 0..n \subseteq S
    <2> HIDE DEF n
    <2> QED  BY <1>1, <1>3, <1>4, SetInductionUpTo
  <1>6. n \in S /\ i \in 1..n  BY <1>1, <1>5
  <1> QED  BY <1>6 DEF S

LEMMA EmplaceIs ==
    ASSUME NEW h, IsHeap(h), NEW entry \in Entries
    PROVE  /\ IsHeap(Emplace(h, entry))
           /\ Len(Emplace(h, entry)) = Len(h) + 1
           /\ Held(Emplace(h, entry)) = Held(h) \union {entry}
           /\ Emplace(h, entry)[1] =
                 IF h # <<>> /\ h[1].priority >= entry.priority
                 THEN h[1] ELSE entry
  <1> DEFINE a == Append(h, entry)
             n == Len(h)
             e == SiftUp(a, n + 1, entry)
  <1>1. /\ h \in Seq(Entries) /\ n \in Nat
        /\ \A j \in 2..n : h[j \div 2].priority >= h[j].priority  BY DEF IsHeap
  <1>2. /\ a \in Seq(Entries) /\ Len(a) = n + 1 /\ a[n + 1] = entry
        /\ \A j \in 1..n : a[j] = h[j]  BY <1>1, AppendProperties
  <1>3. Emplace(h, entry) = e  BY DEF Emplace
  <1>4. n + 1 \in 1..Len(a)  BY <1>1, <1>2
  <1> HIDE DEF a
  <1>5. IsHeap(e) /\ Len(e) = n + 1
    <2>1. ASSUME NEW i \in 2..Len(a), i # n + 1
          PROVE  a[i \div 2].priority >= a[i].priority
      <3>1. i \in 2..n /\ i \in Nat /\ i > 1  BY <1>1, <1>2, <2>1
      <3>2. i \div 2 \in 1..(i - 1)  BY <3>1, HalfIsLess
      <3>3. i \div 2 \in 1..n /\ i \in 1..n  BY <1>1, <3>1, <3>2
      <3> QED  BY <1>1, <1>2, <3>1, <3>3
    <2>2. 2 * (n + 1) > Len(a)  BY <1>1, <1>2
    <2> HIDE DEF n
    <2> QED  BY <1>2, <1>4, <2>1, <2>2, SiftUpKeepsHeap
  <1>6. Held(e) = Held(h) \union {entry}
    <2>1. Held(e) = HeldBut(a, n + 1) \union {entry}
      BY <1>2, <1>4, SiftUpHolds
    <2>2. DOMAIN a = 1..(n + 1) /\ (1..(n + 1)) \ {n + 1} = 1..n /\ DOMAIN h = 1..n
      BY <1>1, <1>2
    <2>3. HeldBut(a, n + 1) = Held(h)
      <3> HIDE DEF n
      <3> QED  BY <1>2, <2>2 DEF HeldBut, Held
    <2> QED  BY <2>1, <2>3
  <1>7. e[1] = IF h # <<>> /\ h[1].priority >= entry.priority
               THEN h[1] ELSE entry
    <2>1. PICK c, p : /\ Sifts(a, n + 1, entry, c, p)
                      /\ e = [i \in 1..(n + 1) |->
                                 IF i = c THEN entry
                                 ELSE IF i \in p THEN a[i \div 2] ELSE a[i]]
      BY <1>2, <1>4, SiftUpIs
    <2> HIDE DEF e
    <2>2. /\ c \in 1..(n + 1) /\ 1 \in 1..(n + 1) /\ 1 \notin p
          /\ c = 1 \/ a[c \div 2].priority >= entry.priority
      <3>1. c \in 1..(n + 1) /\ 1 \in 1..(n + 1)  BY <1>1, <1>2, <2>1 DEF Sifts
      <3>2. 1 \notin p
        <4>1. \A j \in p : j \in 2..Len(a)  BY <2>1 DEF Sifts
        <4> QED  BY <4>1
      <3>3. c = 1 \/ a[c \div 2].priority >= entry.priority  BY <2>1 DEF Sifts
      <3> QED  BY <3>1, <3>2, <3>3
    <2>3. CASE c = 1
      <3>1. e[1] = entry  BY <2>1, <2>2, <2>3
      <3>2. h = <<>> \/ ~(h[1].priority >= entry.priority)
        <4>1. CASE n = 0  BY <1>1, <4>1
        <4>2. CASE n # 0
          <5>1. PICK j \in p : j \div 2 = 1
            <6>1. c # n + 1  BY <1>1, <2>3, <4>2
            <6> QED  BY <2>1, <2>3, <6>1 DEF Sifts
          <5>2. a[1].priority < entry.priority  BY <2>1, <5>1 DEF Sifts
          <5>3. 1 \in 1..n  BY <1>1, <4>2
          <5>4. h[1].priority \in Nat /\ entry.priority \in Nat
            <6>1. h[1] \in Entries  BY <1>1, <5>3, ElementOfSeq
            <6> QED  BY <6>1 DEF Entries
          <5> QED  BY <1>2, <5>2, <5>3, <5>4
        <4> QED  BY <4>1, <4>2
      <3> QED  BY <3>1, <3>2
    <2>4. CASE c # 1
      <3>1. c \in 2..(n + 1) /\ c \in Nat /\ c > 1  BY <1>1, <2>2, <2>4
      <3> DEFINE d == c \div 2
      <3>2. d \in 1..(c - 1)  BY <3>1, HalfIsLess
      <3> HIDE DEF d
      <3>3. d \in 1..n /\ 1 \in 1..n  BY <1>1, <3>1, <3>2
      <3>4. h[d].priority >= entry.priority  BY <1>2, <2>2, <2>4, <3>3 DEF d
      <3>5. h[1].priority >= h[d].priority  BY <3>3, FirstIsMaximal
      <3>6. h[1].priority \in Nat /\ h[d].priority \in Nat /\ entry.priority \in Nat
        <4>1. h[1] \in Entries /\ h[d] \in Entries  BY <1>1, <3>3, ElementOfSeq
        <4> QED  BY <4>1 DEF Entries
      <3>7. e[1] = h[1]  BY <1>2, <2>1, <2>2, <2>4, <3>3
      <3>8. h # <<>>  BY <3>3
      <3>9. h[1].priority >= entry.priority
        <4> HIDE DEF n
        <4> QED  BY <3>4, <3>5, <3>6
      <3> QED  BY <3>7, <3>8, <3>9
    <2> QED  BY <2>3, <2>4
  <1> HIDE DEF e
  <1> QED  BY <1>3, <1>5, <1>6, <1>7

LEMMA LargerIs ==
    ASSUME NEW h \in Seq(Entries), NEW i \in Nat, i > 0, 2 * i <= Len(h)
    PROVE  /\ Larger(h, i) \in {2 * i, 2 * i + 1}
           /\ Larger(h, i) \in 2..Len(h)
           /\ Larger(h, i) \div 2 = i
           /\ Larger(h, i) > i
           /\ h[Larger(h, i)].priority >= h[2 * i].priority
           /\ 2 * i + 1 <= Len(h) =>
                 h[Larger(h, i)].priority >= h[2 * i + 1].priority
  <1> DEFINE n == Len(h)
             l == 2 * i
             r == 2 * i + 1
  <1>1. n \in Nat /\ l \in Nat /\ r \in Nat /\ l \in 2..n  OBVIOUS
  <1>2. l \div 2 = i /\ r \div 2 = i  OBVIOUS
  <1>3. h[l].priority \in Nat
    <2>1. h[l] \in Entries  BY <1>1, ElementOfSeq
    <2> QED  BY <2>1 DEF Entries
  <1>4. CASE l = n
    <2>1. Larger(h, i) = l  BY <1>4 DEF Larger
    <2>2. ~(r <= n) /\ l > i  BY <1>1, <1>4
    <2> HIDE DEF l, r, n
    <2>3. /\ l \in 2..n /\ l \div 2 = i /\ l > i
          /\ h[l].priority >= h[l].priority
          /\ r <= n => h[l].priority >= h[r].priority
      BY <1>1, <1>2, <1>3, <2>2
    <2>4. l \in {l, r}  OBVIOUS
    <2> QED  BY <2>1, <2>3, <2>4, Zenon DEF l, r, n
  <1>5. CASE l # n
    <2>1. r \in 2..n /\ r > i /\ l > i  BY <1>1, <1>5
    <2>2. h[r].priority \in Nat
      <3>1. h[r] \in Entries  BY <2>1, ElementOfSeq
      <3> QED  BY <3>1 DEF Entries
    <2>3. Larger(h, i) = IF h[r].priority < h[l].priority THEN l ELSE r
      BY <1>5 DEF Larger, Less
    <2>4. /\ Larger(h, i) \in {l, r}
          /\ h[Larger(h, i)].priority >= h[l].priority
          /\ h[Larger(h, i)].priority >= h[r].priority
      <3> HIDE DEF l, r, n
      <3> QED  BY <1>3, <2>2, <2>3
    <2> QED  BY <1>1, <1>2, <2>1, <2>4
  <1> QED  BY <1>4, <1>5

LEMMA HalfOf ==
    ASSUME NEW i \in Nat, NEW j \in Nat, j > 0, i \div 2 = j
    PROVE  i = 2 * j \/ i = 2 * j + 1
  OBVIOUS

LEMMA PopIsSift ==
    ASSUME NEW heap \in Seq(Entries), Len(heap) > 1
    PROVE  \E end, way :
              /\ Sinks(Front(heap), end, way)
              /\ Pop(heap) =
                    SiftUp(Lifted(Front(heap), way), end, Last(heap))
  <1>0. Len(heap) # 1
    <2> DEFINE l == Len(heap)
    <2>1. l \in Nat /\ l > 1  OBVIOUS
    <2> HIDE DEF l
    <2>2. l # 1  BY <2>1
    <2> QED  BY <2>2 DEF l
  <1> DEFINE rest == Front(heap)
             n == Len(rest)
             inner(i) == 2 * i <= n
             go == {i \in 1..n : inner(i)}
             to == [i \in 1..n |-> Larger(rest, i)]
             rank == [i \in 1..n |-> n - i]
             BottomEq(f) == f = [i \in 1..n |->
                                   IF inner(i) THEN f[Larger(rest, i)] ELSE i]
             PassedEq(f) == f = [i \in 1..n |->
                                IF inner(i) THEN {i} \union f[Larger(rest, i)]
                                ELSE {}]
             bottom == CHOOSE f : BottomEq(f)
             way == CHOOSE f : PassedEq(f)
  <1>1. rest \in Seq(Entries) /\ n \in Nat /\ n > 0  BY DEF Front
  <1>2. \A f : BottomEq(f) <=> WayEq("end", go, to, n, f)
    <2> HIDE DEF rest, n
    <2> QED  BY DEF WayEq, Passed, Stopped
  <1>3. \A f : PassedEq(f) <=> WayEq("way", go, to, n, f)
    <2> HIDE DEF rest, n
    <2> QED  BY DEF WayEq, Passed, Stopped
  <1>4. \A i \in go : /\ i \in 1..n /\ 2 * i <= n /\ to[i] = Larger(rest, i)
                      /\ to[i] \in 1..n /\ to[i] > i
    <2> TAKE i \in go
    <2>1. i \in 1..n /\ 2 * i <= n /\ to[i] = Larger(rest, i)  OBVIOUS
    <2> HIDE DEF rest
    <2>2. Larger(rest, i) \in 2..n /\ Larger(rest, i) > i
      BY <1>1, <2>1, LargerIs
    <2> HIDE DEF n, to
    <2> QED  BY <1>1, <2>1, <2>2
  <1>5. Ranked(go, to, n, rank)
    <2> HIDE DEF rest, n, to
    <2>1. ASSUME NEW i \in go PROVE to[i] \in 1..n /\ rank[to[i]] < rank[i]
      <3>1. i \in 1..n /\ to[i] \in 1..n /\ to[i] > i  BY <1>4
      <3>2. rank[i] = n - i /\ rank[to[i]] = n - to[i]  BY <3>1
      <3> HIDE DEF rank
      <3> QED  BY <1>1, <3>1, <3>2
    <2> QED  BY <1>1, <2>1 DEF Ranked
  <1>6. Pop(heap) = SiftUp(Lifted(rest, way[1]), bottom[1], Last(heap))
    <2> QED  BY <1>0, Zenon DEF Pop, Lifted
  <1>7. \A i \in 1..n : i \notin go => 2 * i > n
    <2> HIDE DEF n
    <2> QED  BY <1>1
  <1> HIDE DEF BottomEq, PassedEq, go, to, n, rank, rest
  <1>8. BottomEq(bottom) /\ PassedEq(way)  BY <1>1, <1>2, <1>3, <1>5, WayExists
  <1> HIDE DEF bottom, way
  <1>9. IsWay(go, to, n, rank, 1, bottom[1], way[1])
    <2>1. WayEq("end", go, to, n, bottom) /\ WayEq("way", go, to, n, way)
      BY <1>2, <1>3, <1>8
    <2>2. 1 \in 1..n  BY <1>1
    <2> QED  BY <1>1, <1>5, <2>1, <2>2, WaysAre
  <1> DEFINE e == bottom[1]
             w == way[1]
  <1>10. Sinks(rest, e, w)
    <2>1. /\ e \in 1..n /\ e \notin go /\ w \subseteq go
          /\ 1 \in w \union {e}
          /\ \A j \in w : to[j] \in w \union {e}
          /\ \A j \in w \union {e} : j # 1 => \E i \in w : to[i] = j
      BY <1>9 DEF IsWay
    <2> HIDE DEF e, w
    <2>2. 2 * e > n /\ e \notin w  BY <1>7, <2>1
    <2>3. \A i \in w : i \in 1..n /\ 2 * i <= n /\ Larger(rest, i) \in w \union {e}
      BY <1>4, <2>1
    <2>4. \A j \in w \union {e} : j # 1 => \E i \in w : Larger(rest, i) = j
      BY <1>4, <2>1
    <2> QED  BY <2>1, <2>2, <2>3, <2>4 DEF Sinks, n
  <1> QED  BY <1>6, <1>10 DEF rest

LEMMA SunkenHeap ==
    ASSUME NEW h, IsHeap(h), NEW end, NEW way, Sinks(h, end, way)
    PROVE  /\ Lifted(h, way) \in Seq(Entries)
           /\ Len(Lifted(h, way)) = Len(h)
           /\ \A i \in 2..Len(h) : Lifted(h, way)[i \div 2].priority >=
                                      Lifted(h, way)[i].priority
  <1> DEFINE n == Len(h)
             f == Lifted(h, way)
  <1>1. /\ h \in Seq(Entries) /\ n \in Nat
        /\ \A i \in 2..n : h[i \div 2].priority >= h[i].priority  BY DEF IsHeap
  <1>2. \A i \in 1..n : h[i] \in Entries
    <2> TAKE i \in 1..n
    <2> QED  BY <1>1, ElementOfSeq
  <1>3. \A i \in way : i \in 1..n /\ 2 * i <= n  BY DEF Sinks
  <1>4. ASSUME NEW i \in 1..n, 2 * i <= n
        PROVE  /\ Larger(h, i) \in 2..n
               /\ Larger(h, i) \div 2 = i
               /\ \A k \in 2..n : k \div 2 = i =>
                     h[Larger(h, i)].priority >= h[k].priority
    <2>1. i \in Nat /\ i > 0  OBVIOUS
    <2>2. /\ Larger(h, i) \in 2..n
          /\ Larger(h, i) \div 2 = i
          /\ h[Larger(h, i)].priority >= h[2 * i].priority
          /\ 2 * i + 1 <= n => h[Larger(h, i)].priority >= h[2 * i + 1].priority
      BY <1>1, <1>4, <2>1, LargerIs
    <2>3. ASSUME NEW k \in 2..n, k \div 2 = i
          PROVE  h[Larger(h, i)].priority >= h[k].priority
      <3>1. k = 2 * i \/ k = 2 * i + 1  BY <2>1, <2>3, HalfOf
      <3>2. k <= n  BY <1>1
      <3> HIDE DEF n
      <3> QED  BY <2>2, <3>1, <3>2
    <2> QED  BY <2>2, <2>3
  <1>5. f = [i \in 1..n |-> IF i \in way THEN h[Larger(h, i)] ELSE h[i]]
    BY DEF Lifted
  <1> HIDE DEF f
  <1>6. f \in Seq(Entries) /\ Len(f) = n
    <2>1. ASSUME NEW i \in 1..n PROVE f[i] \in Entries
      <3>1. CASE i \in way
        <4>1. Larger(h, i) \in 1..n
          <5>1. Larger(h, i) \in 2..n  BY <1>3, <1>4, <3>1
          <5> HIDE DEF n
          <5> QED  BY <1>1, <5>1
        <4> QED  BY <1>2, <1>5, <3>1, <4>1
      <3>2. CASE i \notin way  BY <1>2, <1>5, <3>2
      <3> QED  BY <3>1, <3>2
    <2>2. f = [i \in 1..n |-> f[i]]  BY <1>5
    <2> HIDE DEF n
    <2> QED  BY <1>1, <2>1, <2>2
  <1>7. ASSUME NEW k \in 2..n PROVE f[k \div 2].priority >= f[k].priority
    <2> DEFINE m == k \div 2
    <2>1. m \in 1..n /\ k \in 1..n /\ k \in Nat /\ 2 * m <= n
      <3>1. m \in 1..(k - 1)  BY HalfIsLess
      <3>2. 2 * m <= k  OBVIOUS
      <3> HIDE DEF m
      <3> QED  BY <1>1, <3>1, <3>2
    <2>2. f[m].priority >= h[k].priority
      <3>1. CASE m \in way
        <4>1. f[m] = h[Larger(h, m)]  BY <1>5, <2>1, <3>1
        <4> QED  BY <1>4, <2>1, <4>1
      <3>2. CASE m \notin way
        <4>1. f[m] = h[m]  BY <1>5, <2>1, <3>2
        <4> QED  BY <1>1, <4>1
      <3> QED  BY <3>1, <3>2
    <2>3. h[k].priority >= f[k].priority
      <3>1. CASE k \in way
        <4> DEFINE l == Larger(h, k)
        <4>1. f[k] = h[l]  BY <1>5, <2>1, <3>1
        <4>2. l \in 2..n /\ l \div 2 = k  BY <1>3, <1>4, <3>1
        <4> HIDE DEF l
        <4> QED  BY <1>1, <4>1, <4>2
      <3>2. CASE k \notin way
        <4>1. f[k] = h[k]  BY <1>5, <2>1, <3>2
        <4>2. h[k].priority \in Nat  BY <1>2, <2>1 DEF Entries
        <4> QED  BY <4>1, <4>2
      <3> QED  BY <3>1, <3>2
    <2>4. f[m] \in Entries /\ f[k] \in Entries /\ h[k] \in Entries
      <3>1. f[m] \in Entries /\ f[k] \in Entries
        <4> HIDE DEF m
        <4> QED  BY <1>6, <2>1, ElementOfSeq
      <3> QED  BY <1>2, <2>1, <3>1
    <2> HIDE DEF m, n
    <2>5. f[m].priority >= f[k].priority
      <3>1. f[m].priority \in Nat /\ f[k].priority \in Nat /\ h[k].priority \in Nat
        BY <2>4 DEF Entries
      <3> QED  BY <2>2, <2>3, <3>1
    <2> QED  BY <2>5 DEF m
  <1> QED  BY <1>6, <1>7 DEF f

LEMMA SunkenHolds ==
    ASSUME NEW h, IsHeap(h), NEW end, NEW way, Sinks(h, end, way)
    PROVE  HeldBut(Lifted(h, way), end) = HeldBut(h, 1)
  <1> DEFINE n == Len(h)
             f == Lifted(h, way)
  <1>1. h \in Seq(Entries) /\ n \in Nat /\ DOMAIN h = 1..n  BY DEF IsHeap
  <1>2. f = [i \in 1..n |-> IF i \in way THEN h[Larger(h, i)] ELSE h[i]]
    BY DEF Lifted
  <1> HIDE DEF f
  <1>3. DOMAIN f = 1..n  BY <1>2
  <1>4. ASSUME NEW i \in 1..n, i # end
        PROVE  \E k \in 1..n : k # 1 /\ f[i] = h[k]
    <2>1. CASE i \in way
      <3>1. 2 * i <= n /\ i \in Nat /\ i > 0  BY <2>1 DEF Sinks
      <3>2. Larger(h, i) \in 2..n  BY <1>1, <3>1, LargerIs
      <3>3. Larger(h, i) \in 1..n /\ Larger(h, i) # 1  BY <1>1, <3>2
      <3>4. f[i] = h[Larger(h, i)]  BY <1>2, <2>1
      <3> QED  BY <3>3, <3>4
    <2>2. CASE i \notin way
      <3>1. i # 1  BY <1>4, <2>2 DEF Sinks
      <3> QED  BY <1>2, <2>2, <3>1
    <2> QED  BY <2>1, <2>2
  <1>5. ASSUME NEW k \in 1..n, k # 1
        PROVE  \E i \in 1..n : i # end /\ f[i] = h[k]
    <2>1. CASE k \in way \union {end}
      <3>1. PICK i \in way : Larger(h, i) = k  BY <1>5, <2>1 DEF Sinks
      <3>2. i \in 1..n /\ i # end  BY DEF Sinks
      <3> QED  BY <1>2, <3>1, <3>2
    <2>2. CASE k \notin way \union {end}  BY <1>2, <2>2
    <2> QED  BY <2>1, <2>2
  <1> HIDE DEF n
  <1>6. HeldBut(f, end) = HeldBut(h, 1)
    <2>1. ASSUME NEW x \in HeldBut(f, end) PROVE x \in HeldBut(h, 1)
      <3>1. PICK i \in 1..n : i # end /\ x = f[i]  BY <1>3 DEF HeldBut
      <3> QED  BY <1>1, <1>4, <3>1 DEF HeldBut
    <2>2. ASSUME NEW x \in HeldBut(h, 1) PROVE x \in HeldBut(f, end)
      <3>1. PICK k \in 1..n : k # 1 /\ x = h[k]  BY <1>1 DEF HeldBut
      <3> QED  BY <1>3, <1>5, <3>1 DEF HeldBut
    <2> QED  BY <2>1, <2>2
  <1> QED  BY <1>6 DEF f

LEMMA PopIs ==
    ASSUME NEW h, IsHeap(h), h # <<>>
    PROVE  /\ IsHeap(Pop(h))
           /\ Len(Pop(h)) = Len(h) - 1
           /\ Held(Pop(h)) = HeldBut(h, 1)
  <1> DEFINE n == Len(h)
             rest == Front(h)
  <1>1. /\ h \in Seq(Entries) /\ n \in Nat /\ n >= 1 /\ DOMAIN h = 1..n
        /\ \A i \in 2..n : h[i \div 2].priority >= h[i].priority  BY DEF IsHeap
  <1>2. CASE n = 1
    <2>1. Pop(h) = <<>>  BY <1>2, Zenon DEF Pop
    <2>2. IsHeap(<<>>) /\ Len(<<>>) = 0  BY DEF IsHeap
    <2>3. HeldBut(h, 1) = {}  BY <1>1, <1>2 DEF HeldBut
    <2>4. Held(<<>>) = {}  BY DEF Held
    <2>5. Len(h) - 1 = 0  BY <1>2
    <2> HIDE DEF n
    <2> QED  BY <2>1, <2>2, <2>3, <2>4, <2>5
  <1>3. CASE n # 1
    <2>0. n > 1  BY <1>1, <1>3
    <2>1. /\ rest \in Seq(Entries) /\ Len(rest) = n - 1
          /\ \A i \in 1..(n - 1) : rest[i] = h[i]  BY <1>1, <2>0 DEF Front
    <2>2. PICK end, way :
             /\ Sinks(rest, end, way)
             /\ Pop(h) = SiftUp(Lifted(rest, way), end, Last(h))
      BY <1>1, <2>0, PopIsSift
    <2> HIDE DEF rest
    <2>3. IsHeap(rest)
      <3>1. ASSUME NEW i \in 2..Len(rest)
            PROVE  rest[i \div 2].priority >= rest[i].priority
        <4>1. i \in 2..n /\ i \in 1..(n - 1) /\ i > 1 /\ i \in Nat
          BY <1>1, <2>1
        <4>2. i \div 2 \in 1..(i - 1)  BY <4>1, HalfIsLess
        <4>3. i \div 2 \in 1..(n - 1)  BY <1>1, <4>1, <4>2
        <4> QED  BY <1>1, <2>1, <4>1, <4>3
      <3> QED  BY <2>1, <3>1 DEF IsHeap
    <2> DEFINE f == Lifted(rest, way)
    <2>4. /\ f \in Seq(Entries) /\ Len(f) = Len(rest)
          /\ \A i \in 2..Len(rest) : f[i \div 2].priority >= f[i].priority
      BY <2>2, <2>3, SunkenHeap
    <2>5. end \in 1..Len(f) /\ 2 * end > Len(f)  BY <2>2, <2>4 DEF Sinks
    <2>6. Last(h) = h[n] /\ Last(h) \in Entries
      <3>1. n \in 1..n  BY <1>1
      <3> QED  BY <1>1, <3>1, ElementOfSeq DEF Last
    <2>7. HeldBut(f, end) = HeldBut(rest, 1)  BY <2>2, <2>3, SunkenHolds
    <2> HIDE DEF f
    <2>8. IsHeap(SiftUp(f, end, Last(h))) /\ Len(SiftUp(f, end, Last(h))) = Len(f)
      BY <2>4, <2>5, <2>6, SiftUpKeepsHeap
    <2>9. Held(SiftUp(f, end, Last(h))) = HeldBut(f, end) \union {Last(h)}
      BY <2>4, <2>5, <2>6, SiftUpHolds
    <2>10. HeldBut(rest, 1) \union {Last(h)} = HeldBut(h, 1)
      <3>1. DOMAIN rest = 1..(n - 1)  BY <2>1
      <3>2. n # 1 /\ n \in 1..n /\ \A i \in 1..n : i \in 1..(n - 1) \/ i = n
        <4>1. n \in Nat /\ n >= 1  BY <1>1
        <4> HIDE DEF n
        <4> QED  BY <1>3, <4>1
      <3>3. 1..(n - 1) \subseteq 1..n  BY <1>1
      <3> HIDE DEF n
      <3>4. ASSUME NEW x \in HeldBut(rest, 1) \union {Last(h)}
            PROVE  x \in HeldBut(h, 1)
        <4>1. CASE x = Last(h)  BY <1>1, <2>6, <3>2, <4>1 DEF HeldBut
        <4>2. CASE x \in HeldBut(rest, 1)
          <5>1. PICK i \in 1..(n - 1) : i # 1 /\ x = rest[i]
            BY <3>1, <4>2 DEF HeldBut
          <5> QED  BY <1>1, <2>1, <3>3, <5>1 DEF HeldBut
        <4> QED  BY <4>1, <4>2
      <3>5. ASSUME NEW x \in HeldBut(h, 1)
            PROVE  x \in HeldBut(rest, 1) \union {Last(h)}
        <4>1. PICK i \in 1..n : i # 1 /\ x = h[i]  BY <1>1 DEF HeldBut
        <4>2. CASE i = n  BY <2>6, <4>1, <4>2
        <4>3. CASE i \in 1..(n - 1)  BY <2>1, <3>1, <4>1, <4>3 DEF HeldBut
        <4> QED  BY <3>2, <4>2, <4>3
      <3> QED  BY <3>4, <3>5
    <2> QED  BY <2>1, <2>2, <2>4, <2>7, <2>8, <2>9, <2>10 DEF f
  <1> QED  BY <1>2, <1>3

LEMMA ServeLoop ==
    ASSUME NEW base, NEW seq, NEW n \in Nat, DOMAIN seq = 1..n
    PROVE  FoldLeft(Serve, base, seq) = After(<<"Serve">>, base, seq, n)
  <1>1. \A f, x : Serve(f, x) = Turn(<<"Serve">>, f, x)  BY DEF Turn
  <1>2. \E g : LoopEq(<<"Serve">>, base, seq, n, g)  BY LoopExists
  <1>3. \E g : /\ LoopEq(<<"Serve">>, base, seq, n, g)
               /\ FoldLeft(Serve, base, seq) = g[1..n]
    BY <1>1, <1>2, Zenon DEF FoldLeft, MapThenFoldSet, LoopEq
  <1> QED  BY <1>3, LoopIs

(* With entries none of which is smaller, sifting does not move anything.  *)
LEMMA SiftUpEquals ==
    ASSUME NEW h \in Seq(Entries), NEW hole \in 1..Len(h), NEW entry \in Entries,
           \A i \in 1..Len(h) : h[i].priority >= entry.priority
    PROVE  SiftUp(h, hole, entry) =
              [i \in 1..Len(h) |-> IF i = hole THEN entry ELSE h[i]]
  <1>1. PICK c, p : /\ Sifts(h, hole, entry, c, p)
                    /\ SiftUp(h, hole, entry) =
                          [i \in 1..Len(h) |->
                              IF i = c THEN entry
                              ELSE IF i \in p THEN h[i \div 2] ELSE h[i]]
    BY SiftUpIs
  <1>2. p = {}
    <2> SUFFICES ASSUME NEW j \in p PROVE FALSE  OBVIOUS
    <2>1. j \in 2..Len(h) /\ h[j \div 2].priority < entry.priority
      BY <1>1 DEF Sifts
    <2> DEFINE i == j \div 2
    <2>2. i \in 1..(j - 1)  BY <2>1, HalfIsLess
    <2> HIDE DEF i
    <2>3. i \in 1..Len(h)  BY <2>1, <2>2
    <2>4. h[i] \in Entries  BY <2>3, ElementOfSeq
    <2>5. h[i].priority \in Nat /\ entry.priority \in Nat  BY <2>4 DEF Entries
    <2>6. h[i].priority >= entry.priority /\ h[i].priority < entry.priority
      BY <2>1, <2>3 DEF i
    <2> QED  BY <2>5, <2>6
  <1>3. c = hole  BY <1>1, <1>2 DEF Sifts
  <1> QED  BY <1>1, <1>2, <1>3

LEMMA EmplaceEquals ==
    ASSUME NEW h \in Seq(Entries), NEW entry \in Entries,
           \A i \in 1..Len(h) : h[i].priority >= entry.priority
    PROVE  Emplace(h, entry) = Append(h, entry)
  <1> DEFINE a == Append(h, entry)
             n == Len(h)
  <1>1. /\ n \in Nat /\ a \in Seq(Entries) /\ Len(a) = n + 1
        /\ a[n + 1] = entry /\ \A i \in 1..n : a[i] = h[i]  BY AppendProperties
  <1>2. Emplace(h, entry) = SiftUp(a, n + 1, entry)  BY DEF Emplace
  <1> HIDE DEF a
  <1>3. \A i \in 1..Len(a) : a[i].priority >= entry.priority
    <2> TAKE i \in 1..Len(a)
    <2>1. CASE i = n + 1
      <3>1. entry.priority \in Nat  BY DEF Entries
      <3> QED  BY <1>1, <2>1, <3>1
    <2>2. CASE i \in 1..n  BY <1>1, <2>2
    <2>3. i = n + 1 \/ i \in 1..n
      <3> HIDE DEF n
      <3> QED  BY <1>1
    <2> QED  BY <2>1, <2>2, <2>3
  <1>4. n + 1 \in 1..Len(a)  BY <1>1
  <1> HIDE DEF n
  <1>5. SiftUp(a, n + 1, entry) =
           [i \in 1..Len(a) |-> IF i = n + 1 THEN entry ELSE a[i]]
    BY <1>1, <1>3, <1>4, SiftUpEquals
  <1>6. a = [i \in 1..Len(a) |-> a[i]]  BY <1>1
  <1>7. [i \in 1..Len(a) |-> IF i = n + 1 THEN entry ELSE a[i]] = a
    BY <1>1, <1>6
  <1> QED  BY <1>2, <1>5, <1>7 DEF a

(* Up to three equal entries leave in the order they came.                 *)
LEMMA PopEquals ==
    ASSUME NEW h \in Seq(Entries), Len(h) \in 1..3, NEW urgent \in Nat,
           \A i \in 1..Len(h) : h[i].priority = urgent
    PROVE  \A i \in 1..(Len(h) - 1) : Pop(h)[i] = h[i + 1]
  <1> DEFINE n == Len(h)
             rest == Front(h)
  <1>1. CASE n = 1
    <2>1. 1..(n - 1) = {}  BY <1>1
    <2> QED  BY <2>1
  <1>2. CASE n # 1
    <2>1. n \in {2, 3} /\ n > 1  BY <1>2
    <2>2. /\ rest \in Seq(Entries) /\ Len(rest) = n - 1
          /\ \A i \in 1..(n - 1) : rest[i] = h[i]  BY <2>1 DEF Front
    <2>3. PICK end, way :
             /\ Sinks(rest, end, way)
             /\ Pop(h) = SiftUp(Lifted(rest, way), end, Last(h))
      BY <2>1, PopIsSift
    <2>4. Last(h) = h[n] /\ Last(h) \in Entries /\ Last(h).priority = urgent
      <3>1. n \in 1..n /\ Last(h) = h[n]  BY <2>1 DEF Last
      <3> QED  BY <3>1, ElementOfSeq
    <2> HIDE DEF rest
    <2> DEFINE f == Lifted(rest, way)
    <2>5. /\ end = n - 1 /\ f \in Seq(Entries) /\ Len(f) = n - 1
          /\ \A i \in 1..(n - 2) : f[i] = h[i + 1]
          /\ \A i \in 1..(n - 1) : f[i].priority = urgent
      <3> HIDE DEF n
      <3>1. CASE n = 2
        <4>1. end = 1 /\ way = {}  BY <2>2, <2>3, <3>1 DEF Sinks
        <4>2. f = [i \in 1..1 |-> rest[i]]  BY <2>2, <3>1, <4>1 DEF Lifted
        <4>3. f[1] = h[1] /\ h[1] \in Entries /\ h[1].priority = urgent
          BY <2>2, <3>1, <4>2, ElementOfSeq DEF n
        <4>4. f \in Seq(Entries) /\ Len(f) = 1
          <5> HIDE DEF f
          <5> QED  BY <4>2, <4>3
        <4> HIDE DEF f
        <4> QED  BY <3>1, <4>1, <4>3, <4>4
      <3>2. CASE n = 3
        <4>1. end \in 1..2 /\ 2 * end > 2 /\ 1 \in way \union {end}
              /\ \A i \in way : i \in 1..2 /\ 2 * i <= 2
          BY <2>2, <2>3, <3>2 DEF Sinks
        <4>2. end = 2 /\ way = {1}
          <5>1. end = 2  BY <4>1
          <5> QED  BY <4>1, <5>1
        <4>3. Larger(rest, 1) = 2  BY <2>2, <3>2 DEF Larger
        <4>4. f = [i \in 1..2 |-> IF i = 1 THEN rest[2] ELSE rest[i]]
          BY <2>2, <3>2, <4>2, <4>3 DEF Lifted
        <4>5. /\ f[1] = h[2] /\ f[2] = h[2] /\ h[2] \in Entries
              /\ h[2].priority = urgent
          BY <2>2, <3>2, <4>4, ElementOfSeq DEF n
        <4>6. f \in Seq(Entries) /\ Len(f) = 2
          <5> HIDE DEF f
          <5> QED  BY <4>4, <4>5
        <4> HIDE DEF f
        <4> QED  BY <3>2, <4>2, <4>5, <4>6
      <3> QED  BY <2>1, <3>1, <3>2
    <2> HIDE DEF f
    <2>6. end \in 1..Len(f)  BY <2>1, <2>5
    <2>7. \A i \in 1..Len(f) : f[i].priority >= Last(h).priority  BY <2>4, <2>5
    <2>8. SiftUp(f, end, Last(h)) =
             [i \in 1..Len(f) |-> IF i = end THEN Last(h) ELSE f[i]]
      BY <2>4, <2>5, <2>6, <2>7, SiftUpEquals
    <2>9. Pop(h) = [i \in 1..(n - 1) |-> IF i = n - 1 THEN h[n] ELSE f[i]]
      <3> HIDE DEF n
      <3> QED  BY <2>3, <2>4, <2>5, <2>8 DEF f
    <2> HIDE DEF n
    <2>10. ASSUME NEW i \in 1..(n - 1) PROVE Pop(h)[i] = h[i + 1]
      <3>1. CASE i = n - 1
        <4>1. i + 1 = n  BY <2>1, <3>1
        <4> QED  BY <2>9, <3>1, <4>1
      <3>2. CASE i # n - 1
        <4>1. i \in 1..(n - 2)  BY <2>1, <3>2
        <4> QED  BY <2>5, <2>9, <3>2, <4>1
      <3> QED  BY <3>1, <3>2
    <2> QED  BY <2>10 DEF n
  <1> QED  BY <1>1, <1>2

LEMMA MaxOfTwo ==
    ASSUME NEW a \in Nat, NEW b \in Nat
    PROVE  Max({a, b}) = IF a >= b THEN a ELSE b
  <1> DEFINE m == IF a >= b THEN a ELSE b
  <1>1. \A x \in {a, b} : (\A y \in {a, b} : x >= y) <=> x = m  OBVIOUS
  <1>2. m \in {a, b}  OBVIOUS
  <1> HIDE DEF m
  <1>3. Max({a, b}) = m  BY <1>1, <1>2 DEF Max
  <1> QED  BY <1>3 DEF m

LEMMA ArrivalsOfHeld ==
    ASSUME NEW q
    PROVE  Arrivals(q) = {x.arrival : x \in Held(q)}
  BY DEF Arrivals, Held

LEMMA ArrivalsAppend ==
    ASSUME NEW q \in Seq(Entries), NEW x \in Entries
    PROVE  Arrivals(Append(q, x)) = Arrivals(q) \union {x.arrival}
  <1> DEFINE a == Append(q, x)
             n == Len(q)
  <1>1. /\ n \in Nat /\ a \in Seq(Entries) /\ Len(a) = n + 1
        /\ a[n + 1] = x /\ \A i \in 1..n : a[i] = q[i]  BY AppendProperties
  <1>2. DOMAIN a = 1..(n + 1) /\ DOMAIN q = 1..n  BY <1>1
  <1>3. 1..(n + 1) = (1..n) \union {n + 1}  BY <1>1
  <1> HIDE DEF a, n
  <1>4. Arrivals(a) = Arrivals(q) \union {x.arrival}
    BY <1>1, <1>2, <1>3 DEF Arrivals
  <1> QED  BY <1>4 DEF a

LEMMA ArrivalStep ==
    ASSUME NEW q, QueueInv(q), NEW p \in Nat, p > 0
    PROVE  /\ QueueInv(Serve(q, p))
           /\ (p = 1 /\ InOrder(q)) => InOrder(Serve(q, p))
           /\ Serve(q, p).longest >= q.longest
  <1> DEFINE next == Serve(q, p)
             new == WorkerEntry(p, q.arrived + 1)
             longest == Max({q.longest, Len(q.heap) + 1})
  <1>1. /\ q \in QueueType /\ IsHeap(q.heap)
        /\ Len(q.heap) + Len(q.taken) = q.arrived
        /\ Arrivals(q.heap) \union Arrivals(q.taken) = 1..q.arrived
        /\ Len(q.heap) <= q.longest  BY DEF QueueInv
  <1>2. /\ q.arrived \in Nat /\ q.heap \in Seq(Entries)
        /\ q.taken \in Seq(Entries) /\ q.longest \in Nat
        /\ Len(q.heap) \in Nat /\ Len(q.taken) \in Nat  BY <1>1 DEF QueueType
  <1>3. next = [arrived |-> q.arrived + 1, heap |-> Emplace(q.heap, new),
                taken |-> q.taken, longest |-> longest]  BY DEF Serve
  <1>4. /\ new \in Entries /\ new.arrival = q.arrived + 1
        /\ new = [priority |-> p, arrival |-> q.arrived + 1]
    BY <1>2 DEF WorkerEntry, Entries
  <1>5. longest \in Nat /\ longest >= q.longest /\ longest >= Len(q.heap) + 1
    <2> DEFINE a == q.longest
               b == Len(q.heap) + 1
    <2>1. a \in Nat /\ b \in Nat  BY <1>2
    <2> HIDE DEF a, b
    <2>2. Max({a, b}) = IF a >= b THEN a ELSE b  BY <2>1, MaxOfTwo
    <2>3. Max({a, b}) \in Nat /\ Max({a, b}) >= a /\ Max({a, b}) >= b
      BY <2>1, <2>2
    <2> QED  BY <2>3 DEF a, b
  <1> HIDE DEF new, longest, next
  <1>6. /\ IsHeap(Emplace(q.heap, new))
        /\ Len(Emplace(q.heap, new)) = Len(q.heap) + 1
        /\ Held(Emplace(q.heap, new)) = Held(q.heap) \union {new}
    BY <1>1, <1>4, EmplaceIs
  <1>7. /\ next.arrived = q.arrived + 1 /\ next.heap = Emplace(q.heap, new)
        /\ next.taken = q.taken /\ next.longest = longest  BY <1>3
  <1>8. QueueInv(next)
    <2>1. next \in QueueType
      <3>1. Emplace(q.heap, new) \in Seq(Entries)  BY <1>6 DEF IsHeap
      <3> QED  BY <1>2, <1>3, <1>5, <3>1 DEF QueueType
    <2>2. Arrivals(next.heap) = Arrivals(q.heap) \union {q.arrived + 1}
      BY <1>4, <1>6, <1>7, ArrivalsOfHeld
    <2>3. 1..(q.arrived + 1) = (1..q.arrived) \union {q.arrived + 1}  BY <1>2
    <2>4. Arrivals(next.heap) \union Arrivals(next.taken) = 1..next.arrived
      BY <1>1, <1>7, <2>2, <2>3
    <2>5. Len(next.heap) + Len(next.taken) = next.arrived
      <3>1. (Len(q.heap) + 1) + Len(q.taken) = q.arrived + 1
        <4> DEFINE a == Len(q.heap)
                   b == Len(q.taken)
                   c == q.arrived
        <4>1. a \in Nat /\ b \in Nat /\ c \in Nat /\ a + b = c
          BY <1>1, <1>2, Zenon
        <4> HIDE DEF a, b, c
        <4>2. (a + 1) + b = c + 1  BY <4>1
        <4> QED  BY <4>2 DEF a, b, c
      <3> QED  BY <1>6, <1>7, <3>1, Zenon
    <2>6. Len(next.heap) <= next.longest  BY <1>5, <1>6, <1>7
    <2> QED  BY <1>6, <1>7, <2>1, <2>4, <2>5, <2>6 DEF QueueInv
  <1>9. ASSUME p = 1, InOrder(q) PROVE InOrder(next)
    <2> DEFINE h == q.heap
               n == Len(h)
               t == Len(q.taken)
    <2>1. /\ \A i \in 1..t : q.taken[i].arrival = i
          /\ \A i \in 1..n : h[i] = WorkerEntry(1, t + i)  BY <1>9 DEF InOrder
    <2>2. \A i \in 1..n : h[i].priority >= new.priority
      <3> TAKE i \in 1..n
      <3>1. h[i].priority = 1
        <4> HIDE DEF n, t
        <4>1. h[i] = [priority |-> 1, arrival |-> t + i]
          BY <2>1 DEF WorkerEntry
        <4> QED  BY <4>1
      <3>2. new.priority = 1  BY <1>4, <1>9
      <3> QED  BY <3>1, <3>2
    <2>3. next.heap = Append(h, new)  BY <1>2, <1>4, <1>7, <2>2, EmplaceEquals
    <2>4. /\ Len(next.heap) = n + 1 /\ next.heap[n + 1] = new
          /\ \A i \in 1..n : next.heap[i] = h[i]
      BY <1>2, <1>4, <2>3, AppendProperties
    <2>5. new = WorkerEntry(1, t + (n + 1))
      <3>1. q.arrived + 1 = t + (n + 1)
        <4> HIDE DEF n, t
        <4>1. n \in Nat /\ t \in Nat /\ q.arrived \in Nat /\ n + t = q.arrived
          BY <1>1, <1>2, Zenon DEF n, t
        <4> QED  BY <4>1
      <3> QED  BY <1>4, <1>9, <3>1 DEF WorkerEntry
    <2>6. \A i \in 1..(n + 1) : next.heap[i] = WorkerEntry(1, t + i)
      <3> TAKE i \in 1..(n + 1)
      <3>1. i \in 1..n \/ i = n + 1  BY <1>2
      <3> HIDE DEF n, t
      <3> QED  BY <2>1, <2>4, <2>5, <3>1
    <2> QED  BY <1>7, <2>1, <2>4, <2>6 DEF InOrder
  <1> QED  BY <1>5, <1>7, <1>8, <1>9 DEF next

LEMMA TakeStep ==
    ASSUME NEW q, QueueInv(q)
    PROVE  /\ QueueInv(Serve(q, 0))
           /\ (Len(q.heap) <= 3 /\ InOrder(q)) => InOrder(Serve(q, 0))
           /\ Serve(q, 0).longest = q.longest
  <1> DEFINE next == Serve(q, 0)
             first == Head(q.heap)
  <1>1. /\ q \in QueueType /\ IsHeap(q.heap)
        /\ Len(q.heap) + Len(q.taken) = q.arrived
        /\ Arrivals(q.heap) \union Arrivals(q.taken) = 1..q.arrived
        /\ Len(q.heap) <= q.longest  BY DEF QueueInv
  <1>2. /\ q.arrived \in Nat /\ q.heap \in Seq(Entries)
        /\ q.taken \in Seq(Entries) /\ q.longest \in Nat
        /\ Len(q.heap) \in Nat /\ Len(q.taken) \in Nat  BY <1>1 DEF QueueType
  <1>3. CASE q.heap = <<>>
    <2>1. next = q  BY <1>3 DEF Serve
    <2> QED  BY <1>1, <2>1
  <1>4. CASE q.heap # <<>>
    <2>1. next = [arrived |-> q.arrived, heap |-> Pop(q.heap),
                  taken |-> Append(q.taken, first), longest |-> q.longest]
      BY <1>4 DEF Serve
    <2>2. /\ first = q.heap[1] /\ Len(q.heap) >= 1 /\ 1 \in 1..Len(q.heap)
          /\ DOMAIN q.heap = 1..Len(q.heap)  BY <1>2, <1>4
    <2>3. first \in Entries  BY <1>2, <2>2, ElementOfSeq
    <2>4. /\ IsHeap(Pop(q.heap)) /\ Len(Pop(q.heap)) = Len(q.heap) - 1
          /\ Held(Pop(q.heap)) = HeldBut(q.heap, 1)  BY <1>1, <1>4, PopIs
    <2> HIDE DEF next, first
    <2>5. /\ next.arrived = q.arrived /\ next.heap = Pop(q.heap)
          /\ next.taken = Append(q.taken, first) /\ next.longest = q.longest
      BY <2>1
    <2>6. /\ next.taken \in Seq(Entries) /\ Len(next.taken) = Len(q.taken) + 1
          /\ next.taken[Len(q.taken) + 1] = first
          /\ \A i \in 1..Len(q.taken) : next.taken[i] = q.taken[i]
      BY <1>2, <2>3, <2>5, AppendProperties
    <2>7. QueueInv(next)
      <3>1. next \in QueueType
        <4>1. Pop(q.heap) \in Seq(Entries)  BY <2>4 DEF IsHeap
        <4> QED  BY <1>2, <2>1, <2>5, <2>6, <4>1 DEF QueueType
      <3>2. Held(q.heap) = HeldBut(q.heap, 1) \union {first}
        BY <2>2 DEF Held, HeldBut
      <3>3. Arrivals(q.heap) = Arrivals(next.heap) \union {first.arrival}
        BY <2>4, <2>5, <3>2, ArrivalsOfHeld
      <3>4. Arrivals(next.taken) = Arrivals(q.taken) \union {first.arrival}
        BY <1>2, <2>3, <2>5, ArrivalsAppend
      <3>5. Arrivals(next.heap) \union Arrivals(next.taken) = 1..next.arrived
        BY <1>1, <2>5, <3>3, <3>4
      <3>6. Len(next.heap) + Len(next.taken) = next.arrived
        <4> DEFINE a == Len(q.heap)
                   b == Len(q.taken)
                   c == q.arrived
        <4>0. a \in Nat /\ b \in Nat /\ c \in Nat /\ a + b = c
          BY <1>1, <1>2, Zenon
        <4>1. (a - 1) + (b + 1) = c
          <5> HIDE DEF a, b, c
          <5> QED  BY <4>0
        <4> QED  BY <2>4, <2>5, <2>6, <4>1, Zenon
      <3>7. Len(next.heap) <= next.longest  BY <1>1, <1>2, <2>4, <2>5
      <3> QED  BY <2>4, <2>5, <3>1, <3>5, <3>6, <3>7 DEF QueueInv
    <2>8. ASSUME Len(q.heap) <= 3, InOrder(q) PROVE InOrder(next)
      <3> DEFINE h == q.heap
                 n == Len(h)
                 t == Len(q.taken)
      <3>1. /\ \A i \in 1..t : q.taken[i].arrival = i
            /\ \A i \in 1..n : h[i] = WorkerEntry(1, t + i)
        BY <2>8 DEF InOrder
      <3>2. n \in 1..3 /\ t \in Nat
        <4>1. n \in Nat /\ n >= 1 /\ n <= 3 /\ t \in Nat  BY <1>2, <2>2, <2>8
        <4> HIDE DEF n, t
        <4> QED  BY <4>1
      <3>3. \A i \in 1..n : h[i].priority = 1
        <4> TAKE i \in 1..n
        <4> HIDE DEF n, t
        <4>1. h[i] = [priority |-> 1, arrival |-> t + i]
          BY <3>1 DEF WorkerEntry
        <4> QED  BY <4>1
      <3>4. \A i \in 1..(n - 1) : Pop(h)[i] = h[i + 1]
        BY <1>2, <3>2, <3>3, PopEquals
      <3>5. \A i \in 1..(n - 1) : next.heap[i] = WorkerEntry(1, (t + 1) + i)
        <4> TAKE i \in 1..(n - 1)
        <4> HIDE DEF n, t
        <4>1. i + 1 \in 1..n /\ t + (i + 1) = (t + 1) + i  BY <3>2
        <4>2. Pop(h)[i] = h[i + 1]  BY <3>4
        <4>3. h[i + 1] = WorkerEntry(1, t + (i + 1))  BY <3>1, <4>1
        <4> QED  BY <2>5, <4>1, <4>2, <4>3
      <3>6. \A i \in 1..(t + 1) : next.taken[i].arrival = i
        <4> TAKE i \in 1..(t + 1)
        <4>1. i \in 1..t \/ i = t + 1  BY <3>2
        <4>2. first.arrival = t + 1
          <5>1. first = WorkerEntry(1, t + 1)  BY <2>2, <3>1
          <5> QED  BY <5>1 DEF WorkerEntry
        <4> HIDE DEF n
        <4> QED  BY <2>6, <3>1, <4>1, <4>2
      <3> QED  BY <2>4, <2>5, <2>6, <3>5, <3>6 DEF InOrder
    <2> QED  BY <2>5, <2>7, <2>8 DEF next
  <1> QED  BY <1>3, <1>4

(* The queue after any sequence of emplace and pop.                        *)
LEMMA AfterServing ==
    ASSUME NEW ops \in Seq(Nat)
    PROVE  /\ QueueInv(HeapAfter(ops))
           /\ (/\ \A i \in 1..Len(ops) : ops[i] \in {0, 1}
               /\ HeapAfter(ops).longest <= 3) => InOrder(HeapAfter(ops))
  <1> DEFINE n == Len(ops)
             base == [arrived |-> 0, heap |-> <<>>, taken |-> <<>>,
                      longest |-> 0]
             q(m) == After(<<"Serve">>, base, ops, m)
             fifo(m) == (/\ \A i \in 1..m : ops[i] \in {0, 1}
                         /\ q(m).longest <= 3) => InOrder(q(m))
             S == {m \in 0..n : QueueInv(q(m)) /\ fifo(m)}
  <1>1. n \in Nat /\ DOMAIN ops = 1..n  OBVIOUS
  <1>2. 0 \in S
    <2>1. q(0) = base  BY AfterNone
    <2>2. QueueInv(base)
      <3>1. base \in QueueType  BY DEF QueueType
      <3>2. Arrivals(<<>>) = {}  BY DEF Arrivals
      <3>3. IsHeap(<<>>)  BY DEF IsHeap
      <3> QED  BY <3>1, <3>2, <3>3 DEF QueueInv
    <2>3. InOrder(base)  BY DEF InOrder
    <2>4. 0 \in 0..n  BY <1>1
    <2> HIDE DEF base, q
    <2> QED  BY <2>1, <2>2, <2>3, <2>4
  <1>3. ASSUME NEW m \in 0..(n - 1), m \in S PROVE m + 1 \in S
    <2>1. m \in Nat /\ m + 1 \in 0..n /\ m + 1 \in 1..n  BY <1>1
    <2>2. q(m + 1) = Serve(q(m), ops[m + 1])
      <3>1. q(m + 1) = Turn(<<"Serve">>, q(m), ops[m + 1])  BY <2>1, AfterNext
      <3> QED  BY <3>1 DEF Turn
    <2> DEFINE p == ops[m + 1]
               now == q(m)
    <2>3. p \in Nat  BY <1>1, <2>1, ElementOfSeq
    <2>4. /\ QueueInv(now)
          /\ (/\ \A i \in 1..m : ops[i] \in {0, 1}
              /\ now.longest <= 3) => InOrder(now)  BY <1>3
    <2>5. ASSUME \A i \in 1..(m + 1) : ops[i] \in {0, 1}
          PROVE  p \in {0, 1} /\ \A i \in 1..m : ops[i] \in {0, 1}
      BY <2>1, <2>5
    <2> HIDE DEF q, now, p
    <2>6. /\ now.longest \in Nat /\ Len(now.heap) \in Nat
          /\ Len(now.heap) <= now.longest
      <3>1. now.longest \in Nat /\ now.heap \in Seq(Entries)
        BY <2>4 DEF QueueInv, QueueType
      <3> QED  BY <2>4, <3>1 DEF QueueInv
    <2>7. CASE p = 0
      <3>1. /\ QueueInv(Serve(now, 0))
            /\ (Len(now.heap) <= 3 /\ InOrder(now)) => InOrder(Serve(now, 0))
            /\ Serve(now, 0).longest = now.longest  BY <2>4, TakeStep
      <3>2. now.longest <= 3 => Len(now.heap) <= 3  BY <2>6
      <3>3. q(m + 1) = Serve(now, 0)  BY <2>2, <2>7 DEF now, p
      <3> QED  BY <2>1, <2>4, <2>5, <3>1, <3>2, <3>3
    <2>8. CASE p > 0
      <3>1. /\ QueueInv(Serve(now, p))
            /\ (p = 1 /\ InOrder(now)) => InOrder(Serve(now, p))
            /\ Serve(now, p).longest >= now.longest
        BY <2>3, <2>4, <2>8, ArrivalStep
      <3>2. q(m + 1) = Serve(now, p)  BY <2>2 DEF now, p
      <3>3. Serve(now, p).longest \in Nat  BY <3>1 DEF QueueInv, QueueType
      <3>4. Serve(now, p).longest <= 3 => now.longest <= 3  BY <2>6, <3>1, <3>3
      <3>5. p \in {0, 1} => p = 1  BY <2>8
      <3> QED  BY <2>1, <2>4, <2>5, <3>1, <3>2, <3>4, <3>5
    <2> QED  BY <2>3, <2>7, <2>8
  <1> HIDE DEF S
  <1>4. 0..n \subseteq S
    <2> HIDE DEF n
    <2> QED  BY <1>1, <1>2, <1>3, SetInductionUpTo
  <1>5. n \in S  BY <1>1, <1>4
  <1>6. HeapAfter(ops) = q(n)
    <2>1. HeapAfter(ops) = FoldLeft(Serve, base, ops)  BY Zenon DEF HeapAfter
    <2>2. FoldLeft(Serve, base, ops) = q(n)  BY <1>1, ServeLoop
    <2> QED  BY <2>1, <2>2
  <1> QED  BY <1>5, <1>6 DEF S

(* After any sequence of arrivals and takes, of any priorities, the entry  *)
(* in front is a greatest one, a new one passes smaller ones only, no      *)
(* client is lost or taken twice, and in mode 0 clients are taken in order *)
(* while no more than three have waited at once (server.cpp 39, 71, 372).  *)
THEOREM HeapServesDispatch == Spec => []HeapIsDispatchQueue
  <1>1. InputType => HeapIsDispatchQueue
    <2> SUFFICES ASSUME InputType, kind = "queue" PROVE HeapIsDispatchQueue
      BY Zenon DEF HeapIsDispatchQueue
    <2> DEFINE q == HeapAfter(input)
               h == q.heap
    <2>1. input \in Seq(Nat) /\ Inputs["queue"] \subseteq Nat
      <3>1. Inputs["queue"] \subseteq Nat  BY QueueAssumption DEF InputType
      <3>2. input \in Seq(Inputs["queue"])  BY DEF InputType
      <3> QED  BY <3>1, <3>2
    <2>2. /\ QueueInv(q)
          /\ (/\ \A i \in 1..Len(input) : input[i] \in {0, 1}
              /\ q.longest <= 3) => InOrder(q)  BY <2>1, AfterServing
    <2>3. DOMAIN input = 1..Len(input)  BY <2>1
    <2> HIDE DEF q
    <2>4. /\ IsHeap(h) /\ h \in Seq(Entries) /\ q.taken \in Seq(Entries)
          /\ q.arrived \in Nat  BY <2>2 DEF QueueInv, QueueType
    <2>5. ASSUME NEW g, IsHeap(g)
          PROVE  \A i \in DOMAIN g : g[i].priority <= g[1].priority
      <3> TAKE i \in DOMAIN g
      <3>1. g \in Seq(Entries) /\ i \in 1..Len(g) /\ 1 \in 1..Len(g)
        BY <2>5 DEF IsHeap
      <3>2. g[1].priority >= g[i].priority  BY <2>5, <3>1, FirstIsMaximal
      <3>3. g[1] \in Entries /\ g[i] \in Entries  BY <3>1, ElementOfSeq
      <3> QED  BY <3>2, <3>3 DEF Entries
    <2>6. h # <<>> => IsHeap(Pop(h))  BY <2>4, PopIs
    <2>7. ASSUME NEW p \in Inputs["queue"] \ {0}
          PROVE  Head(Emplace(h, WorkerEntry(p, q.arrived + 1))) =
                    IF h # <<>> /\ h[1].priority >= p THEN h[1]
                    ELSE WorkerEntry(p, q.arrived + 1)
      <3> DEFINE new == WorkerEntry(p, q.arrived + 1)
      <3>1. new \in Entries /\ new.priority = p
        BY <2>1, <2>4 DEF WorkerEntry, Entries
      <3> HIDE DEF new, h
      <3>2. /\ IsHeap(Emplace(h, new)) /\ Len(Emplace(h, new)) = Len(h) + 1
            /\ Emplace(h, new)[1] =
                  IF h # <<>> /\ h[1].priority >= new.priority
                  THEN h[1] ELSE new  BY <2>4, <3>1, EmplaceIs
      <3>3. Head(Emplace(h, new)) = Emplace(h, new)[1]
        <4>1. Emplace(h, new) \in Seq(Entries)  BY <3>2 DEF IsHeap
        <4>2. Emplace(h, new) # <<>>  BY <2>4, <3>2
        <4> QED  BY <4>1, <4>2
      <3> QED  BY <3>1, <3>2, <3>3 DEF new
    <2>8. /\ Len(h) + Len(q.taken) = q.arrived
          /\ Arrivals(h) \union Arrivals(q.taken) = 1..q.arrived
      BY <2>2 DEF QueueInv
    <2>9. ((\A i \in DOMAIN input : input[i] \in {0, 1}) /\ q.longest <= 3) =>
             \A i \in DOMAIN q.taken : q.taken[i].arrival = i
      BY <2>2, <2>3, <2>4 DEF InOrder
    <2> HIDE DEF h
    <2>10. \A i \in DOMAIN h : h[i].priority <= h[1].priority  BY <2>4, <2>5
    <2>11. h # <<>> => \A i \in DOMAIN Pop(h) :
                          Pop(h)[i].priority <= Pop(h)[1].priority
      BY <2>5, <2>6
    <2> QED  BY <2>7, <2>8, <2>9, <2>10, <2>11, Zenon
             DEF HeapIsDispatchQueue, Arrivals, q, h
  <1> QED  BY <1>1, InputInvariance, PTL

----
(* Averages.                                                               *)
LEMMA PlusLoop ==
    ASSUME NEW base, NEW seq, NEW n \in Nat, DOMAIN seq = 1..n
    PROVE  FoldLeft(+, base, seq) = After(<<"Plus">>, base, seq, n)
  <1>1. \A f, x : f + x = Turn(<<"Plus">>, f, x)  BY DEF Turn
  <1>2. \E g : LoopEq(<<"Plus">>, base, seq, n, g)  BY LoopExists
  <1>3. \E g : /\ LoopEq(<<"Plus">>, base, seq, n, g)
               /\ FoldLeft(+, base, seq) = g[1..n]
    BY <1>1, <1>2, Zenon DEF FoldLeft, MapThenFoldSet, LoopEq
  <1> QED  BY <1>3, LoopIs

LEMMA TotalBetween ==
    ASSUME NEW n \in Nat, NEW f, NEW low \in Int, NEW high \in Int,
           Between(f, n, low, high)
    PROVE  /\ Total(f, n) \in Int
           /\ n * low <= Total(f, n)
           /\ Total(f, n) <= n * high
  <1> DEFINE t(m) == Total(f, m)
             S == {m \in 0..n : /\ t(m) \in Int
                                /\ m * low <= t(m) /\ t(m) <= m * high}
  <1>1. 0 \in S
    <2>1. t(0) = 0  BY AfterNone DEF Total
    <2> HIDE DEF t
    <2> QED  BY <2>1
  <1>2. ASSUME NEW m \in 0..(n - 1), m \in S PROVE m + 1 \in S
    <2>1. m \in Nat /\ m + 1 \in 0..n /\ m + 1 \in 1..n  OBVIOUS
    <2>2. t(m + 1) = t(m) + f[m + 1]
      <3>1. t(m + 1) = Turn(<<"Plus">>, t(m), f[m + 1])
        BY <2>1, AfterNext DEF Total
      <3> QED  BY <3>1 DEF Turn
    <2> DEFINE x == f[m + 1]
               sum == t(m)
    <2>3. x \in Int /\ low <= x /\ x <= high  BY <2>1 DEF Between
    <2>4. sum \in Int /\ m * low <= sum /\ sum <= m * high  BY <1>2
    <2>5. (m + 1) * low = m * low + low /\ (m + 1) * high = m * high + high
      BY <2>1
    <2>6. m * low \in Int /\ m * high \in Int  BY <2>1
    <2> DEFINE p == m * low
               q == m * high
    <2> HIDE DEF x, sum, p, q, t
    <2>7. p + low <= sum + x /\ sum + x <= q + high /\ sum + x \in Int
      BY <2>3, <2>4, <2>6 DEF p, q
    <2> QED  BY <2>1, <2>2, <2>5, <2>7 DEF p, q, x, sum
  <1> HIDE DEF S
  <1>3. 0..n \subseteq S  BY <1>1, <1>2, SetInductionUpTo
  <1>4. n \in S  BY <1>3
  <1> QED  BY <1>4 DEF S

(* Division, rounded towards zero.                                         *)
LEMMA Division ==
    ASSUME NEW a \in Nat, NEW n \in Nat, n > 0
    PROVE  /\ a \div n \in Nat
           /\ n * (a \div n) <= a
           /\ a < n * (a \div n) + n  OBVIOUS

LEMMA Monotone ==
    ASSUME NEW a \in Int, NEW b \in Int, NEW n \in Nat, a >= b
    PROVE  n * a >= n * b
  OBVIOUS

LEMMA Cancel ==
    ASSUME NEW a \in Int, NEW b \in Int, NEW n \in Nat, n > 0,
           n * a < n * b + n
    PROVE  a <= b
  <1> SUFFICES ASSUME a >= b + 1 PROVE FALSE  OBVIOUS
  <1>1. n * a >= n * (b + 1)  BY Monotone
  <1>2. n * (b + 1) = n * b + n  OBVIOUS
  <1> QED  BY <1>1, <1>2

LEMMA QuotientIs ==
    ASSUME NEW a \in Int, NEW n \in Nat, n > 0
    PROVE  /\ Quotient(a, n) \in Int
           /\ -n < a - n * Quotient(a, n)
           /\ a - n * Quotient(a, n) < n
           /\ \A low \in Int : n * low <= a => low <= Quotient(a, n)
           /\ \A high \in Int : a <= n * high => Quotient(a, n) <= high
  <1> DEFINE q == Quotient(a, n)
  <1>1. CASE a >= 0
    <2>1. a \in Nat /\ q = a \div n  BY <1>1 DEF Quotient
    <2> HIDE DEF q
    <2>2. q \in Nat /\ n * q <= a /\ a < n * q + n  BY <2>1, Division
    <2> DEFINE p == n * q
    <2>3. p \in Int  BY <2>2
    <2>4. ASSUME NEW low \in Int, n * low <= a PROVE low <= q
      <3>1. n * low < n * q + n
        <4>1. n * low \in Int  OBVIOUS
        <4> DEFINE l == n * low
        <4> HIDE DEF p, l
        <4>2. l < p + n  BY <2>2, <2>3, <2>4, <4>1 DEF p, l
        <4> QED  BY <4>2 DEF p, l
      <3> QED  BY <2>2, <3>1, Cancel
    <2>5. ASSUME NEW high \in Int, a <= n * high PROVE q <= high
      <3>1. n * q < n * high + n
        <4>1. n * high \in Int  OBVIOUS
        <4> DEFINE l == n * high
        <4> HIDE DEF p, l
        <4>2. p < l + n  BY <2>2, <2>3, <2>5, <4>1 DEF p, l
        <4> QED  BY <4>2 DEF p, l
      <3> QED  BY <2>2, <3>1, Cancel
    <2>6. -n < a - p /\ a - p < n
      <3> HIDE DEF p
      <3> QED  BY <2>2, <2>3 DEF p
    <2> QED  BY <2>2, <2>4, <2>5, <2>6 DEF q
  <1>2. CASE ~(a >= 0)
    <2> DEFINE b == -a
               r == b \div n
    <2>1. b \in Nat /\ a = -b  BY <1>2
    <2>2. q = -r  BY <1>2 DEF Quotient
    <2> HIDE DEF b, q
    <2>3. r \in Nat /\ n * r <= b /\ b < n * r + n  BY <2>1, Division
    <2> HIDE DEF r
    <2> DEFINE p == n * r
    <2>4. p \in Int /\ n * q = -p /\ q \in Int  BY <2>2, <2>3
    <2>5. ASSUME NEW low \in Int, n * low <= a PROVE low <= q
      <3>1. n * low < n * q + n
        <4>1. n * low \in Int /\ n * q \in Int  BY <2>4
        <4> DEFINE l == n * low
                   m == n * q
        <4> HIDE DEF p, l, m
        <4>2. l < m + n  BY <2>1, <2>3, <2>4, <2>5, <4>1 DEF p, l, m
        <4> QED  BY <4>2 DEF l, m
      <3> QED  BY <2>4, <3>1, Cancel
    <2>6. ASSUME NEW high \in Int, a <= n * high PROVE q <= high
      <3>1. n * q < n * high + n
        <4>1. n * high \in Int /\ n * q \in Int  BY <2>4
        <4> DEFINE l == n * high
                   m == n * q
        <4> HIDE DEF p, l, m
        <4>2. m < l + n  BY <2>1, <2>3, <2>4, <2>6, <4>1 DEF p, l, m
        <4> QED  BY <4>2 DEF l, m
      <3> QED  BY <2>4, <3>1, Cancel
    <2>7. -n < a - n * q /\ a - n * q < n
      <3> HIDE DEF p
      <3> QED  BY <2>1, <2>3, <2>4 DEF p
    <2> QED  BY <2>4, <2>5, <2>6, <2>7 DEF q
  <1> QED  BY <1>1, <1>2

(* A function on 1..n has a smallest and a greatest value.                 *)
LEMMA ExtremesExist ==
    ASSUME NEW n \in Nat, n > 0, NEW f, Numbers(f, n)
    PROVE  \E i, j \in 1..n : \A k \in 1..n : f[i] <= f[k] /\ f[k] <= f[j]
  <1> DEFINE S == {m \in 0..n : m > 0 => \E i, j \in 1..m :
                      \A k \in 1..m : f[i] <= f[k] /\ f[k] <= f[j]}
  <1>1. 0 \in S  OBVIOUS
  <1>2. ASSUME NEW m \in 0..(n - 1), m \in S PROVE m + 1 \in S
    <2>1. /\ m \in Nat /\ m + 1 \in 0..n /\ m + 1 \in 1..(m + 1)
          /\ 1..(m + 1) = (1..m) \union {m + 1} /\ 1..(m + 1) \subseteq 1..n
      OBVIOUS
    <2>2. \A k \in 1..(m + 1) : f[k] \in Int  BY <2>1 DEF Numbers
    <2>3. CASE m = 0
      <3>1. \A k \in 1..(m + 1) : k = m + 1  BY <2>3
      <3>2. \A k \in 1..(m + 1) : f[m + 1] <= f[k] /\ f[k] <= f[m + 1]
        BY <2>2, <3>1
      <3> QED  BY <2>1, <3>2
    <2>4. CASE m > 0
      <3>1. PICK i, j \in 1..m : \A k \in 1..m : f[i] <= f[k] /\ f[k] <= f[j]
        BY <1>2, <2>4
      <3> DEFINE l == m + 1
                 a == IF f[l] <= f[i] THEN l ELSE i
                 b == IF f[j] <= f[l] THEN l ELSE j
      <3>2. i \in 1..l /\ j \in 1..l /\ l \in 1..l  BY <2>1
      <3>3. ASSUME NEW k \in 1..l PROVE f[a] <= f[k] /\ f[k] <= f[b]
        <4>1. f[k] \in Int /\ f[i] \in Int /\ f[j] \in Int /\ f[l] \in Int
          BY <2>2, <3>2
        <4>2. k = l \/ (f[i] <= f[k] /\ f[k] <= f[j])  BY <2>1, <3>1
        <4> HIDE DEF l
        <4> QED  BY <4>1, <4>2
      <3>4. a \in 1..l /\ b \in 1..l  BY <3>2
      <3> HIDE DEF a, b
      <3> QED  BY <2>1, <3>3, <3>4
    <2> QED  BY <2>1, <2>3, <2>4
  <1> HIDE DEF S
  <1>3. 0..n \subseteq S  BY <1>1, <1>2, SetInductionUpTo
  <1>4. n \in S  BY <1>3
  <1> QED  BY <1>4 DEF S

(* For any reception times of any batch, the average is between the        *)
(* smallest and the greatest distance from the first, and the same when    *)
(* the batch comes later (logger.cpp 15-25).                               *)
THEOREM AveragesAreBounded == Spec => []AverageOfBatch
  <1>1. InputType => AverageOfBatch
    <2> SUFFICES ASSUME InputType, kind = "times", input # <<>>
                 PROVE  AverageOfBatch
      BY Zenon DEF AverageOfBatch
    <2> DEFINE n == Len(input)
               distance == [i \in 1..n |-> input[i] - input[1]]
               distances == {input[i] - input[1] : i \in DOMAIN input}
               average == GetVectorAverage(input)
               later == [i \in DOMAIN input |-> input[i] + 1]
               sum == Total(distance, n)
    <2>1. /\ input \in Seq(Int) /\ n \in Nat /\ n > 0 /\ DOMAIN input = 1..n
          /\ \A i \in 1..n : input[i] \in Int
      <3>1. Inputs["times"] \subseteq Int  BY TimesAssumption DEF InputType
      <3>2. input \in Seq(Inputs["times"])  BY DEF InputType
      <3>3. input \in Seq(Int)  BY <3>1, <3>2
      <3> QED  BY <3>3
    <2>2. 1 \in 1..n /\ DOMAIN distance = 1..n /\ Numbers(distance, n)
          /\ distances = {distance[k] : k \in 1..n}  BY <2>1 DEF Numbers
    <2>3. FoldLeft(+, 0, distance) = sum
      <3> HIDE DEF distance, n
      <3> QED  BY <2>1, <2>2, PlusLoop DEF Total
    <2>4. average = Quotient(sum, n)
      <3>1. average = Quotient(FoldLeft(+, 0, distance), n)
        BY Zenon DEF GetVectorAverage
      <3> QED  BY <2>3, <3>1, Zenon
    <2>5. GetVectorAverage(later) = average
      <3>1. DOMAIN later = 1..n /\ later # <<>> /\ Len(later) = n  BY <2>1
      <3>2. [i \in 1..n |-> later[i] - later[1]] = distance  BY <2>1, <2>2
      <3> HIDE DEF later, n, distance
      <3>3. GetVectorAverage(later) =
               Quotient(FoldLeft(+, 0, [i \in 1..n |-> later[i] - later[1]]), n)
        BY <3>1, Zenon DEF GetVectorAverage
      <3> QED  BY <2>3, <2>4, <3>2, <3>3, Zenon
    <2> HIDE DEF distance, n, average, later, distances
    <2>6. PICK i, j \in 1..n : \A k \in 1..n :
             distance[i] <= distance[k] /\ distance[k] <= distance[j]
      BY <2>1, <2>2, ExtremesExist
    <2> DEFINE low == distance[i]
               high == distance[j]
    <2>7. low \in Int /\ high \in Int /\ Between(distance, n, low, high)
      BY <2>2, <2>6 DEF Numbers, Between
    <2>8. Min(distances) = low /\ Max(distances) = high
      <3>1. low \in distances /\ high \in distances  BY <2>2
      <3>2. ASSUME NEW x \in distances
            PROVE  /\ (\A y \in distances : x <= y) <=> x = low
                   /\ (\A y \in distances : x >= y) <=> x = high
        <4>1. \A y \in distances : y \in Int /\ low <= y /\ y <= high
          BY <2>2, <2>7 DEF Between
        <4> HIDE DEF low, high
        <4> QED  BY <3>1, <4>1
      <3> HIDE DEF low, high
      <3> QED  BY <3>1, <3>2 DEF Min, Max
    <2> HIDE DEF low, high
    <2>9. sum \in Int /\ n * low <= sum /\ sum <= n * high
      BY <2>1, <2>7, TotalBetween
    <2> HIDE DEF sum
    <2>10. low <= average /\ average <= high
      BY <2>1, <2>4, <2>7, <2>9, QuotientIs
    <2> QED  BY <2>5, <2>8, <2>10, Zenon
             DEF AverageOfBatch, distances, average, later
  <1> QED  BY <1>1, InputInvariance, PTL

----
(* The arguments of the server.                                            *)
LEMMA CreateHashMapLoop ==
    ASSUME NEW base, NEW seq, NEW n \in Nat, DOMAIN seq = 1..n
    PROVE  FoldLeft(CreateHashMap, base, seq) = After(<<"CreateHashMap">>, base, seq, n)
  <1>1. \A f, x : CreateHashMap(f, x) = Turn(<<"CreateHashMap">>, f, x)
    BY DEF Turn
  <1>2. \E g : LoopEq(<<"CreateHashMap">>, base, seq, n, g)  BY LoopExists
  <1>3. \E g : /\ LoopEq(<<"CreateHashMap">>, base, seq, n, g)
               /\ FoldLeft(CreateHashMap, base, seq) = g[1..n]
    BY <1>1, <1>2, Zenon DEF FoldLeft, MapThenFoldSet, LoopEq
  <1> QED  BY <1>3, LoopIs

LEMMA MaxEquals ==
    ASSUME NEW n \in Nat, NEW s, s \subseteq 1..n, NEW x \in s,
           \A y \in s : x >= y
    PROVE  Max(s) = x
  <1>1. /\ Max(s) \in s
        /\ \A y \in s : Max(s) >= y  BY MaxIsIn
  <1>2. Max(s) \in 1..n /\ x \in 1..n /\ x >= Max(s) /\ Max(s) >= x  BY <1>1
  <1> QED  BY <1>2

LEMMA KeysNext ==
    ASSUME NEW args, NEW m \in Nat, NEW k
    PROVE  /\ k = args[m + 1].key => AtKey(args, m + 1, k) = AtKey(args, m, k) \union {m + 1}
           /\ k # args[m + 1].key => AtKey(args, m + 1, k) = AtKey(args, m, k)
           /\ KeysOf(args, m + 1) = (KeysOf(args, m) \union {args[m + 1].key}) \ {NoDelimiter}
  <1>1. 1..(m + 1) = (1..m) \union {m + 1}  OBVIOUS
  <1> QED  BY <1>1 DEF AtKey, KeysOf

LEMMA ParsedSoFar ==
    ASSUME NEW args, NEW n \in Nat
    PROVE  After(<<"CreateHashMap">>, <<>>, args, n) = LastGiven(args, n)
  <1> DEFINE now(m) == After(<<"CreateHashMap">>, <<>>, args, m)
             S == {m \in 0..n : now(m) = LastGiven(args, m)}
  <1>1. 0 \in S
    <2>1. now(0) = <<>>  BY AfterNone
    <2>2. KeysOf(args, 0) = {}  BY DEF KeysOf
    <2>3. LastGiven(args, 0) = <<>>  BY <2>2 DEF LastGiven
    <2> QED  BY <2>1, <2>3
  <1>2. ASSUME NEW m \in 0..(n - 1), m \in S PROVE m + 1 \in S
    <2> DEFINE key == args[m + 1].key
               map == LastGiven(args, m)
               next == LastGiven(args, m + 1)
    <2>1. m \in Nat /\ m + 1 \in 0..n  OBVIOUS
    <2>2. now(m + 1) = Turn(<<"CreateHashMap">>, now(m), args[m + 1])
      BY <2>1, AfterNext
    <2>3. now(m + 1) = CreateHashMap(map, args[m + 1])  BY <1>2, <2>2 DEF Turn
    <2>4. \A k : /\ k = key => AtKey(args, m + 1, k) = AtKey(args, m, k) \union {m + 1}
                 /\ k # key => AtKey(args, m + 1, k) = AtKey(args, m, k)
      BY <2>1, KeysNext
    <2>5. KeysOf(args, m + 1) = (KeysOf(args, m) \union {key}) \ {NoDelimiter}
      BY <2>1, KeysNext
    <2>6. CASE key = NoDelimiter
      <3>1. now(m + 1) = map  BY <2>3, <2>6 DEF CreateHashMap
      <3>2. KeysOf(args, m + 1) = KeysOf(args, m)  BY <2>5, <2>6 DEF KeysOf
      <3>3. \A k \in KeysOf(args, m) : AtKey(args, m + 1, k) = AtKey(args, m, k)
        BY <2>4, <2>6 DEF KeysOf
      <3>4. next = map  BY <3>2, <3>3 DEF LastGiven
      <3> QED  BY <3>1, <3>4, <2>1
    <2>7. CASE key # NoDelimiter
      <3>1. KeysOf(args, m + 1) = {key} \union KeysOf(args, m)
        BY <2>5, <2>7 DEF KeysOf
      <3>2. Max(AtKey(args, m + 1, key)) = m + 1
        <4> DEFINE s == AtKey(args, m + 1, key)
        <4>1. s \subseteq 1..(m + 1) /\ m + 1 \in s /\ m + 1 \in Nat
          BY <2>1 DEF AtKey
        <4>2. \A y \in s : m + 1 >= y  BY <4>1
        <4> DEFINE l == m + 1
        <4> HIDE DEF s
        <4>3. l \in Nat /\ s \subseteq 1..l /\ l \in s /\ \A y \in s : l >= y
          BY <4>1, <4>2
        <4> HIDE DEF l
        <4>4. Max(s) = l  BY <4>3, MaxEquals
        <4> QED  BY <4>4 DEF s, l
      <3>3. DOMAIN map = KeysOf(args, m)  BY DEF LastGiven
      <3>4. now(m + 1) = [k \in KeysOf(args, m) \union {key} |->
                            IF k = key THEN args[m + 1].value ELSE map[k]]
        BY <2>3, <2>7, <3>3 DEF CreateHashMap, Put
      <3>5. ASSUME NEW k \in KeysOf(args, m + 1)
            PROVE  args[Max(AtKey(args, m + 1, k))].value =
                      IF k = key THEN args[m + 1].value ELSE map[k]
        <4>1. CASE k = key  BY <4>1, <3>2
        <4>2. CASE k # key
          <5>1. k \in KeysOf(args, m)  BY <4>2, <3>1
          <5>2. map[k] = args[Max(AtKey(args, m, k))].value
            BY <5>1 DEF LastGiven
          <5> QED  BY <5>2, <4>2, <2>4
        <4> QED  BY <4>1, <4>2
      <3>6. next = [k \in KeysOf(args, m + 1) |->
                      args[Max(AtKey(args, m + 1, k))].value]  BY DEF LastGiven
      <3> HIDE DEF map, next, key, now
      <3>7. next = [k \in KeysOf(args, m + 1) |->
                      IF k = key THEN args[m + 1].value ELSE map[k]]
        BY <3>5, <3>6
      <3>8. now(m + 1) = next  BY <3>1, <3>4, <3>7
      <3> QED  BY <3>8, <2>1 DEF next
    <2> QED  BY <2>6, <2>7
  <1> HIDE DEF S
  <1>3. 0..n \subseteq S  BY <1>1, <1>2, SetInductionUpTo
  <1> QED  BY <1>3 DEF S

LEMMA ParsedIs ==
    ASSUME NEW S, NEW args \in Seq(S)
    PROVE  Parsed(args) = LastGiven(args, Len(args))
  <1>1. Len(args) \in Nat /\ DOMAIN args = 1..Len(args)  OBVIOUS
  <1>2. Parsed(args) = FoldLeft(CreateHashMap, <<>>, args)  BY DEF Parsed
  <1>3. FoldLeft(CreateHashMap, <<>>, args) =
           After(<<"CreateHashMap">>, <<>>, args, Len(args))
    BY <1>1, CreateHashMapLoop
  <1> QED  BY <1>1, <1>2, <1>3, ParsedSoFar

LEMMA ExchangedIs ==
    ASSUME NEW S, NEW args \in Seq(S), NEW i \in 1..(Len(args) - 1)
    PROVE  LET other == Exchanged(args, i)
           IN  /\ other \in Seq(S)
               /\ Len(other) = Len(args)
               /\ other[i] = args[i + 1] /\ other[i + 1] = args[i]
               /\ \A j \in 1..Len(args) : j \notin {i, i + 1} => other[j] = args[j]
  <1> DEFINE n == Len(args)
             one == [args EXCEPT ![i] = args[i + 1]]
             other == [one EXCEPT ![i + 1] = args[i]]
  <1>1. Exchanged(args, i) = other  BY DEF Exchanged
  <1>2. /\ n \in Nat /\ DOMAIN args = 1..n /\ i \in 1..n /\ i + 1 \in 1..n /\ i # i + 1
        /\ \A j \in 1..n : args[j] \in S  OBVIOUS
  <1>3. one \in Seq(S) /\ DOMAIN one = 1..n /\ one[i] = args[i + 1]
        /\ \A j \in 1..n : j # i => one[j] = args[j]  BY <1>2
  <1>4. Len(one) = n  BY <1>3, <1>2
  <1> HIDE DEF one, n
  <1>5. other \in Seq(S) /\ DOMAIN other = 1..n /\ other[i + 1] = args[i]
        /\ \A j \in 1..n : j # i + 1 => other[j] = one[j]  BY <1>2, <1>3
  <1>6. Len(other) = n  BY <1>5, <1>2
  <1>7. other[i] = args[i + 1]  BY <1>2, <1>3, <1>5
  <1>8. \A j \in 1..n : j \notin {i, i + 1} => other[j] = args[j]
    BY <1>2, <1>3, <1>5
  <1> HIDE DEF other
  <1> QED  BY <1>1, <1>5, <1>6, <1>7, <1>8 DEF n

(* The argument that gives a key last, before and after the exchange.      *)
LEMMA LastOfExchanged ==
    ASSUME NEW n \in Nat, NEW args, NEW other, NEW i \in 1..(n - 1),
           other[i] = args[i + 1], other[i + 1] = args[i],
           \A j \in 1..n : j \notin {i, i + 1} => other[j] = args[j],
           args[i].key # args[i + 1].key,
           NEW k, AtKey(args, n, k) # {}
    PROVE  other[Max(AtKey(other, n, k))] = args[Max(AtKey(args, n, k))]
  <1> DEFINE s == AtKey(args, n, k)
             t == AtKey(other, n, k)
             m == Max(s)
             o == IF m = i THEN i + 1 ELSE IF m = i + 1 THEN i ELSE m
  <1>1. \A j : j \in s <=> j \in 1..n /\ args[j].key = k  BY DEF AtKey
  <1>2. \A j : j \in t <=> j \in 1..n /\ other[j].key = k  BY DEF AtKey
  <1> HIDE DEF s, t
  <1>3. m \in s /\ \A y \in s : m >= y
    <2>1. s \subseteq 1..n /\ s # {}  BY <1>1 DEF s
    <2> QED  BY <2>1, MaxIsIn
  <1> HIDE DEF m
  <1>4. i \in 1..n /\ i + 1 \in 1..n /\ i # i + 1 /\ m \in 1..n  BY <1>1, <1>3
  <1>5. o \in t /\ other[o] = args[m]  BY <1>1, <1>2, <1>3, <1>4
  <1>6. ASSUME NEW y \in t PROVE o >= y
    <2>1. y \in 1..n /\ other[y].key = k  BY <1>2
    <2>2. CASE y \notin {i, i + 1}
      <3>1. y \in s  BY <1>1, <2>1, <2>2
      <3>2. m >= y  BY <1>3, <3>1
      <3> QED  BY <3>2, <2>1, <2>2, <1>4
    <2>3. CASE y = i
      <3>1. i + 1 \in s /\ i \notin s  BY <1>1, <2>1, <2>3, <1>4
      <3>2. m >= i + 1 /\ m # i  BY <1>3, <3>1
      <3> QED  BY <3>2, <2>3, <1>4
    <2>4. CASE y = i + 1
      <3>1. i \in s /\ i + 1 \notin s  BY <1>1, <2>1, <2>4, <1>4
      <3>2. m >= i /\ m # i + 1  BY <1>3, <3>1
      <3> QED  BY <3>2, <2>4, <1>4
    <2> QED  BY <2>2, <2>3, <2>4
  <1> HIDE DEF o
  <1>7. t \subseteq 1..n  BY <1>2
  <1>8. Max(t) = o  BY <1>5, <1>6, <1>7, MaxEquals
  <1> QED  BY <1>5, <1>8 DEF s, t, m

LEMMA ParsedInAnyOrder ==
    ASSUME NEW S, NEW args \in Seq(S), NEW i \in 1..(Len(args) - 1),
           args[i].key # args[i + 1].key
    PROVE  Parsed(Exchanged(args, i)) = Parsed(args)
  <1> DEFINE other == Exchanged(args, i)
             n == Len(args)
  <1>1. /\ other \in Seq(S)
        /\ Len(other) = n
        /\ other[i] = args[i + 1] /\ other[i + 1] = args[i]
        /\ \A j \in 1..n : j \notin {i, i + 1} => other[j] = args[j]
    BY ExchangedIs
  <1>2. n \in Nat  OBVIOUS
  <1> HIDE DEF other
  <1>3. Parsed(args) = LastGiven(args, n) /\ Parsed(other) = LastGiven(other, n)
    BY <1>1, ParsedIs
  <1> HIDE DEF n
  <1>4. i \in 1..(n - 1)  BY DEF n
  <1>5. KeysOf(args, n) = KeysOf(other, n)
    <2>1. i \in 1..n /\ i + 1 \in 1..n  BY <1>2, <1>4
    <2>2. ASSUME NEW j \in 1..n
          PROVE  /\ \E l \in 1..n : other[l].key = args[j].key
                 /\ \E l \in 1..n : args[l].key = other[j].key
      <3>1. CASE j = i  BY <3>1, <2>1, <1>1
      <3>2. CASE j = i + 1  BY <3>2, <2>1, <1>1
      <3>3. CASE j \notin {i, i + 1}  BY <3>3, <1>1
      <3> QED  BY <3>1, <3>2, <3>3
    <2> DEFINE here == {args[j].key : j \in 1..n}
               there == {other[j].key : j \in 1..n}
    <2>3. ASSUME NEW x \in here PROVE x \in there
      <3>1. PICK j \in 1..n : x = args[j].key  OBVIOUS
      <3> QED  BY <3>1, <2>2
    <2>4. ASSUME NEW x \in there PROVE x \in here
      <3>1. PICK j \in 1..n : x = other[j].key  OBVIOUS
      <3> QED  BY <3>1, <2>2
    <2> HIDE DEF here, there
    <2>5. here = there  BY <2>3, <2>4
    <2> QED  BY <2>5 DEF KeysOf, here, there
  <1>6. ASSUME NEW k \in KeysOf(args, n)
        PROVE  other[Max(AtKey(other, n, k))].value = args[Max(AtKey(args, n, k))].value
    <2>1. AtKey(args, n, k) # {}  BY DEF KeysOf, AtKey
    <2> QED  BY <1>1, <1>2, <1>4, <2>1, LastOfExchanged, SMTT(20)
  <1>7. LastGiven(args, n) = LastGiven(other, n)  BY <1>5, <1>6 DEF LastGiven
  <1> QED  BY <1>3, <1>7 DEF other

LEMMA NoFaultWhenFine ==
    ASSUME NEW map, FirstFault(map) = RUNNING
    PROVE  \A i \in 1..4 : Faults(map)[i] = RUNNING
  <1> DEFINE faults == Faults(map)
             real == {i \in 1..4 : faults[i] # RUNNING}
  <1>1. DOMAIN faults = 1..4  BY DEF Faults
  <1>2. FirstFault(map) = IF real = {} THEN RUNNING ELSE faults[Min(real)]
    BY <1>1 DEF FirstFault
  <1>3. real \subseteq Nat  OBVIOUS
  <1>4. ASSUME real # {} PROVE FALSE
    <2> HIDE DEF real
    <2>1. PICK x \in real : \A y \in real : ~(y < x)
      BY <1>3, <1>4, SmallestElement
    <2>2. \A y \in real : x <= y  BY <1>3, <2>1
    <2>3. Min(real) \in real  BY <2>2 DEF Min
    <2> QED  BY <2>3, <1>2, <1>4 DEF real
  <1> QED  BY <1>4

LEMMA NumberInRange ==
    ASSUME NEW s, NEW not_number, NEW range, NEW out_of_range,
           not_number # RUNNING,
           NumberFault(s, not_number, range, out_of_range) = RUNNING
    PROVE  /\ is_integer(s) /\ Stoi[s] \in Nat /\ Stoi[s] <= MAX_INT
           /\ out_of_range # RUNNING => Stoi[s] \in range
  <1>1. is_integer(s)  BY DEF NumberFault
  <1>2. Stoi[s] \in Nat /\ MAX_INT \in Nat
    BY <1>1, StoiAssumption, MaxIntAssumption DEF is_integer
  <1>3. ~(Stoi[s] > MAX_INT)  BY <1>1 DEF NumberFault, UNCAUGHT, RUNNING
  <1> QED  BY <1>1, <1>2, <1>3 DEF NumberFault

(* What the server knows of an option.                                     *)
LEMMA GivenIs ==
    ASSUME NEW S, NEW args \in Seq(S), NEW key, key # NoDelimiter
    PROVE  /\ key \in DOMAIN Parsed(args) <=> GivenAt(args, key) # {}
           /\ \A default :
                GivenLast(args, key, default) =
                   IF key \in DOMAIN Parsed(args) THEN Parsed(args)[key] ELSE default
  <1> DEFINE n == Len(args)
             at == GivenAt(args, key)
  <1>1. n \in Nat /\ DOMAIN args = 1..n  OBVIOUS
  <1>2. at = AtKey(args, n, key)  BY <1>1 DEF AtKey, GivenAt
  <1>3. Parsed(args) = LastGiven(args, n)  BY ParsedIs
  <1>4. DOMAIN Parsed(args) = KeysOf(args, n)  BY <1>3 DEF LastGiven
  <1>5. key \in KeysOf(args, n) <=> AtKey(args, n, key) # {}
    BY DEF KeysOf, AtKey
  <1>6. ASSUME key \in KeysOf(args, n)
        PROVE  Parsed(args)[key] = args[Max(AtKey(args, n, key))].value
    BY <1>3, <1>6 DEF LastGiven
  <1> HIDE DEF n
  <1>7. ASSUME NEW default
        PROVE  GivenLast(args, key, default) =
                  IF at = {} THEN default ELSE args[Max(at)].value
    BY DEF GivenLast
  <1> HIDE DEF at
  <1>8. /\ key \in DOMAIN Parsed(args) <=> at # {}
        /\ at # {} => Parsed(args)[key] = args[Max(at)].value
    BY <1>2, <1>4, <1>5, <1>6
  <1> QED  BY <1>7, <1>8 DEF at

(* What the settings are if no argument is at fault.                       *)
LEMMA SettingsWithoutFault ==
    ASSUME NEW map, FirstFault(map) = RUNNING
    PROVE  /\ Settings(map).PORT \in 1..MAX_PORT
           /\ "-port" \in DOMAIN map => Settings(map).PORT = Stoi[map["-port"]]
           /\ Settings(map).MAX_WORKER_THREADS >= 1
           /\ "-workers" \in DOMAIN map =>
                 Settings(map).MAX_WORKER_THREADS = Stoi[map["-workers"]]
           /\ Settings(map).MAX_MSG_LENGTH >= 1
  <1>1. \A i \in 1..4 : Faults(map)[i] = RUNNING  BY NoFaultWhenFine
  <1>2. MAX_INT \in Nat  BY MaxIntAssumption
  <1>3. /\ Settings(map).PORT \in 1..MAX_PORT
        /\ "-port" \in DOMAIN map => Settings(map).PORT = Stoi[map["-port"]]
    <2>1. CASE "-port" \in DOMAIN map
      <3> DEFINE s == map["-port"]
      <3>1. NumberFault(s, PORT_NOT_NUMBER, 1..MAX_PORT, PORT_OUT_OF_RANGE) = RUNNING
        <4>1. Faults(map)[1] = RUNNING  BY <1>1
        <4> QED  BY <4>1, <2>1 DEF Faults
      <3>2. Settings(map).PORT = Stoi[s]  BY <2>1 DEF Settings
      <3> DEFINE ports == 1..MAX_PORT
      <3>5. NumberFault(s, PORT_NOT_NUMBER, ports, PORT_OUT_OF_RANGE) = RUNNING
        BY <3>1
      <3> HIDE DEF s, ports
      <3>3. PORT_NOT_NUMBER # RUNNING /\ PORT_OUT_OF_RANGE # RUNNING
        BY DEF PORT_NOT_NUMBER, PORT_OUT_OF_RANGE, RUNNING
      <3>4. Stoi[s] \in ports  BY <3>5, <3>3, NumberInRange
      <3> QED  BY <3>2, <3>4 DEF s, ports
    <2>2. CASE "-port" \notin DOMAIN map
      <3>1. Settings(map).PORT = 14567  BY <2>2 DEF Settings
      <3>3. MAX_PORT \in Nat /\ 14567 <= MAX_PORT  BY DEF MAX_PORT
      <3>2. 14567 \in 1..MAX_PORT  BY <3>3
      <3> QED  BY <2>2, <3>1, <3>2
    <2> QED  BY <2>1, <2>2
  <1>4. /\ Settings(map).MAX_WORKER_THREADS >= 1
        /\ "-workers" \in DOMAIN map =>
              Settings(map).MAX_WORKER_THREADS = Stoi[map["-workers"]]
    <2>1. CASE "-workers" \in DOMAIN map
      <3> DEFINE s == map["-workers"]
      <3>1. NumberFault(s, WORKERCOUNT_NOT_NUMBER, 1..MAX_INT,
                        WORKERCOUNT_OUT_OF_RANGE) = RUNNING
        <4>1. Faults(map)[2] = RUNNING  BY <1>1
        <4> QED  BY <4>1, <2>1 DEF Faults
      <3>2. Settings(map).MAX_WORKER_THREADS = Stoi[s]  BY <2>1 DEF Settings
      <3> HIDE DEF s
      <3>3. WORKERCOUNT_NOT_NUMBER # RUNNING /\ WORKERCOUNT_OUT_OF_RANGE # RUNNING
        BY DEF WORKERCOUNT_NOT_NUMBER, WORKERCOUNT_OUT_OF_RANGE, RUNNING
      <3>4. Stoi[s] \in 1..MAX_INT  BY <3>1, <3>3, NumberInRange
      <3>5. Stoi[s] >= 1  BY <3>4, <1>2
      <3> QED  BY <3>2, <3>5 DEF s
    <2>2. CASE "-workers" \notin DOMAIN map  BY <2>2 DEF Settings
    <2> QED  BY <2>1, <2>2
  <1>5. Settings(map).MAX_MSG_LENGTH >= 1
    <2>1. CASE "-max_msg_length" \in DOMAIN map
      <3> DEFINE s == map["-msg_length"]
      <3>1. Faults(map)[3] = RUNNING  BY <1>1
      <3>2. "-msg_length" \in DOMAIN map
        BY <3>1, <2>1 DEF Faults, UNCAUGHT, RUNNING
      <3>3. NumberFault(s, MAX_MSG_LENGTH_NOT_NUMBER, 1..MAX_INT,
                        MAX_MSG_LENGTH_OUT_OF_RANGE) = RUNNING
        BY <3>1, <2>1, <3>2 DEF Faults
      <3>4. Settings(map).MAX_MSG_LENGTH = Stoi[s]  BY <2>1 DEF Settings
      <3> HIDE DEF s
      <3>5. MAX_MSG_LENGTH_NOT_NUMBER # RUNNING /\ MAX_MSG_LENGTH_OUT_OF_RANGE # RUNNING
        BY DEF MAX_MSG_LENGTH_NOT_NUMBER, MAX_MSG_LENGTH_OUT_OF_RANGE, RUNNING
      <3>6. Stoi[s] \in 1..MAX_INT  BY <3>3, <3>5, NumberInRange
      <3>7. Stoi[s] >= 1  BY <3>6, <1>2
      <3> QED  BY <3>4, <3>7
    <2>2. CASE "-max_msg_length" \notin DOMAIN map  BY <2>2 DEF Settings
    <2> QED  BY <2>1, <2>2
  <1> QED  BY <1>3, <1>4, <1>5

LEMMA LoadedIsNotEmpty ==
    ASSUME NEW files, NEW name, ~(LoadFile(files, name) <= 0)
    PROVE  files[name] # <<>>
  <1>1. name \in DOMAIN files  BY DEF LoadFile
  <1>2. ASSUME files[name] = <<>> PROVE FALSE
    <2>1. ToSet(files[name]) = {}  BY <1>2 DEF ToSet
    <2>2. LoadFile(files, name) = 0  BY <2>1, <1>1, FS_EmptySet DEF LoadFile
    <2> QED  BY <2>2
  <1> QED  BY <1>2

(* The arguments of the server can be given in any order: neighbours of    *)
(* different keys exchanged lead to the same codes, and a server that      *)
(* starts has what was given last, within the ranges of the readme.        *)
THEOREM StartsAsAsked == Spec => []StartedAsGiven
  <1>1. InputType => StartedAsGiven
    <2> SUFFICES ASSUME InputType, kind = "arguments"
                 PROVE  StartedAsGiven
      BY DEF StartedAsGiven
    <2> DEFINE map == Parsed(input)
               settings == Settings(map)
               last(key, default) == GivenLast(input, key, default)
    <2>0. input \in Seq(Inputs[kind])  BY DEF InputType
    <2>1. ASSUME NEW i \in 1..(Len(input) - 1), NEW failing \in SUBSET Failures,
                 input[i].key # input[i + 1].key
          PROVE  ExitCodes(Exchanged(input, i), Dictionaries, failing) =
                    ExitCodes(input, Dictionaries, failing)
      <3>1. Parsed(Exchanged(input, i)) = Parsed(input)
        BY <2>0, <2>1, ParsedInAnyOrder
      <3> QED  BY <3>1 DEF ExitCodes
    <2>2. ASSUME RUNNING \in ExitCodes(input, Dictionaries, {})
          PROVE  SettingsAsGiven(input, settings)
      <3>1. FirstFault(map) = RUNNING  BY <2>2 DEF ExitCodes
      <3>2. ~(LoadFile(Dictionaries, settings.DICTIONARY) <= 0)
        BY <2>2, <3>1 DEF ExitCodes, DICTIONARY_FAILURE, RUNNING
      <3>3. Dictionaries[settings.DICTIONARY] # <<>>  BY <3>2, LoadedIsNotEmpty
      <3>5. settings.DICTIONARY =
               IF "-dict" \in DOMAIN map THEN map["-dict"] ELSE "words"
        BY DEF Settings
      <3>6. settings.CAN_LINEBREAK =
               ("-linebreak" \in DOMAIN map /\ map["-linebreak"] = "true")
        BY DEF Settings
      <3> DEFINE keys == {"-port", "-workers", "-dict", "-msg_length",
                          "-max_msg_length", "-linebreak"}
      <3>7. \A key \in keys : key # NoDelimiter  BY DEF NoDelimiter
      <3> HIDE DEF keys
      <3>8. \A key \in keys :
               /\ key \in DOMAIN map <=> GivenAt(input, key) # {}
               /\ \A default : last(key, default) =
                     IF key \in DOMAIN map THEN map[key] ELSE default
        <4> TAKE key \in keys
        <4> QED  BY <2>0, <3>7, GivenIs
      <3> HIDE DEF map
      <3>4. /\ settings.PORT \in 1..MAX_PORT
            /\ "-port" \in DOMAIN map => settings.PORT = Stoi[map["-port"]]
            /\ settings.MAX_WORKER_THREADS >= 1
            /\ "-workers" \in DOMAIN map =>
                  settings.MAX_WORKER_THREADS = Stoi[map["-workers"]]
            /\ settings.MAX_MSG_LENGTH >= 1  BY <3>1, SettingsWithoutFault
      <3> HIDE DEF settings, last
      <3> USE DEF keys
      <3>11. /\ GivenAt(input, "-port") # {} =>
                   settings.PORT = Stoi[last("-port", "")]
             /\ GivenAt(input, "-workers") # {} =>
                   settings.MAX_WORKER_THREADS = Stoi[last("-workers", "")]
        BY <3>4, <3>8
      <3>12. Dictionaries[last("-dict", "words")] # <<>>  BY <3>3, <3>5, <3>8
      <3>14. settings.CAN_LINEBREAK = (last("-linebreak", "false") = "true")
        <4>1. CASE "-linebreak" \in DOMAIN map  BY <4>1, <3>6, <3>8
        <4>2. CASE "-linebreak" \notin DOMAIN map
          <5>1. last("-linebreak", "false") = "false"  BY <4>2, <3>8
          <5> QED  BY <4>2, <3>6, <5>1
        <4> QED  BY <4>1, <4>2
      <3> QED  BY <3>4, <3>11, <3>12, <3>14, Zenon DEF SettingsAsGiven, last
    <2> QED  BY <2>1, <2>2 DEF StartedAsGiven
  <1> QED  BY <1>1, InputInvariance, PTL

----
(* The pieces of a text.                                                   *)
LEMMA AddCharLoop ==
    ASSUME NEW delim, NEW base, NEW seq, NEW n \in Nat, DOMAIN seq = 1..n
    PROVE  FoldLeft(LAMBDA lines, c : AddChar(delim, lines, c), base, seq) =
              After(<<"AddChar", delim>>, base, seq, n)
  <1> DEFINE Eq(g) == g = [s \in SUBSET (1..n) |->
                              IF s = {} THEN base
                              ELSE AddChar(delim, g[s \ {Max(s)}], seq[Max(s)])]
             g == CHOOSE g : Eq(g)
  <1>1. \A f : Eq(f) <=> LoopEq(<<"AddChar", delim>>, base, seq, n, f)
    BY DEF Turn, LoopEq
  <1>2. FoldLeft(LAMBDA lines, c : AddChar(delim, lines, c), base, seq) =
           g[1..n]  BY DEF FoldLeft, MapThenFoldSet
  <1> HIDE DEF Eq
  <1>3. Eq(g)  BY <1>1, LoopExists
  <1> HIDE DEF g
  <1> QED  BY <1>1, <1>2, <1>3, LoopIs

LEMMA GetLinesIs ==
    ASSUME NEW C, NEW text \in Seq(C), NEW delim
    PROVE  LET split == Split(text, delim, Len(text))
           IN  GetLines(text, delim) =
                  IF Last(split) = <<>> THEN Front(split) ELSE split
  <1> DEFINE fold == FoldLeft(LAMBDA lines, c : AddChar(delim, lines, c),
                              <<<<>>>>, text)
  <1>1. Len(text) \in Nat /\ DOMAIN text = 1..Len(text)  OBVIOUS
  <1>2. fold = Split(text, delim, Len(text))  BY <1>1, AddCharLoop DEF Split
  <1>3. GetLines(text, delim) = IF Last(fold) = <<>> THEN Front(fold) ELSE fold
    BY DEF GetLines
  <1> HIDE DEF fold
  <1> QED  BY <1>2, <1>3

LEMMA SplitStarts ==
    ASSUME NEW text, NEW delim
    PROVE  Split(text, delim, 0) = <<<<>>>>
  BY AfterNone DEF Split

LEMMA SplitNext ==
    ASSUME NEW text, NEW delim, NEW n \in Nat
    PROVE  Split(text, delim, n + 1) =
              AddChar(delim, Split(text, delim, n), text[n + 1])
  <1> DEFINE loop == <<"AddChar", delim>>
  <1>1. After(loop, <<<<>>>>, text, n + 1) =
           Turn(loop, After(loop, <<<<>>>>, text, n), text[n + 1])
    BY AfterNext
  <1>2. Turn(loop, After(loop, <<<<>>>>, text, n), text[n + 1]) =
           AddChar(delim, After(loop, <<<<>>>>, text, n), text[n + 1])
    BY DEF Turn
  <1> QED  BY <1>1, <1>2 DEF Split

LEMMA FrontIs ==
    ASSUME NEW S, NEW s \in Seq(S), s # <<>>
    PROVE  /\ Len(s) \in Nat /\ Len(s) >= 1
           /\ Front(s) \in Seq(S) /\ Len(Front(s)) = Len(s) - 1
           /\ \A i \in 1..(Len(s) - 1) : Front(s)[i] = s[i]
           /\ Last(s) \in S /\ Last(s) = s[Len(s)]
  <1>1. Len(s) \in Nat /\ Len(s) >= 1  BY EmptySeq
  <1>2. /\ Front(s) \in Seq(S) /\ Len(Front(s)) = Len(s) - 1
        /\ \A i \in 1..(Len(s) - 1) : Front(s)[i] = s[i]
    <2> DEFINE n == Len(s)
               r == SubSeq(s, 1, n - 1)
    <2>1. n \in Nat /\ n >= 1 /\ \A i \in 1..n : s[i] \in S  BY <1>1
    <2>2. r = [i \in 1..(n - 1) |-> s[i]]  BY <2>1
    <2> HIDE DEF n, r
    <2>3. n - 1 \in Nat /\ \A i \in 1..(n - 1) : i \in 1..n  BY <2>1
    <2>4. r \in Seq(S) /\ Len(r) = n - 1 /\ \A i \in 1..(n - 1) : r[i] = s[i]
      BY <2>1, <2>2, <2>3
    <2> QED  BY <2>4 DEF Front, n, r
  <1>3. Last(s) \in S /\ Last(s) = s[Len(s)]  BY <1>1 DEF Last
  <1> QED  BY <1>1, <1>2, <1>3

LEMMA NotEmpty ==
    ASSUME NEW S, NEW s \in Seq(S), Len(s) >= 1
    PROVE  s # <<>>
  BY EmptySeq

LEMMA AppendIs ==
    ASSUME NEW S, NEW s \in Seq(S), NEW x \in S
    PROVE  /\ Append(s, x) \in Seq(S) /\ Append(s, x) # <<>>
           /\ Len(Append(s, x)) = Len(s) + 1
           /\ Append(s, x)[Len(s) + 1] = x
           /\ \A i \in 1..Len(s) : Append(s, x)[i] = s[i]
  <1>1. /\ Append(s, x) \in Seq(S) /\ Len(Append(s, x)) = Len(s) + 1
        /\ Append(s, x)[Len(s) + 1] = x
        /\ \A i \in 1..Len(s) : Append(s, x)[i] = s[i]  BY AppendProperties
  <1>2. Len(s) \in Nat  OBVIOUS
  <1> DEFINE t == Append(s, x)
             n == Len(s)
  <1>3. t \in Seq(S) /\ Len(t) = n + 1 /\ n \in Nat  BY <1>1, <1>2
  <1> HIDE DEF t, n
  <1>4. t # <<>>
    <2>1. Len(t) >= 1  BY <1>3
    <2> QED  BY <1>3, <2>1, NotEmpty
  <1> QED  BY <1>1, <1>4 DEF t

LEMMA AddCharIs ==
    ASSUME NEW C, NEW delim, NEW c \in C, NEW lines, IsSplit(C, delim, lines)
    PROVE  /\ IsSplit(C, delim, AddChar(delim, lines, c))
           /\ Added(delim, c, lines, AddChar(delim, lines, c))
  <1> DEFINE S == Seq(C \ {delim})
             n == Len(lines)
             new == AddChar(delim, lines, c)
  <1>0. <<>> \in S  OBVIOUS
  <1>00. lines \in Seq(S) /\ lines # <<>>  BY DEF IsSplit
  <1> HIDE DEF S
  <1>1. /\ n \in Nat /\ n >= 1
        /\ Front(lines) \in Seq(S) /\ Len(Front(lines)) = n - 1
        /\ \A i \in 1..(n - 1) : Front(lines)[i] = lines[i]
        /\ Last(lines) \in S /\ Last(lines) = lines[n]  BY <1>00, FrontIs
  <1>2. CASE c = delim
    <2>1. new = Append(lines, <<>>)  BY <1>2 DEF AddChar
    <2>2. /\ new \in Seq(S) /\ new # <<>>
          /\ Len(new) = n + 1 /\ new[n + 1] = <<>>
          /\ \A i \in 1..n : new[i] = lines[i]  BY <2>1, <1>0, <1>00, AppendIs
    <2> HIDE DEF new, n
    <2>3. Added(delim, c, lines, new)  BY <1>1, <1>2, <2>2 DEF Added, n
    <2>4. IsSplit(C, delim, new)  BY <2>2 DEF IsSplit, S
    <2> QED  BY <2>3, <2>4 DEF new
  <1>3. CASE c # delim
    <2> DEFINE f == Front(lines)
               last == Append(lines[n], c)
    <2>1. new = Append(f, last)  BY <1>1, <1>3 DEF AddChar
    <2>2. last \in S  BY <1>1, <1>3 DEF S
    <2> HIDE DEF f, last, new
    <2>3. /\ f \in Seq(S) /\ Len(f) = n - 1
          /\ \A i \in 1..(n - 1) : f[i] = lines[i]  BY <1>1 DEF f
    <2>4. /\ Append(f, last) \in Seq(S) /\ Append(f, last) # <<>>
          /\ Len(Append(f, last)) = Len(f) + 1
          /\ Append(f, last)[Len(f) + 1] = last
          /\ \A i \in 1..Len(f) : Append(f, last)[i] = f[i]
      BY <2>2, <2>3, AppendIs
    <2> HIDE DEF n
    <2>5. /\ Len(new) = n /\ new[n] = last
          /\ \A i \in 1..(n - 1) : new[i] = lines[i]  BY <2>1, <2>3, <2>4, <1>1
    <2>6. Added(delim, c, lines, new)  BY <1>1, <1>3, <2>5 DEF Added, n, last
    <2>7. IsSplit(C, delim, new)  BY <2>1, <2>4 DEF IsSplit, S
    <2> QED  BY <2>6, <2>7 DEF new
  <1> QED  BY <1>2, <1>3

LEMMA SplitStartsSplit ==
    ASSUME NEW C, NEW delim
    PROVE  IsSplit(C, delim, <<<<>>>>)
  <1> DEFINE R == Seq(C \ {delim})
  <1>1. <<>> \in R  OBVIOUS
  <1> HIDE DEF R
  <1>2. <<<<>>>> \in Seq(R) /\ <<<<>>>> # <<>>  BY <1>1
  <1> QED  BY <1>2 DEF R, IsSplit

(* The split after n characters, and the step to it.                       *)
LEMMA SplitSteps ==
    ASSUME NEW C, NEW text \in Seq(C), NEW delim, NEW n \in 0..Len(text)
    PROVE  /\ IsSplit(C, delim, Split(text, delim, n))
           /\ \A m \in 0..(n - 1) :
                 Added(delim, text[m + 1], Split(text, delim, m),
                       Split(text, delim, m + 1))
  <1> DEFINE now(m) == Split(text, delim, m)
             S == {m \in 0..n : IsSplit(C, delim, now(m))}
  <1>0. n \in Nat /\ Len(text) \in Nat /\ n <= Len(text)  OBVIOUS
  <1>1. 0 \in S  BY SplitStarts, SplitStartsSplit
  <1>2. ASSUME NEW m \in 0..(n - 1), IsSplit(C, delim, now(m))
        PROVE  /\ IsSplit(C, delim, now(m + 1))
               /\ Added(delim, text[m + 1], now(m), now(m + 1))
    <2>1. m \in Nat /\ m + 1 \in 0..n /\ m + 1 \in 1..Len(text)  BY <1>0
    <2>2. text[m + 1] \in C  BY <2>1
    <2>4. now(m + 1) = AddChar(delim, now(m), text[m + 1])  BY <2>1, SplitNext
    <2> HIDE DEF now
    <2> QED  BY <1>2, <2>2, <2>4, AddCharIs
  <1>3. 0..n \subseteq S
    <2>1. \A m \in 0..(n - 1) : m \in S => m + 1 \in S  BY <1>2
    <2> HIDE DEF S
    <2> QED  BY <1>0, <1>1, <2>1, SetInductionUpTo
  <1>4. \A m \in 0..n : IsSplit(C, delim, now(m))  BY <1>3
  <1>5. n \in 0..n /\ \A m \in 0..(n - 1) : m \in 0..n  BY <1>0
  <1> HIDE DEF S, now
  <1>6. /\ IsSplit(C, delim, now(n))
        /\ \A m \in 0..(n - 1) : Added(delim, text[m + 1], now(m), now(m + 1))
    BY <1>2, <1>4, <1>5
  <1> QED  BY <1>6 DEF now

LEMMA AppendBegins ==
    ASSUME NEW S, NEW s \in Seq(S), NEW x \in S
    PROVE  /\ Ends(Append(s, x), x)
           /\ \A c : Begins(s, c) => Begins(Append(s, x), c)
  <1> DEFINE t == Append(s, x)
             n == Len(s)
  <1>1. /\ t \in Seq(S) /\ t # <<>> /\ Len(t) = n + 1 /\ t[n + 1] = x
        /\ \A i \in 1..n : t[i] = s[i]  BY AppendIs
  <1>2. n \in Nat  OBVIOUS
  <1>3. s # <<>> => n >= 1  BY EmptySeq
  <1> HIDE DEF t, n
  <1>4. Last(t) = x  BY <1>1, <1>2 DEF Last
  <1>5. s # <<>> => t[1] = s[1]  BY <1>1, <1>2, <1>3
  <1> QED  BY <1>1, <1>4, <1>5 DEF Begins, Ends, t

LEMMA PieceOf ==
    ASSUME NEW C, NEW delim, NEW lines, IsSplit(C, delim, lines),
           NEW i \in 1..Len(lines)
    PROVE  lines[i] \in Seq(C \ {delim})
  BY DEF IsSplit

(* A split that is not the one of an empty text.                           *)
LEMMA SplitOfSome ==
    ASSUME NEW C, NEW text \in Seq(C), NEW delim, NEW n \in 1..Len(text)
    PROVE  LET split == Split(text, delim, n)
           IN  /\ Len(split) = 1 => split[1] # <<>>
               /\ text[1] # delim => Begins(split[1], text[1])
               /\ text[n] # delim => Ends(Last(split), text[n])
  <1> DEFINE now(m) == Split(text, delim, m)
             Good(m) == /\ Len(now(m)) = 1 => now(m)[1] # <<>>
                        /\ text[1] # delim => Begins(now(m)[1], text[1])
                        /\ text[m] # delim => Ends(Last(now(m)), text[m])
  <1>0. n \in Nat /\ Len(text) \in Nat /\ n <= Len(text) /\ n >= 1  OBVIOUS
  <1>1. /\ \A m \in 0..n : IsSplit(C, delim, now(m))
        /\ \A m \in 0..(n - 1) : Added(delim, text[m + 1], now(m), now(m + 1))
    <2>1. \A m \in 0..n : m \in 0..Len(text)  BY <1>0
    <2> QED  BY <2>1, <1>0, SplitSteps
  <1>2. now(0) = <<<<>>>>  BY SplitStarts
  <1>3. \A m \in 1..n : text[m] \in C  BY <1>0
  <1> HIDE DEF now
  <1>4. ASSUME NEW m \in 0..(n - 1), m = 0 \/ Good(m)
        PROVE  Good(m + 1)
    <2> DEFINE old == now(m)
               new == now(m + 1)
               c == text[m + 1]
               l == Len(old)
    <2>1. m \in 0..n /\ m + 1 \in 1..n /\ m \in Nat  BY <1>0
    <2>2. c \in C /\ IsSplit(C, delim, old) /\ Added(delim, c, old, new)
      BY <2>1, <1>1, <1>3
    <2>3. m = 0 => old = <<<<>>>> /\ l = 1 /\ old[1] = <<>> /\ c = text[1]
      BY <1>2
    <2>4. m # 0 => /\ l = 1 => old[1] # <<>>
                   /\ text[1] # delim => Begins(old[1], text[1])  BY <1>4
    <2> HIDE DEF old, new, c
    <2>5. /\ l \in Nat /\ l >= 1
          /\ \A i \in 1..(l - 1) : new[i] = old[i]
          /\ c = delim => /\ Len(new) = l + 1
                          /\ new[l] = old[l] /\ new[l + 1] = <<>>
          /\ c # delim => Len(new) = l /\ new[l] = Append(old[l], c)
      BY <2>2 DEF Added
    <2> HIDE DEF l
    <2>6. old[1] \in Seq(C \ {delim}) /\ old[l] \in Seq(C \ {delim})
      <3>1. 1 \in 1..Len(old) /\ l \in 1..Len(old)  BY <2>5 DEF l
      <3> QED  BY <2>2, <3>1, PieceOf
    <2>7. CASE c = delim
      <3>1. new[1] = old[1]  BY <2>5, <2>7
      <3>0. Len(new) = l + 1 /\ l + 1 # 1  BY <2>5, <2>7
      <3>2. Len(new) # 1  BY <3>0
      <3>3. text[1] # delim => Begins(new[1], text[1])
        BY <2>3, <2>4, <2>7, <3>1
      <3> QED  BY <2>7, <3>2, <3>3 DEF new, c
    <2>8. CASE c # delim
      <3> DEFINE p == Append(old[l], c)
      <3>1. c \in C \ {delim}  BY <2>2, <2>8
      <3> HIDE DEF p
      <3>2. /\ Ends(p, c) /\ \A x : Begins(old[l], x) => Begins(p, x)
        BY <2>6, <3>1, AppendBegins DEF p
      <3>3. new[l] = p /\ Len(new) = l  BY <2>5, <2>8 DEF p
      <3>4. Ends(Last(new), c)  BY <3>2, <3>3 DEF Last
      <3>5. CASE l # 1
        <4>1. new[1] = old[1]  BY <2>5, <3>5
        <4>2. text[1] # delim => Begins(new[1], text[1])
          BY <2>3, <2>4, <3>5, <4>1
        <4> QED  BY <3>3, <3>4, <3>5, <4>2 DEF new, c
      <3>6. CASE l = 1
        <4>1. new[1] # <<>>  BY <3>2, <3>3, <3>6 DEF Ends
        <4>2. CASE m = 0
          <5>1. p[1] = c  BY <2>3, <3>6, <4>2 DEF p
          <5>2. Begins(new[1], text[1])
            BY <2>3, <3>3, <3>6, <4>1, <4>2, <5>1 DEF Begins
          <5> QED  BY <3>4, <4>1, <5>2 DEF new, c
        <4>3. CASE m # 0
          <5>1. text[1] # delim => Begins(new[1], text[1])
            BY <2>4, <3>2, <3>3, <3>6, <4>3
          <5> QED  BY <3>4, <4>1, <5>1 DEF new, c
        <4> QED  BY <4>2, <4>3
      <3> QED  BY <3>5, <3>6
    <2> QED  BY <2>7, <2>8
  <1> DEFINE S == {m \in 0..n : m = 0 \/ Good(m)}
  <1>5. \A m \in 0..(n - 1) : m \in S => m + 1 \in S  BY <1>4, <1>0
  <1>6. 0 \in S  BY <1>0
  <1> HIDE DEF S
  <1>7. 0..n \subseteq S  BY <1>0, <1>5, <1>6, SetInductionUpTo
  <1>8. n \in S  BY <1>0, <1>7
  <1>9. Good(n)  BY <1>0, <1>8 DEF S
  <1> QED  BY <1>9 DEF now

LEMMA GetLinesOfSome ==
    ASSUME NEW C, NEW text \in Seq(C), NEW delim, text # <<>>
    PROVE  /\ IsSplit(C, delim, GetLines(text, delim))
           /\ text[1] # delim => Begins(GetLines(text, delim)[1], text[1])
           /\ Last(text) # delim =>
                 /\ GetLines(text, delim) = Split(text, delim, Len(text))
                 /\ Ends(Last(GetLines(text, delim)), Last(text))
  <1> DEFINE n == Len(text)
             split == Split(text, delim, n)
             pieces == GetLines(text, delim)
  <1>1. n \in Nat /\ n >= 1 /\ n \in 1..Len(text) /\ n \in 0..Len(text)
    BY EmptySeq
  <1>2. pieces = IF Last(split) = <<>> THEN Front(split) ELSE split
    BY GetLinesIs
  <1>3. IsSplit(C, delim, split)  BY <1>1, SplitSteps
  <1>4. /\ Len(split) = 1 => split[1] # <<>>
        /\ text[1] # delim => Begins(split[1], text[1])
        /\ text[n] # delim => Ends(Last(split), text[n])  BY <1>1, SplitOfSome
  <1>5. Last(text) = text[n]  BY DEF Last
  <1> HIDE DEF n, split, pieces
  <1>6. CASE Last(split) # <<>>
    <2>1. pieces = split  BY <1>2, <1>6
    <2> QED  BY <1>3, <1>4, <1>5, <2>1 DEF pieces, split, n
  <1>7. CASE Last(split) = <<>>
    <2> DEFINE R == Seq(C \ {delim})
               l == Len(split)
    <2> HIDE DEF R
    <2>1. split \in Seq(R) /\ split # <<>>  BY <1>3 DEF IsSplit, R
    <2>2. /\ l \in Nat /\ l >= 1 /\ pieces \in Seq(R) /\ Len(pieces) = l - 1
          /\ \A i \in 1..(l - 1) : pieces[i] = split[i]
          /\ Last(split) = split[l]  BY <1>2, <1>7, <2>1, FrontIs
    <2>3. l # 1  BY <1>4, <1>7, <2>2
    <2> HIDE DEF l
    <2>4. Len(pieces) >= 1 /\ pieces[1] = split[1]  BY <2>2, <2>3
    <2>5. pieces # <<>>  BY <2>2, <2>4, NotEmpty
    <2>6. IsSplit(C, delim, pieces)  BY <2>2, <2>5 DEF IsSplit, R
    <2>7. text[n] = delim  BY <1>4, <1>7 DEF Ends
    <2> QED  BY <1>4, <1>5, <2>4, <2>6, <2>7 DEF pieces
  <1> QED  BY <1>6, <1>7

LEMMA MinIsIn ==
    ASSUME NEW s, s \subseteq Nat, s # {}
    PROVE  /\ Min(s) \in s
           /\ \A y \in s : Min(s) <= y
  <1>1. PICK x \in s : \A y \in s : ~(y < x)  BY SmallestElement
  <1>2. \A y \in s : x <= y  BY <1>1
  <1> QED  BY <1>2 DEF Min

LEMMA SubSeqIs ==
    ASSUME NEW S, NEW s \in Seq(S), NEW m \in Nat, NEW n \in Nat,
           m >= 1, n <= Len(s)
    PROVE  /\ SubSeq(s, m, n) \in Seq(S)
           /\ Len(SubSeq(s, m, n)) = IF m <= n THEN n - m + 1 ELSE 0
           /\ \A i \in 1..(n - m + 1) : SubSeq(s, m, n)[i] = s[m + i - 1]
  <1>1. Len(s) \in Nat /\ \A i \in 1..Len(s) : s[i] \in S  OBVIOUS
  <1>2. \A i \in m..n : i \in 1..Len(s)  BY <1>1
  <1>3. \A i \in m..n : s[i] \in S  BY <1>1, <1>2
  <1>4. m \in Int /\ n \in Int  OBVIOUS
  <1> QED  BY <1>3, <1>4, SubSeqProperties

LEMMA CleanIs ==
    ASSUME NEW C, NEW str \in Seq(C)
    PROVE  LET clean == CleanTrailingSpaces(str)
               a == Min(Solid(str))
               b == Max(Solid(str))
           IN  /\ Solid(str) = {} => clean = <<>>
               /\ Solid(str) # {} =>
                     /\ a \in 1..Len(str) /\ b \in 1..Len(str) /\ a <= b
                     /\ \A i \in Solid(str) : a <= i /\ i <= b
                     /\ str[a] # Space /\ str[b] # Space
                     /\ clean \in Seq(C) /\ clean # <<>>
                     /\ Len(clean) = b - a + 1
                     /\ \A i \in 1..(b - a + 1) : clean[i] = str[a + i - 1]
  <1> DEFINE clean == CleanTrailingSpaces(str)
             solid == Solid(str)
             a == Min(solid)
             b == Max(solid)
             n == Len(str)
  <1>0. n \in Nat /\ \A i \in 1..n : str[i] \in C  OBVIOUS
  <1>1. clean = IF solid = {} THEN <<>> ELSE SubSeq(str, a, b)
    BY DEF CleanTrailingSpaces, Solid
  <1>2. \A i : i \in solid <=> i \in 1..n /\ str[i] # Space  BY DEF Solid
  <1> HIDE DEF solid
  <1>3. CASE solid = {}  BY <1>1, <1>3 DEF solid
  <1>4. CASE solid # {}
    <2>1. /\ a \in solid /\ \A i \in solid : a <= i
          /\ b \in solid /\ \A i \in solid : b >= i
      <3> HIDE DEF n
      <3>0. solid \subseteq 1..n  BY <1>2
      <3>1. solid \subseteq Nat /\ solid \subseteq 1..n  BY <3>0
      <3>2. a \in solid /\ \A i \in solid : a <= i  BY <3>1, <1>4, MinIsIn
      <3>3. b \in solid /\ \A i \in solid : b >= i
        BY <3>1, <1>0, <1>4, MaxIsIn
      <3> QED  BY <3>2, <3>3
    <2> HIDE DEF a, b
    <2>2. /\ a \in 1..n /\ b \in 1..n /\ a <= b
          /\ str[a] # Space /\ str[b] # Space
          /\ \A i \in solid : a <= i /\ i <= b
      <3>1. a \in 1..n /\ b \in 1..n /\ str[a] # Space /\ str[b] # Space /\ a <= b
        BY <2>1, <1>2
      <3>2. \A i \in solid : i \in 1..n  BY <1>2
      <3> QED  BY <3>1, <3>2, <2>1
    <2> DEFINE l == b - a + 1
    <2>3. clean = SubSeq(str, a, b)  BY <1>1, <1>4
    <2>4. l \in Nat /\ l >= 1 /\ a \in Nat /\ b \in Nat /\ a >= 1 /\ b <= n
      <3> HIDE DEF n
      <3>1. n \in Nat /\ a \in 1..n /\ b \in 1..n /\ a <= b  BY <2>2, <1>0
      <3> QED  BY <3>1
    <2> DEFINE r == SubSeq(str, a, b)
    <2>5. /\ r \in Seq(C) /\ Len(r) = IF a <= b THEN b - a + 1 ELSE 0
          /\ \A i \in 1..(b - a + 1) : r[i] = str[a + i - 1]
      <3> HIDE DEF l
      <3> QED  BY <2>4, SubSeqIs DEF n
    <2> HIDE DEF l, r, n
    <2>6. r \in Seq(C) /\ Len(r) = l /\ \A i \in 1..l : r[i] = str[a + i - 1]
      BY <2>2, <2>5 DEF l
    <2>7. r # <<>>  BY <2>4, <2>6, NotEmpty
    <2> HIDE DEF clean
    <2> QED  BY <1>4, <2>2, <2>3, <2>6, <2>7 DEF clean, solid, a, b, l, n, r
  <1> QED  BY <1>3, <1>4

LEMMA BlankIs ==
    ASSUME NEW C, NEW str \in Seq(C)
    PROVE  /\ Blank(str) <=> Solid(str) = {}
           /\ CleanTrailingSpaces(str) = <<>> <=> Solid(str) = {}
           /\ CleanTrailingSpaces(str) \in Seq(C)
           /\ CleanTrailingSpaces(str) # <<>> =>
                 /\ CleanTrailingSpaces(str)[1] # Space
                 /\ Last(CleanTrailingSpaces(str)) # Space
  <1> DEFINE clean == CleanTrailingSpaces(str)
             a == Min(Solid(str))
             b == Max(Solid(str))
  <1>1. Blank(str) <=> Solid(str) = {}
    <2>1. DOMAIN str = 1..Len(str)  OBVIOUS
    <2> QED  BY <2>1, Zenon DEF Blank, ToSet, Solid
  <1>2. /\ Solid(str) = {} => clean = <<>>
        /\ Solid(str) # {} =>
              /\ a \in 1..Len(str) /\ b \in 1..Len(str) /\ a <= b
              /\ \A i \in Solid(str) : a <= i /\ i <= b
              /\ str[a] # Space /\ str[b] # Space
              /\ clean \in Seq(C) /\ clean # <<>>
              /\ Len(clean) = b - a + 1
              /\ \A i \in 1..(b - a + 1) : clean[i] = str[a + i - 1]
    BY CleanIs
  <1> HIDE DEF clean, a, b
  <1>3. ASSUME Solid(str) # {} PROVE clean[1] # Space /\ Last(clean) # Space
    <2> DEFINE l == b - a + 1
    <2> DEFINE n == Len(str)
    <2>2. n \in Nat  OBVIOUS
    <2> HIDE DEF n
    <2>3. a \in 1..n /\ b \in 1..n /\ a <= b  BY <1>2, <1>3 DEF n
    <2>0. a \in Int /\ b \in Int /\ a <= b  BY <2>2, <2>3
    <2>1. l >= 1 /\ l \in Nat /\ a + 1 - 1 = a /\ a + l - 1 = b  BY <2>0
    <2> HIDE DEF l
    <2>4. 1 \in 1..l /\ l \in 1..l  BY <2>1
    <2>5. clean[1] = str[a] /\ clean[l] = str[b]
      BY <1>2, <1>3, <2>1, <2>4 DEF l
    <2> QED  BY <1>2, <1>3, <2>5 DEF Last, l
  <1>4. clean \in Seq(C)
    <2>1. <<>> \in Seq(C)  OBVIOUS
    <2> QED  BY <1>2, <2>1
  <1> QED  BY <1>1, <1>2, <1>3, <1>4 DEF clean

----
(* The redirections of a command.                                          *)
LEMMA WithoutIs ==
    ASSUME NEW S, NEW words \in Seq(S), NEW m \in 1..(Len(words) - 1),
           NEW rest, rest = SubSeq(words, 1, m - 1)
                            \o SubSeq(words, m + 2, Len(words))
    PROVE  rest \in Seq(S) /\ Without(words, m, rest)
  <1> DEFINE n == Len(words)
             s == SubSeq(words, 1, m - 1)
             t == SubSeq(words, m + 2, n)
  <1>1. n \in Nat  OBVIOUS
  <1>2. /\ m \in Nat /\ m >= 1 /\ m + 1 <= n /\ m - 1 \in Nat /\ m - 1 <= n
        /\ m + 2 \in Nat
    <2>1. m \in 1..(n - 1)  OBVIOUS
    <2> HIDE DEF n
    <2> QED  BY <1>1, <2>1
  <1>3. /\ s \in Seq(S) /\ Len(s) = IF 1 <= m - 1 THEN m - 1 - 1 + 1 ELSE 0
        /\ \A i \in 1..(m - 1 - 1 + 1) : s[i] = words[1 + i - 1]
    <2> DEFINE k == m - 1
    <2> HIDE DEF k
    <2>1. k \in Nat /\ k <= Len(words)  BY <1>2 DEF k
    <2>2. /\ SubSeq(words, 1, k) \in Seq(S)
          /\ Len(SubSeq(words, 1, k)) = IF 1 <= k THEN k - 1 + 1 ELSE 0
          /\ \A i \in 1..(k - 1 + 1) : SubSeq(words, 1, k)[i] = words[1 + i - 1]
      BY <2>1, SubSeqIs
    <2> QED  BY <2>2 DEF k
  <1>4. /\ t \in Seq(S)
        /\ Len(t) = IF m + 2 <= n THEN n - (m + 2) + 1 ELSE 0
        /\ \A i \in 1..(n - (m + 2) + 1) : t[i] = words[(m + 2) + i - 1]
    <2> DEFINE k == m + 2
    <2> HIDE DEF k
    <2>1. k \in Nat /\ k >= 1 /\ Len(words) \in Nat /\ Len(words) <= Len(words)
      BY <1>1, <1>2 DEF k
    <2>2. /\ SubSeq(words, k, Len(words)) \in Seq(S)
          /\ Len(SubSeq(words, k, Len(words))) =
                IF k <= Len(words) THEN Len(words) - k + 1 ELSE 0
          /\ \A i \in 1..(Len(words) - k + 1) :
                SubSeq(words, k, Len(words))[i] = words[k + i - 1]
      BY <2>1, SubSeqIs
    <2> QED  BY <2>2 DEF k
  <1> HIDE DEF n, s, t
  <1>5. Len(s) = m - 1 /\ \A i \in 1..(m - 1) : s[i] = words[i]  BY <1>2, <1>3
  <1>6. Len(t) = n - m - 1 /\ \A i \in 1..(n - m - 1) : t[i] = words[m + 1 + i]
    <2>1. Len(t) = n - m - 1  BY <1>1, <1>2, <1>4
    <2>2. ASSUME NEW i \in 1..(n - m - 1) PROVE t[i] = words[m + 1 + i]
      <3>1. i \in 1..(n - (m + 2) + 1) /\ (m + 2) + i - 1 = m + 1 + i
        BY <1>1, <1>2
      <3> QED  BY <1>4, <3>1
    <2> QED  BY <2>1, <2>2
  <1>7. rest = s \o t  BY DEF s, t, n
  <1>8. /\ rest \in Seq(S) /\ Len(rest) = Len(s) + Len(t)
        /\ \A i \in 1..(Len(s) + Len(t)) :
              rest[i] = IF i <= Len(s) THEN s[i] ELSE t[i - Len(s)]
    <2>1. s \in Seq(S) /\ t \in Seq(S)  BY <1>3, <1>4
    <2>2. /\ s \o t \in Seq(S) /\ Len(s \o t) = Len(s) + Len(t)
          /\ \A i \in 1..(Len(s) + Len(t)) :
                (s \o t)[i] = IF i <= Len(s) THEN s[i] ELSE t[i - Len(s)]
      BY <2>1, ConcatProperties
    <2> QED  BY <1>7, <2>2, Zenon
  <1>9. Len(rest) = n - 2
    <2> DEFINE a == Len(s)
               b == Len(t)
    <2>1. Len(rest) = a + b /\ a = m - 1 /\ b = n - m - 1  BY <1>5, <1>6, <1>8
    <2> HIDE DEF a, b
    <2>2. a + b = n - 2  BY <2>1, <1>1, <1>2
    <2> QED  BY <2>1, <2>2
  <1>10. ASSUME NEW i \in 1..(m - 1) PROVE rest[i] = words[i]
    <2>1. Len(s) = m - 1 /\ Len(t) = n - m - 1  BY <1>5, <1>6
    <2>2. i \in 1..(m - 1 + (n - m - 1)) /\ i <= m - 1  BY <1>1, <1>2
    <2>3. i \in 1..(Len(s) + Len(t)) /\ i <= Len(s)  BY <2>1, <2>2
    <2>4. rest[i] = s[i]  BY <1>8, <2>3, Zenon
    <2> QED  BY <1>5, <2>4
  <1>11. ASSUME NEW i \in m..(n - 2) PROVE rest[i] = words[i + 2]
    <2>1. i \in 1..(Len(s) + Len(t)) /\ ~(i <= Len(s)) /\ i - Len(s) = i - m + 1
      BY <1>1, <1>2, <1>5, <1>6
    <2>2. rest[i] = t[i - m + 1]  BY <1>8, <2>1
    <2>3. i - m + 1 \in 1..(n - m - 1) /\ m + 1 + (i - m + 1) = i + 2
      BY <1>1, <1>2
    <2> QED  BY <1>6, <2>2, <2>3
  <1> QED  BY <1>8, <1>9, <1>10, <1>11 DEF Without, n

LEMMA RedirectIs ==
    ASSUME NEW S, NEW parse, IsParse(S, parse), NEW symbol
    PROVE  /\ IsParse(S, CheckAndInterpretRedirect(parse, symbol))
           /\ Redirects(parse, symbol, CheckAndInterpretRedirect(parse, symbol))
  <1> DEFINE words == parse.tokens
             n == Len(words)
             at == At(words, symbol)
             m == Min(at)
             new == CheckAndInterpretRedirect(parse, symbol)
  <1>1. n \in Nat /\ words \in Seq(S)  BY DEF IsParse
  <1>2. at = {i \in 1..n : words[i] = symbol}  BY DEF At
  <1>3. CASE ~parse.ok \/ at = {}
    <2>1. new = parse  BY <1>2, <1>3, Zenon DEF CheckAndInterpretRedirect
    <2> HIDE DEF new, at
    <2> QED  BY <1>3, <2>1 DEF Redirects, new, at
  <1>4. CASE parse.ok /\ at # {}
    <2>1. m \in at /\ \A i \in at : m <= i
      <3>1. at \subseteq Nat  BY <1>1, <1>2
      <3> HIDE DEF at
      <3> QED  BY <3>1, <1>4, MinIsIn
    <2>2. m \in 1..n  BY <1>2, <2>1
    <2>3. CASE n <= m
      <3>1. new = [parse EXCEPT !.ok = FALSE]
        BY <1>2, <1>4, <2>3, Zenon DEF CheckAndInterpretRedirect
      <3> HIDE DEF new
      <3>2. /\ new.tokens = words /\ new.in = parse.in /\ new.out = parse.out
            /\ new.ok = FALSE
            /\ new = [tokens |-> new.tokens, in |-> new.in, out |-> new.out,
                      ok |-> new.ok]
        <4>1. new = [tokens |-> words, in |-> parse.in, out |-> parse.out,
                     ok |-> FALSE]  BY <3>1 DEF IsParse
        <4> HIDE DEF words
        <4> QED  BY <4>1
      <3>3. IsParse(S, new)  BY <1>1, <3>2 DEF IsParse
      <3>4. m = n
        <4> HIDE DEF n, m
        <4> QED  BY <1>1, <2>2, <2>3
      <3> HIDE DEF at, m
      <3>5. Redirects(parse, symbol, new)
        BY <1>4, <2>1, <3>2, <3>4, Zenon DEF Redirects, at, m
      <3> QED  BY <3>3, <3>5 DEF new
    <2>4. CASE ~(n <= m)
      <3> DEFINE rest == SubSeq(words, 1, m - 1) \o SubSeq(words, m + 2, n)
                 given == <<symbol, words[m + 1]>>
                 is_input == symbol = <<"<">>
                 in == IF is_input /\ parse.in = <<>> THEN given ELSE parse.in
                 out == IF ~is_input /\ parse.out = <<>> THEN given ELSE parse.out
      <3>1. new = [tokens |-> rest, in |-> in, out |-> out, ok |-> TRUE]
        BY <1>2, <1>4, <2>4, Zenon DEF CheckAndInterpretRedirect
      <3>2. m \in 1..(n - 1) /\ m # n
        <4> HIDE DEF n, m
        <4> QED  BY <1>1, <2>2, <2>4
      <3>3. rest \in Seq(S) /\ Without(words, m, rest)
        <4> HIDE DEF m, words
        <4> QED  BY <1>1, <3>2, WithoutIs
      <3> HIDE DEF new, rest
      <3>4. /\ new.tokens = rest /\ new.in = in /\ new.out = out /\ new.ok = TRUE
            /\ new = [tokens |-> new.tokens, in |-> new.in, out |-> new.out,
                      ok |-> new.ok]
        <4> HIDE DEF in, out
        <4> QED  BY <3>1
      <3>5. IsParse(S, new)
        <4> HIDE DEF in, out
        <4> QED  BY <3>3, <3>4 DEF IsParse
      <3> HIDE DEF at, m
      <3>6. Redirects(parse, symbol, new)
        BY <1>4, <2>1, <3>2, <3>3, <3>4, Zenon DEF Redirects, at, m
      <3> QED  BY <3>5, <3>6 DEF new
    <2> QED  BY <2>3, <2>4
  <1> QED  BY <1>3, <1>4 DEF IsParse

LEMMA RedirectLoop ==
    ASSUME NEW base, NEW seq, NEW n \in Nat, DOMAIN seq = 1..n
    PROVE  FoldLeft(CheckAndInterpretRedirect, base, seq) = After(<<"Redirect">>, base, seq, n)
  <1>1. \A f, x : CheckAndInterpretRedirect(f, x) = Turn(<<"Redirect">>, f, x)
    BY DEF Turn
  <1>2. \E g : LoopEq(<<"Redirect">>, base, seq, n, g)  BY LoopExists
  <1>3. \E g : /\ LoopEq(<<"Redirect">>, base, seq, n, g)
               /\ FoldLeft(CheckAndInterpretRedirect, base, seq) = g[1..n]
    BY <1>1, <1>2, Zenon DEF FoldLeft, MapThenFoldSet, LoopEq
  <1> QED  BY <1>3, LoopIs

LEMMA RedirectedIs ==
    ASSUME NEW tokens
    PROVE  LET one == CheckAndInterpretRedirect(Unredirected(tokens), <<"<">>)
               two == CheckAndInterpretRedirect(one, <<">">>)
           IN  Redirected(tokens) = CheckAndInterpretRedirect(two, <<">", ">">>)
  <1> DEFINE s == RedirectSymbols
             now(m) == After(<<"Redirect">>, Unredirected(tokens), s, m)
  <1>1. DOMAIN s = 1..3 /\ s[1] = <<"<">> /\ s[2] = <<">">> /\ s[3] = <<">", ">">>
    BY DEF RedirectSymbols
  <1>2. Redirected(tokens) = FoldLeft(CheckAndInterpretRedirect, Unredirected(tokens), s)
    BY DEF Redirected, Unredirected
  <1> HIDE DEF s
  <1>3. Redirected(tokens) = now(3)  BY <1>1, <1>2, RedirectLoop
  <1>4. now(0) = Unredirected(tokens)  BY AfterNone
  <1>5. ASSUME NEW m \in Nat
        PROVE  now(m + 1) = CheckAndInterpretRedirect(now(m), s[m + 1])
    <2>1. now(m + 1) = Turn(<<"Redirect">>, now(m), s[m + 1])  BY AfterNext
    <2> HIDE DEF now
    <2> QED  BY <2>1 DEF Turn
  <1> HIDE DEF now
  <1>6. now(1) = CheckAndInterpretRedirect(now(0), s[1])
    <2>1. now(0 + 1) = CheckAndInterpretRedirect(now(0), s[0 + 1])  BY <1>5
    <2> QED  BY <2>1
  <1>7. now(2) = CheckAndInterpretRedirect(now(1), s[2])
    <2>1. now(1 + 1) = CheckAndInterpretRedirect(now(1), s[1 + 1])  BY <1>5
    <2> QED  BY <2>1
  <1>8. now(3) = CheckAndInterpretRedirect(now(2), s[3])
    <2>1. now(2 + 1) = CheckAndInterpretRedirect(now(2), s[2 + 1])  BY <1>5
    <2> QED  BY <2>1
  <1> QED  BY <1>1, <1>3, <1>4, <1>6, <1>7, <1>8

LEMMA FirstWordStays ==
    ASSUME NEW S, NEW parse, NEW word, StartsWith(S, parse, word),
           NEW symbol, word # symbol
    PROVE  StartsWith(S, CheckAndInterpretRedirect(parse, symbol), word)
  <1> DEFINE words == parse.tokens
             n == Len(words)
             at == At(words, symbol)
             m == Min(at)
             new == CheckAndInterpretRedirect(parse, symbol)
  <1>1. IsParse(S, new) /\ Redirects(parse, symbol, new)
    BY RedirectIs DEF StartsWith
  <1>2. words \in Seq(S) /\ words # <<>> /\ words[1] = word
    BY DEF StartsWith, IsParse
  <1>3. n \in Nat /\ n >= 1  BY <1>2, EmptySeq
  <1> HIDE DEF new
  <1>4. CASE ~parse.ok \/ at = {}
    <2>1. new = parse  BY <1>1, <1>4 DEF Redirects
    <2> QED  BY <2>1, <1>1, <1>2 DEF StartsWith, new
  <1>5. CASE parse.ok /\ at # {}
    <2>1. m \in at  BY <1>1, <1>5 DEF Redirects
    <2>2. m \in 1..n /\ m # 1  BY <1>2, <2>1 DEF At
    <2>3. CASE m = n
      <3>1. new.tokens = words  BY <1>1, <1>5, <2>3 DEF Redirects
      <3> QED  BY <3>1, <1>1, <1>2 DEF StartsWith, new
    <2>4. CASE m # n
      <3>1. Without(words, m, new.tokens) /\ m \in 1..(n - 1)
        BY <1>1, <1>5, <2>4 DEF Redirects
      <3> HIDE DEF at, m
      <3>2. Len(new.tokens) = n - 2 /\ new.tokens[1] = words[1]
        <4>1. 1 \in 1..(m - 1)
          <5> HIDE DEF n
          <5> QED  BY <1>3, <2>2
        <4> QED  BY <3>1, <4>1 DEF Without
      <3>3. n - 2 >= 1
        <4> HIDE DEF n
        <4> QED  BY <1>3, <2>2, <3>1
      <3>4. new.tokens \in Seq(S)  BY <1>1 DEF IsParse
      <3>5. new.tokens # <<>>
        <4>1. Len(new.tokens) >= 1  BY <3>2, <3>3
        <4> QED  BY <3>4, <4>1, NotEmpty
      <3> QED  BY <1>1, <1>2, <3>2, <3>5 DEF StartsWith, new
    <2> QED  BY <2>3, <2>4
  <1> QED  BY <1>4, <1>5

LEMMA RedirectedStartsWith ==
    ASSUME NEW S, NEW tokens \in Seq(S), tokens # <<>>,
           tokens[1] \notin {<<"<">>, <<">">>, <<">", ">">>}
    PROVE  StartsWith(S, Redirected(tokens), tokens[1])
  <1> DEFINE word == tokens[1]
             zero == Unredirected(tokens)
             one == CheckAndInterpretRedirect(zero, <<"<">>)
             two == CheckAndInterpretRedirect(one, <<">">>)
             three == CheckAndInterpretRedirect(two, <<">", ">">>)
  <1>1. StartsWith(S, zero, word)  BY DEF StartsWith, Unredirected, IsParse
  <1>2. word # <<"<">> /\ word # <<">">> /\ word # <<">", ">">>  OBVIOUS
  <1>3. Redirected(tokens) = three  BY RedirectedIs
  <1> DEFINE s1 == <<"<">>
             s2 == <<">">>
             s3 == <<">", ">">>
  <1> HIDE DEF s1, s2, s3, word, zero
  <1>4. StartsWith(S, CheckAndInterpretRedirect(zero, s1), word)
    BY <1>1, <1>2, FirstWordStays DEF s1
  <1>5. StartsWith(S, one, word)  BY <1>4 DEF s1
  <1> HIDE DEF one
  <1>6. StartsWith(S, CheckAndInterpretRedirect(one, s2), word)
    BY <1>5, <1>2, FirstWordStays DEF s2
  <1>7. StartsWith(S, two, word)  BY <1>6 DEF s2
  <1> HIDE DEF two
  <1>8. StartsWith(S, CheckAndInterpretRedirect(two, s3), word)
    BY <1>7, <1>2, FirstWordStays DEF s3
  <1> QED  BY <1>3, <1>8 DEF s3, word

LEMMA InterpretLoop ==
    ASSUME NEW base, NEW seq, NEW n \in Nat, DOMAIN seq = 1..n
    PROVE  FoldLeft(Interpret, base, seq) = After(<<"Interpret">>, base, seq, n)
  <1>1. \A f, x : Interpret(f, x) = Turn(<<"Interpret">>, f, x)  BY DEF Turn
  <1>2. \E g : LoopEq(<<"Interpret">>, base, seq, n, g)  BY LoopExists
  <1>3. \E g : /\ LoopEq(<<"Interpret">>, base, seq, n, g)
               /\ FoldLeft(Interpret, base, seq) = g[1..n]
    BY <1>1, <1>2, Zenon DEF FoldLeft, MapThenFoldSet, LoopEq
  <1> QED  BY <1>3, LoopIs

(* The outcomes of a line: of its commands up to one that ends it.         *)
LEMMA OutcomesAre ==
    ASSUME NEW n \in Nat, NEW commands, DOMAIN commands = 1..n, NEW l \in 1..n,
           \A i \in 1..(l - 1) : ~Stops(Outcome(commands[i])),
           l = n \/ Stops(Outcome(commands[l])), Len(commands) = n
    PROVE  EnsureAndTokenize(commands) = [i \in 1..l |-> Outcome(commands[i])]
  <1> DEFINE f == [i \in 1..n |-> Outcome(commands[i])]
             T(k) == [i \in 1..k |-> f[i]]
             now(m) == After(<<"Interpret">>, <<>>, commands, m)
             S == {m \in 0..n : now(m) = T(IF m < l THEN m ELSE l)}
  <1>1. 0 \in S
    <2>1. now(0) = <<>>  BY AfterNone
    <2>2. T(0) = <<>>  OBVIOUS
    <2>3. 0 < l /\ 0 \in 0..n  OBVIOUS
    <2> HIDE DEF T, now
    <2> QED  BY <2>1, <2>2, <2>3
  <1>2. ASSUME NEW m \in 0..(n - 1), now(m) = T(IF m < l THEN m ELSE l)
        PROVE  now(m + 1) = T(IF m + 1 < l THEN m + 1 ELSE l)
    <2>1. m \in Nat /\ m + 1 \in 1..n  OBVIOUS
    <2>2. now(m + 1) = Interpret(now(m), commands[m + 1])
      <3>1. now(m + 1) = Turn(<<"Interpret">>, now(m), commands[m + 1])
        BY <2>1, AfterNext
      <3> HIDE DEF now
      <3> QED  BY <3>1 DEF Turn
    <2>3. CASE m < l
      <3>1. now(m) = T(m)  BY <1>2, <2>3
      <3>2. DOMAIN T(m) = 1..m /\ \A i \in 1..m : T(m)[i] = Outcome(commands[i])
        BY <2>1
      <3>3. \A i \in 1..m : ~Stops(Outcome(commands[i]))  BY <2>3, <2>1
      <3> HIDE DEF T, now, f
      <3>4. ~\E o \in ToSet(T(m)) : o.do \in {"abort", "symbol"}
        BY <3>2, <3>3 DEF ToSet, Stops
      <3>5. now(m + 1) = Append(T(m), Outcome(commands[m + 1]))
        BY <2>2, <3>1, <3>4 DEF Interpret
      <3>6. Append(T(m), f[m + 1]) = T(m + 1)
        <4>1. Append([i \in 1..m |-> f[i]], f[m + 1]) =
                 [i \in 1..(m + 1) |-> IF i <= m THEN f[i] ELSE f[m + 1]]
          BY <2>1, AppendToFunction
        <4>2. \A i \in 1..(m + 1) : (IF i <= m THEN f[i] ELSE f[m + 1]) = f[i]
          BY <2>1
        <4> QED  BY <4>1, <4>2 DEF T
      <3>7. f[m + 1] = Outcome(commands[m + 1])  BY <2>1 DEF f
      <3>8. now(m + 1) = T(m + 1)  BY <3>5, <3>6, <3>7
      <3>9. m + 1 < l \/ m + 1 = l  BY <2>3, <2>1
      <3> QED  BY <3>8, <3>9
    <2>4. CASE ~(m < l)
      <3>1. now(m) = T(l) /\ ~(m + 1 < l) /\ l # n  BY <1>2, <2>4
      <3>2. DOMAIN T(l) = 1..l /\ l \in 1..l /\ T(l)[l] = Outcome(commands[l])
        OBVIOUS
      <3> HIDE DEF T, now, f
      <3>3. \E o \in ToSet(T(l)) : o.do \in {"abort", "symbol"}
        BY <3>1, <3>2 DEF ToSet, Stops
      <3>4. now(m + 1) = T(l)  BY <2>2, <3>1, <3>3 DEF Interpret
      <3> QED  BY <3>1, <3>4
    <2> QED  BY <2>3, <2>4
  <1>3. \A m \in 0..(n - 1) : m \in S => m + 1 \in S
    <2> TAKE m \in 0..(n - 1)
    <2>1. m + 1 \in 0..n  OBVIOUS
    <2> HIDE DEF T, now
    <2> QED  BY <1>2, <2>1
  <1> HIDE DEF S
  <1>4. 0..n \subseteq S  BY <1>1, <1>3, SetInductionUpTo
  <1>5. now(n) = T(l)
    <2>1. n \in S /\ ~(n < l)  BY <1>4
    <2> HIDE DEF T, now
    <2> QED  BY <2>1 DEF S
  <1>6. EnsureAndTokenize(commands) = now(n)
    BY InterpretLoop DEF EnsureAndTokenize
  <1>7. T(l) = [i \in 1..l |-> Outcome(commands[i])]  OBVIOUS
  <1> HIDE DEF T, now
  <1> QED  BY <1>5, <1>6, <1>7

----
(* Sequences one behind the other.                                         *)
LEMMA FlattenIs ==
    ASSUME NEW S, NEW seqs \in Seq(Seq(S))
    PROVE  /\ FlattenSeq(seqs) = After(<<"Concat">>, <<>>, seqs, Len(seqs))
           /\ FlattenSeq(seqs) \in Seq(S)
  <1> DEFINE n == Len(seqs)
             now(i) == After(<<"Concat">>, <<>>, seqs, i)
             g == CHOOSE g : FlatEq(seqs, n, g)
             T == {i \in 0..n : now(i) \in Seq(S)}
             U == {i \in 0..n : i = 0 \/ g[i] = now(i)}
  <1>0. n \in Nat /\ (\A i \in 1..n : seqs[i] \in Seq(S)) /\ (n = 0 <=> seqs = <<>>)
    OBVIOUS
  <1> HIDE DEF n
  <1>1. now(0) = <<>> /\ <<>> \in Seq(S)  BY AfterNone
  <1>2. ASSUME NEW i \in 0..(n - 1)
        PROVE  now(i + 1) = now(i) \o seqs[i + 1]
    <2>1. i \in Nat  OBVIOUS
    <2>2. now(i + 1) = Turn(<<"Concat">>, now(i), seqs[i + 1])
      BY <2>1, AfterNext
    <2> HIDE DEF now
    <2> QED  BY <2>2 DEF Turn
  <1> HIDE DEF now
  <1>3. \A i \in 0..n : now(i) \in Seq(S)
    <2>1. 0 \in T
      <3>1. now(0) \in Seq(S)  BY <1>1
      <3>2. 0 \in 0..n  BY <1>0
      <3> QED  BY <3>1, <3>2
    <2>2. ASSUME NEW i \in 0..(n - 1), i \in T PROVE i + 1 \in T
      <3>1. i + 1 \in 1..n /\ i + 1 \in 0..n  BY <1>0
      <3>2. now(i) \in Seq(S) /\ seqs[i + 1] \in Seq(S)  BY <1>0, <3>1, <2>2
      <3>3. now(i) \o seqs[i + 1] \in Seq(S)  BY <3>2, ConcatProperties
      <3> QED  BY <1>2, <3>1, <3>3
    <2> HIDE DEF T
    <2>3. 0..n \subseteq T  BY <1>0, <2>1, <2>2, SetInductionUpTo
    <2> QED  BY <2>3 DEF T
  <1>4. CASE n = 0
    <2>1. FlattenSeq(seqs) = <<>>  BY <1>0, <1>4, Zenon DEF FlattenSeq, n
    <2> QED  BY <2>1, <1>1, <1>4 DEF now, n
  <1>5. CASE n # 0
    <2> DEFINE f == [i \in 1..n |-> now(i)]
               next(h, i) == IF i = 1 THEN seqs[i] ELSE h[i - 1] \o seqs[i]
    <2>1. ASSUME NEW i \in 1..n
          PROVE  f[i] = next(f, i)
      <3>1. i - 1 \in 0..(n - 1) /\ (i - 1) + 1 = i /\ f[i] = now(i)  BY <1>0
      <3>2. now(i) = now(i - 1) \o seqs[i]  BY <1>2, <3>1
      <3>3. CASE i = 1
        <4>1. seqs[1] \in Seq(S) /\ now(1) = <<>> \o seqs[1]
          <5>1. 1 - 1 = 0 /\ 1 \in 1..n  BY <3>3
          <5>2. now(1) = now(0) \o seqs[1]  BY <3>2, <3>3, <5>1
          <5> QED  BY <1>0, <1>1, <5>1, <5>2
        <4>2. <<>> \o seqs[1] = seqs[1]  BY <4>1, ConcatEmptySeq
        <4> QED  BY <3>1, <3>3, <4>1, <4>2
      <3>4. CASE i # 1
        <4>1. i - 1 \in 1..n  BY <1>0, <3>4
        <4>2. f[i - 1] = now(i - 1)  BY <4>1
        <4> QED  BY <3>1, <3>2, <3>4, <4>2
      <3> QED  BY <3>3, <3>4
    <2>2. FlatEq(seqs, n, f)
      <3>1. f = [i \in 1..n |-> f[i]]  OBVIOUS
      <3> HIDE DEF f
      <3>2. f = [i \in 1..n |-> next(f, i)]  BY <2>1, <3>1
      <3> QED  BY <3>2 DEF FlatEq
    <2>3. FlatEq(seqs, n, g)  BY <2>2
    <2>4. FlattenSeq(seqs) = g[n]  BY <1>5, Zenon DEF FlattenSeq, FlatEq, n
    <2> HIDE DEF g, f
    <2>5. \A i \in 1..n : g[i] = next(g, i)  BY <2>3 DEF FlatEq
    <2>6. 0 \in U  BY <1>0
    <2>7. ASSUME NEW i \in 0..(n - 1), i \in U PROVE i + 1 \in U
      <3>1. i + 1 \in 1..n /\ i + 1 \in 0..n /\ (i + 1) - 1 = i /\ i \in Nat
        BY <1>0
      <3>2. g[i + 1] = next(g, i + 1)  BY <2>5, <3>1
      <3>3. CASE i = 0
        <4>1. seqs[1] \in Seq(S) /\ now(1) = <<>> \o seqs[1]
          <5>1. 0 + 1 = 1 /\ 0 \in 0..(n - 1) /\ 1 \in 1..n  BY <3>1, <3>3
          <5>2. now(0 + 1) = now(0) \o seqs[0 + 1]  BY <1>2, <5>1
          <5>3. now(1) = now(0) \o seqs[1]  BY <5>1, <5>2
          <5> QED  BY <1>0, <1>1, <5>1, <5>3
        <4>2. <<>> \o seqs[1] = seqs[1]  BY <4>1, ConcatEmptySeq
        <4>3. g[1] = now(1)  BY <3>2, <3>3, <4>1, <4>2
        <4> QED  BY <3>1, <3>3, <4>3
      <3>4. CASE i # 0
        <4>1. g[i] = now(i)  BY <2>7, <3>4
        <4>2. g[i + 1] = g[i] \o seqs[i + 1]
          <5>1. i + 1 # 1  BY <3>1, <3>4
          <5> QED  BY <3>1, <3>2, <5>1
        <4>3. g[i + 1] = now(i + 1)  BY <1>2, <4>1, <4>2
        <4> QED  BY <3>1, <4>3
      <3> QED  BY <3>3, <3>4
    <2> HIDE DEF U
    <2>8. 0..n \subseteq U  BY <1>0, <2>6, <2>7, SetInductionUpTo
    <2>9. n \in U /\ n \in 0..n  BY <1>0, <2>8
    <2>10. g[n] = now(n)  BY <1>5, <2>9 DEF U
    <2> QED  BY <1>3, <2>4, <2>9, <2>10 DEF now, n
  <1> QED  BY <1>4, <1>5

(* The line of an input.                                                   *)
LEMMA LineType ==
    ASSUME InputType, IsLine
    PROVE  Line \in Seq(STRING) /\ Line # <<>> /\ Solid(Line) # {}
  <1>1. kind = "line" /\ "line" \in DOMAIN Inputs /\ input \in Seq(Inputs["line"])
    BY DEF InputType, IsLine
  <1>2. Inputs["line"] \subseteq Seq(STRING)  BY <1>1, LinesAssumption
  <1>3. input \in Seq(Seq(STRING))
    <2> DEFINE A == Inputs["line"]
               B == Seq(STRING)
    <2>1. input \in Seq(A) /\ A \subseteq B  BY <1>1, <1>2
    <2> HIDE DEF A, B
    <2>2. input \in Seq(B)  BY <2>1
    <2> QED  BY <2>2 DEF B
  <1>4. Line \in Seq(STRING)  BY <1>3, FlattenIs DEF Line
  <1>5. Solid(Line) # {}  BY <1>4, BlankIs DEF IsLine
  <1>6. Line # <<>>
    <2> DEFINE l == Line
    <2> HIDE DEF l
    <2>1. ASSUME l = <<>> PROVE FALSE
      <3>1. Len(l) = 0  BY <2>1
      <3>2. Solid(l) = {}  BY <3>1 DEF Solid
      <3> QED  BY <3>2, <1>5 DEF l
    <2> QED  BY <2>1 DEF l
  <1> QED  BY <1>4, <1>5, <1>6

----
(* One command: its tokens without the & at the end of the last.           *)
LEMMA InterpretCommandIs ==
    ASSUME NEW command
    PROVE  LET tokens == GetLines(command, Space)
               parse == Redirected(Bare(tokens))
           IN  InterpretCommand(command) =
                  IF ~parse.ok THEN [do |-> "malformed"]
                  ELSE [do |-> "run", cmd |-> Head(parse.tokens),
                        args |-> Arguments(Tail(parse.tokens)),
                        in |-> parse.in, out |-> parse.out,
                        bg |-> Last(Last(tokens)) = "&"]
  BY Zenon DEF InterpretCommand, Bare

LEMMA FrontBegins ==
    ASSUME NEW S, NEW s \in Seq(S), NEW x, NEW y, x # y, Begins(s, x), Ends(s, y)
    PROVE  Begins(Front(s), x)
  <1> DEFINE n == Len(s)
  <1>1. /\ n \in Nat /\ n >= 1 /\ Front(s) \in Seq(S) /\ Len(Front(s)) = n - 1
        /\ \A i \in 1..(n - 1) : Front(s)[i] = s[i]
        /\ Last(s) = s[n]  BY FrontIs DEF Begins
  <1>2. n # 1  BY <1>1 DEF Begins, Ends
  <1> HIDE DEF n
  <1>3. 1 \in 1..(n - 1) /\ n - 1 >= 1  BY <1>1, <1>2
  <1>4. Front(s)[1] = s[1]  BY <1>1, <1>3
  <1>5. Front(s) # <<>>  BY <1>1, <1>3, NotEmpty
  <1> QED  BY <1>4, <1>5 DEF Begins

LEMMA BareIs ==
    ASSUME NEW S, NEW tokens, IsSplit(S, Space, tokens), Last(tokens) # <<>>
    PROVE  LET n == Len(tokens)
               bare == Bare(tokens)
           IN  /\ n \in Nat /\ n >= 1
               /\ bare \in Seq(Seq(S \ {Space})) /\ bare # <<>> /\ Len(bare) = n
               /\ \A i \in 1..(n - 1) : bare[i] = tokens[i]
               /\ bare[n] = IF Last(tokens[n]) = "&" THEN Front(tokens[n])
                            ELSE tokens[n]
  <1> DEFINE R == Seq(S \ {Space})
             n == Len(tokens)
             f == Front(tokens)
             last == tokens[n]
             bare == Bare(tokens)
  <1> HIDE DEF R
  <1>0. tokens \in Seq(R) /\ tokens # <<>>  BY DEF IsSplit, R
  <1>1. /\ n \in Nat /\ n >= 1 /\ f \in Seq(R) /\ Len(f) = n - 1
        /\ \A i \in 1..(n - 1) : f[i] = tokens[i]
        /\ Last(tokens) \in R /\ Last(tokens) = last  BY <1>0, FrontIs
  <1>2. Front(last) \in R
    <2> HIDE DEF last
    <2>1. last \in Seq(S \ {Space}) /\ last # <<>>  BY <1>1 DEF R
    <2>2. Front(last) \in Seq(S \ {Space})  BY <2>1, FrontIs
    <2> QED  BY <2>2 DEF R
  <1>3. bare = IF Last(last) = "&" THEN Append(f, Front(last)) ELSE tokens
    BY <1>1, Zenon DEF Bare
  <1> HIDE DEF f, last, bare
  <1>4. CASE Last(last) = "&"
    <2> DEFINE z == Front(last)
               k == Len(f)
    <2>1. z \in R /\ f \in Seq(R) /\ bare = Append(f, z) /\ k = n - 1 /\ n \in Nat
      BY <1>1, <1>2, <1>3, <1>4
    <2> HIDE DEF z, n
    <2>2. /\ Append(f, z) \in Seq(R) /\ Append(f, z) # <<>>
          /\ Len(Append(f, z)) = k + 1
          /\ Append(f, z)[k + 1] = z
          /\ \A i \in 1..k : Append(f, z)[i] = f[i]  BY <2>1, AppendIs
    <2> HIDE DEF k
    <2>3. k + 1 = n  BY <2>1
    <2>4. /\ bare \in Seq(R) /\ bare # <<>> /\ Len(bare) = n
          /\ bare[n] = z /\ \A i \in 1..(n - 1) : bare[i] = tokens[i]
      BY <1>1, <2>1, <2>2, <2>3
    <2> USE DEF z
    <2> QED  BY <1>1, <1>4, <2>4 DEF R, n, last, bare
  <1>5. CASE Last(last) # "&"  BY <1>0, <1>1, <1>3, <1>5 DEF R, last, bare
  <1> QED  BY <1>4, <1>5

LEMMA HeadNoSymbol ==
    ASSUME NEW word, NEW x, Begins(word, x), x \notin Symbol
    PROVE  word \notin {<<"<">>, <<">">>, <<">", ">">>}
  BY DEF Begins, Symbol

LEMMA CommandRuns ==
    ASSUME NEW C, NEW command \in Seq(C), NEW x, Begins(command, x),
           x \notin Symbol, x # Space, Last(command) # Space
    PROVE  LET o == InterpretCommand(command)
           IN  /\ o.do \in {"run", "malformed"}
               /\ o.do = "run" => Begins(o.cmd, x)
  <1> DEFINE tokens == GetLines(command, Space)
             bare == Bare(tokens)
             parse == Redirected(bare)
             o == InterpretCommand(command)
             y == Last(command)
             n == Len(tokens)
             R == Seq(C \ {Space})
  <1>1. o = IF ~parse.ok THEN [do |-> "malformed"]
            ELSE [do |-> "run", cmd |-> Head(parse.tokens),
                  args |-> Arguments(Tail(parse.tokens)),
                  in |-> parse.in, out |-> parse.out,
                  bg |-> Last(Last(tokens)) = "&"]  BY InterpretCommandIs
  <1>2. command # <<>> /\ command[1] = x  BY DEF Begins
  <1>3. /\ IsSplit(C, Space, tokens) /\ Begins(tokens[1], x) /\ Ends(Last(tokens), y)
    BY <1>2, GetLinesOfSome
  <1> HIDE DEF tokens, bare, parse, o, y
  <1>4. /\ n \in Nat /\ n >= 1
        /\ bare \in Seq(R) /\ bare # <<>> /\ Len(bare) = n
        /\ \A i \in 1..(n - 1) : bare[i] = tokens[i]
        /\ bare[n] = IF Last(tokens[n]) = "&" THEN Front(tokens[n]) ELSE tokens[n]
    <2>1. Last(tokens) # <<>>  BY <1>3 DEF Ends
    <2> QED  BY <1>3, <2>1, BareIs DEF bare
  <1>40. n \in Nat /\ n >= 1  BY <1>4
  <1>5. Begins(bare[1], x)
    <2>1. CASE n # 1
      <3> HIDE DEF n
      <3>1. 1 \in 1..(n - 1)  BY <1>40, <2>1
      <3> QED  BY <1>3, <1>4, <3>1 DEF n
    <2>2. CASE n = 1 /\ Last(tokens[1]) # "&"
      <3> HIDE DEF n
      <3>1. bare[1] = IF Last(tokens[1]) = "&" THEN Front(tokens[1]) ELSE tokens[1]
        BY <1>4, <2>2 DEF n
      <3> QED  BY <1>3, <2>2, <3>1
    <2>3. CASE n = 1 /\ Last(tokens[1]) = "&"
      <3>0. 1 \in 1..Len(tokens)  BY <2>3
      <3>1. tokens[1] \in R  BY <1>3, <3>0, PieceOf
      <3>2. Ends(tokens[1], "&") /\ x # "&"
        BY <1>3, <2>3 DEF Begins, Ends, Symbol
      <3>3. Begins(Front(tokens[1]), x)  BY <1>3, <3>1, <3>2, FrontBegins
      <3> HIDE DEF n
      <3>4. bare[1] = IF Last(tokens[1]) = "&" THEN Front(tokens[1]) ELSE tokens[1]
        BY <1>4, <2>3 DEF n
      <3> QED  BY <2>3, <3>3, <3>4
    <2> QED  BY <2>1, <2>2, <2>3
  <1> HIDE DEF n, R
  <1>6. bare[1] \notin {<<"<">>, <<">">>, <<">", ">">>}  BY <1>5, HeadNoSymbol
  <1>7. StartsWith(R, parse, bare[1])
    BY <1>4, <1>6, RedirectedStartsWith DEF parse
  <1> DEFINE words == parse.tokens
             cmd == Head(words)
  <1>8. cmd = bare[1]
    <2>1. words \in Seq(R) /\ words # <<>> /\ words[1] = bare[1]
      BY <1>7 DEF StartsWith, IsParse
    <2> HIDE DEF words
    <2> QED  BY <2>1
  <1>9. CASE parse.ok
    <2> DEFINE args == Arguments(Tail(words))
               amp == Last(Last(tokens)) = "&"
    <2>1. o = [do |-> "run", cmd |-> cmd, args |-> args, in |-> parse.in,
               out |-> parse.out, bg |-> amp]  BY <1>1, <1>9, Zenon
    <2> HIDE DEF args, amp, cmd
    <2>2. o.do = "run" /\ o.cmd = cmd  BY <2>1
    <2> QED  BY <1>5, <1>8, <2>2 DEF o
  <1>10. CASE ~parse.ok
    <2>1. o = [do |-> "malformed"]  BY <1>1, <1>10, Zenon
    <2>2. o.do = "malformed"  BY <2>1
    <2> QED  BY <2>2 DEF o
  <1> QED  BY <1>9, <1>10

----
(* The commands of a typed line.                                           *)
LEMMA AmpIs ==
    /\ Amp \in Seq(Chars) /\ <<>> \in Seq(Chars)
    /\ Amp # <<>> /\ Head(Amp) = "&"
  <1>1. "&" \in Chars  BY DEF Chars
  <1>2. <<>> \in Seq(Chars)  OBVIOUS
  <1>3. Amp = Append(<<>>, "&")  BY DEF Amp
  <1>4. Append(<<>>, "&") \in Seq(Chars)  BY <1>1, <1>2
  <1>5. Amp # <<>> /\ Head(Amp) = "&"  BY DEF Amp
  <1> QED  BY <1>2, <1>3, <1>4, <1>5

LEMMA SpaceIsNoAmp == "&" # Space  BY Zenon DEF Space

LEMMA TypedPieceIs ==
    ASSUME NEW piece \in Seq(Chars \ {"&"}), NEW tail \in {<<>>, Amp}
    PROVE  LET clean == CleanTrailingSpaces(piece)
               command == TypedPiece(piece, tail)
           IN  /\ Blank(piece) => command = tail
               /\ ~Blank(piece) =>
                     /\ command \in Seq(Chars)
                     /\ Begins(command, Head(clean))
                     /\ Last(command) # Space
                     /\ Head(clean) \notin {Space, "&"}
                     /\ clean \in Seq(Chars \ {"&"}) /\ clean # <<>>
                     /\ Last(clean) # Space
                     /\ tail = Amp => command = Append(clean, "&")
                     /\ tail = <<>> => command = clean
  <1> DEFINE clean == CleanTrailingSpaces(piece)
             command == TypedPiece(piece, tail)
             S == Chars \ {"&"}
  <1>1. /\ Blank(piece) <=> clean = <<>>
        /\ clean \in Seq(S)
        /\ clean # <<>> => clean[1] # Space /\ Last(clean) # Space  BY BlankIs
  <1>2. command = clean \o tail  BY DEF TypedPiece
  <1>3. S \subseteq Chars /\ "&" \notin S /\ "&" \in Chars  BY DEF Chars
  <1>4. clean \in Seq(Chars)
    <2> HIDE DEF clean, S
    <2> QED  BY <1>1, <1>3
  <1>5. tail \in Seq(Chars)  BY AmpIs
  <1> HIDE DEF clean, command, S
  <1>6. CASE Blank(piece)
    <2>1. command = <<>> \o tail  BY <1>1, <1>2, <1>6
    <2>2. <<>> \o tail = tail  BY <1>5, ConcatEmptySeq
    <2> QED  BY <1>6, <2>1, <2>2 DEF clean, command
  <1>7. CASE ~Blank(piece)
    <2>1. clean # <<>> /\ Len(clean) \in Nat /\ Len(clean) >= 1
      BY <1>1, <1>7, EmptySeq
    <2>2. Head(clean) = clean[1] /\ clean[1] \in S  BY <1>1, <2>1
    <2>3. Head(clean) \notin {Space, "&"}  BY <1>1, <1>3, <2>1, <2>2
    <2>4. CASE tail = <<>>
      <3>1. command = clean
        <4>1. clean \o <<>> = clean  BY <1>4, ConcatEmptySeq
        <4> QED  BY <1>2, <2>4, <4>1
      <3>2. Begins(command, Head(clean))  BY <2>1, <2>2, <3>1 DEF Begins
      <3>3. tail # Amp  BY <2>4 DEF Amp
      <3> QED  BY <1>1, <1>4, <1>7, <2>1, <2>3, <3>1, <3>2, <3>3 DEF clean, command, S
    <2>5. CASE tail = Amp
      <3>1. command = Append(clean, "&")
        <4>1. Append(clean, "&") = clean \o Amp
          BY <1>3, <1>4, AppendIsConcat DEF Amp
        <4> QED  BY <1>2, <2>5, <4>1
      <3>2. /\ Append(clean, "&") \in Seq(Chars)  BY <1>3, <1>4, AppendIs
      <3>3. Ends(command, "&") /\ Begins(command, Head(clean))
        <4>1. Begins(clean, Head(clean))  BY <2>1, <2>2 DEF Begins
        <4>2. /\ Ends(Append(clean, "&"), "&")
              /\ \A c : Begins(clean, c) => Begins(Append(clean, "&"), c)
          BY <1>3, <1>4, AppendBegins
        <4> QED  BY <3>1, <4>1, <4>2
      <3>4. Last(command) # Space  BY <3>3, SpaceIsNoAmp DEF Ends
      <3>5. tail # <<>>  BY <2>5 DEF Amp
      <3> QED  BY <1>1, <1>7, <2>1, <2>3, <3>1, <3>2, <3>3, <3>4, <3>5
               DEF clean, command, S
    <2> QED  BY <2>4, <2>5
  <1> QED  BY <1>6, <1>7

LEMMA OutcomeOfPiece ==
    ASSUME NEW piece \in Seq(Chars \ {"&"}), NEW tail \in {<<>>, Amp}
    PROVE  LET o == Outcome(TypedPiece(piece, tail))
           IN  /\ StartsCommand(piece) =>
                     /\ o = InterpretCommand(TypedPiece(piece, tail))
                     /\ o.do \in {"run", "malformed"}
                     /\ o.do = "run" => o.cmd # <<>> /\ Head(o.cmd) \notin Symbol
               /\ ~StartsCommand(piece) =>
                     o.do = IF Blank(piece) /\ tail = <<>> THEN "abort"
                            ELSE "symbol"
  <1> DEFINE clean == CleanTrailingSpaces(piece)
             command == TypedPiece(piece, tail)
             o == Outcome(command)
             x == Head(clean)
  <1>1. /\ Blank(piece) => command = tail
        /\ ~Blank(piece) =>
              /\ command \in Seq(Chars)
              /\ Begins(command, x)
              /\ Last(command) # Space
              /\ x \notin {Space, "&"}  BY TypedPieceIs
  <1>2. StartsCommand(piece) <=> ~Blank(piece) /\ x \notin {"<", ">", "|"}
    BY DEF StartsCommand
  <1> HIDE DEF clean, command, x
  <1>3. o = IF command = <<>> THEN [do |-> "abort"]
            ELSE IF Head(command) \in Symbol THEN [do |-> "symbol"]
            ELSE InterpretCommand(command)  BY DEF Outcome, Symbol
  <1> HIDE DEF o
  <1>4. CASE Blank(piece)
    <2>1. CASE tail = <<>>
      <3>1. o = [do |-> "abort"]  BY <1>1, <1>3, <1>4, <2>1
      <3> QED  BY <1>2, <1>4, <2>1, <3>1 DEF o, command
    <2>2. CASE tail = Amp
      <3>1. command # <<>> /\ Head(command) = "&"  BY <1>1, <1>4, <2>2, AmpIs
      <3>2. o = [do |-> "symbol"]  BY <1>3, <3>1 DEF Symbol
      <3>3. tail # <<>>  BY <2>2 DEF Amp
      <3> QED  BY <1>2, <1>4, <3>2, <3>3 DEF o, command
    <2> QED  BY <2>1, <2>2
  <1>5. CASE ~Blank(piece)
    <2>1. command # <<>> /\ Head(command) = x
      <3>1. command \in Seq(Chars) /\ command # <<>> /\ command[1] = x
        BY <1>1, <1>5 DEF Begins
      <3> QED  BY <3>1
    <2>2. CASE x \in Symbol
      <3>1. o = [do |-> "symbol"]  BY <1>3, <2>1, <2>2
      <3>2. ~StartsCommand(piece)  BY <1>1, <1>2, <1>5, <2>2 DEF Symbol
      <3> QED  BY <1>5, <3>1, <3>2 DEF o, command
    <2>3. CASE x \notin Symbol
      <3>1. o = InterpretCommand(command)  BY <1>3, <2>1, <2>3
      <3>2. /\ InterpretCommand(command).do \in {"run", "malformed"}
            /\ InterpretCommand(command).do = "run" =>
                  Begins(InterpretCommand(command).cmd, x)
        BY <1>1, <1>5, <2>3, CommandRuns
      <3>3. StartsCommand(piece)  BY <1>2, <1>5, <2>3 DEF Symbol
      <3>4. o.do \in {"run", "malformed"} /\ (o.do = "run" => Begins(o.cmd, x))
        BY <3>1, <3>2
      <3>5. o.do = "run" => o.cmd # <<>> /\ Head(o.cmd) \notin Symbol
        <4> SUFFICES ASSUME o.do = "run"
                     PROVE  o.cmd # <<>> /\ Head(o.cmd) \notin Symbol
          OBVIOUS
        <4>1. o.cmd # <<>> /\ o.cmd[1] = x  BY <3>4 DEF Begins
        <4>2. Head(o.cmd) = o.cmd[1]  OBVIOUS
        <4> QED  BY <2>3, <4>1, <4>2
      <3> QED  BY <3>1, <3>3, <3>4, <3>5 DEF o, command
    <2> QED  BY <2>2, <2>3
  <1> QED  BY <1>4, <1>5

LEMMA TypedIs ==
    ASSUME NEW line, IsSplit(Chars, "&", GetLines(line, "&"))
    PROVE  LET pieces == GetLines(line, "&")
           IN  /\ Len(pieces) \in Nat /\ Len(pieces) >= 1
               /\ DOMAIN Typed(line) = 1..Len(pieces)
               /\ Len(Typed(line)) = Len(pieces)
               /\ \A i \in 1..Len(pieces) :
                     Typed(line)[i] =
                        TypedPiece(pieces[i],
                                   IF i < Len(pieces) THEN Amp ELSE <<>>)
  <1> DEFINE pieces == GetLines(line, "&")
             n == Len(pieces)
  <1>1. /\ n \in Nat /\ n >= 1 /\ DOMAIN pieces = 1..n  BY EmptySeq DEF IsSplit
  <1>2. Typed(line) = [i \in 1..n |->
                          CleanTrailingSpaces(pieces[i])
                          \o (IF i < n THEN <<"&">> ELSE <<>>)]  BY DEF Typed
  <1> HIDE DEF pieces, n
  <1>3. \A i \in 1..n : Typed(line)[i] =
           TypedPiece(pieces[i], IF i < n THEN Amp ELSE <<>>)
    BY <1>2 DEF TypedPiece, Amp
  <1>4. DOMAIN Typed(line) = 1..n /\ Len(Typed(line)) = n  BY <1>1, <1>2
  <1> QED  BY <1>1, <1>3, <1>4 DEF pieces, n

(* The commands of a line up to the first that cannot be started.          *)
LEMMA TypedEndsAtUnusable ==
    ASSUME NEW line, IsSplit(Chars, "&", GetLines(line, "&"))
    PROVE  /\ EndsAtUnusable(GetLines(line, "&"), RunTyped(line))
           /\ \A i \in DOMAIN RunTyped(line) :
                 LET pieces == GetLines(line, "&")
                 IN  /\ i \in 1..Len(pieces)
                     /\ RunTyped(line)[i] =
                           Outcome(TypedPiece(pieces[i],
                                   IF i < Len(pieces) THEN Amp ELSE <<>>))
  <1> DEFINE pieces == GetLines(line, "&")
             n == Len(pieces)
             tail(i) == IF i < n THEN Amp ELSE <<>>
             c(i) == TypedPiece(pieces[i], tail(i))
             unusable == {i \in 1..n : ~StartsCommand(pieces[i])}
             last == Min(unusable \union {n})
             outcomes == RunTyped(line)
             typed == Typed(line)
  <1>1. /\ n \in Nat /\ n >= 1
        /\ DOMAIN typed = 1..n /\ Len(typed) = n
        /\ \A i \in 1..n : typed[i] = c(i)  BY TypedIs
  <1>2. \A i \in 1..n : pieces[i] \in Seq(Chars \ {"&"})  BY PieceOf
  <1>3. \A i \in 1..n : tail(i) \in {<<>>, Amp}  OBVIOUS
  <1>4. DOMAIN pieces = 1..n  BY DEF IsSplit
  <1>5. outcomes = EnsureAndTokenize(typed)  BY DEF RunTyped
  <1>6. \A i \in 1..n :
           /\ StartsCommand(pieces[i]) =>
                 /\ Outcome(c(i)).do \in {"run", "malformed"}
                 /\ Outcome(c(i)).do = "run" =>
                       Outcome(c(i)).cmd # <<>> /\ Head(Outcome(c(i)).cmd) \notin Symbol
           /\ ~StartsCommand(pieces[i]) =>
                 Outcome(c(i)).do = IF Blank(pieces[i]) /\ tail(i) = <<>>
                                    THEN "abort" ELSE "symbol"
    <2> TAKE i \in 1..n
    <2>1. pieces[i] \in Seq(Chars \ {"&"}) /\ tail(i) \in {<<>>, Amp}
      BY <1>2, <1>3
    <2> HIDE DEF pieces, n, tail
    <2> QED  BY <2>1, OutcomeOfPiece
  <1>7. \A i \in 1..n : tail(i) = <<>> <=> i = n  BY <1>1, AmpIs
  <1>8. \A i \in 1..n : Blank(pieces[i]) => ~StartsCommand(pieces[i])
    BY DEF StartsCommand
  <1> HIDE DEF pieces, n, tail, c, outcomes, typed
  <1>9. /\ last \in unusable \union {n}
        /\ \A y \in unusable \union {n} : last <= y
    <2>1. unusable \union {n} \subseteq Nat /\ unusable \union {n} # {}
      BY <1>1
    <2> HIDE DEF unusable
    <2> QED  BY <2>1, MinIsIn
  <1> HIDE DEF last
  <1>10. last \in 1..n  BY <1>1, <1>9
  <1>11. \A i \in 1..(last - 1) : i \in 1..n /\ StartsCommand(pieces[i])
    BY <1>1, <1>9, <1>10
  <1>12. last = n \/ ~StartsCommand(pieces[last])  BY <1>9
  <1> DEFINE o(i) == Outcome(typed[i])
  <1>13. outcomes = [i \in 1..last |-> o(i)]
    <2>1. \A i \in 1..(last - 1) : ~Stops(Outcome(typed[i]))
      BY <1>1, <1>6, <1>11 DEF Stops
    <2>2. last = n \/ Stops(Outcome(typed[last]))
      BY <1>1, <1>6, <1>10, <1>12 DEF Stops
    <2> QED  BY <1>1, <1>5, <1>10, <2>1, <2>2, OutcomesAre
  <1>14. Len(outcomes) = last /\ DOMAIN outcomes = 1..last  BY <1>10, <1>13
  <1>15. \A i \in 1..last : i \in 1..n /\ outcomes[i] = Outcome(c(i))
    BY <1>1, <1>10, <1>13
  <1>16. \A i \in 1..(last - 1) : outcomes[i].do \in {"run", "malformed"}
    <2> TAKE i \in 1..(last - 1)
    <2>1. i \in 1..last  BY <1>10
    <2> QED  BY <1>6, <1>11, <1>15, <2>1
  <1>17. last \in 1..last  BY <1>10
  <1>18. (outcomes[last].do = "abort") <=> (last = n /\ Blank(pieces[last]))
    BY <1>6, <1>7, <1>8, <1>10, <1>15, <1>17
  <1>19. last \in unusable <=> ~StartsCommand(pieces[last])  BY <1>10
  <1>20. (outcomes[last].do = "symbol") <=>
            (last \in unusable /\ outcomes[last].do # "abort")
    BY <1>6, <1>10, <1>15, <1>17, <1>19
  <1>21. \A u \in ToSet(outcomes) :
            u.do = "run" => /\ u.cmd # <<>>
                            /\ Head(u.cmd) \notin {"<", ">", "|", "&"}
    <2> TAKE u \in ToSet(outcomes)
    <2>1. PICK i \in 1..last : u = outcomes[i]  BY <1>14 DEF ToSet
    <2>2. i \in 1..n /\ u = Outcome(c(i))  BY <1>15, <2>1
    <2>3. u.do = "run" => u.cmd # <<>> /\ Head(u.cmd) \notin Symbol
      BY <1>6, <2>2
    <2> QED  BY <2>3 DEF Symbol
  <1>22. unusable = {i \in DOMAIN pieces : ~StartsCommand(pieces[i])}  BY <1>4
  <1> HIDE DEF unusable
  <1>23. last = Min({i \in DOMAIN pieces : ~StartsCommand(pieces[i])} \union {Len(pieces)})
    BY <1>22 DEF last, n
  <1>24. \A i \in DOMAIN outcomes : i \in 1..n /\ outcomes[i] = Outcome(c(i))
    BY <1>14, <1>15
  <1>25. EndsAtUnusable(GetLines(line, "&"), RunTyped(line))
    <2> USE DEF n
    <2> QED  BY <1>14, <1>16, <1>18, <1>20, <1>21, <1>22, <1>23, Zenon
             DEF EndsAtUnusable, pieces, outcomes
  <1> QED  BY <1>24, <1>25, Zenon DEF n, outcomes, c, tail, pieces

LEMMA WiderSeq ==
    ASSUME NEW S, NEW T, S \subseteq T, NEW s \in Seq(S)
    PROVE  s \in Seq(T)
  OBVIOUS

(* A line that the shell takes is one of the texts spoken of above.        *)
LEMMA LineIsSplit ==
    ASSUME InputType, IsLine
    PROVE  /\ Line \in Seq(Chars) /\ Line # <<>>
           /\ IsSplit(Chars, "&", GetLines(Line, "&"))
  <1>1. Line \in Seq(STRING) /\ Line # <<>>  BY LineType
  <1>2. STRING \subseteq Chars  BY DEF Chars
  <1>3. Line \in Seq(Chars)  BY <1>1, <1>2, WiderSeq
  <1> QED  BY <1>1, <1>3, GetLinesOfSome

(* What a typed line starts and where it ends, for every line put together *)
(* from the inputs.                                                        *)
THEOREM EmptyCommandsAbort == Spec => []OnlyEmptyCommandsAbort
  <1>1. InputType => OnlyEmptyCommandsAbort
    BY LineIsSplit, TypedEndsAtUnusable DEF OnlyEmptyCommandsAbort
  <1> QED  BY <1>1, InputInvariance, PTL

----
(* Loops whose turns add to a sequence.                                    *)
LEMMA AddsFrom ==
    ASSUME NEW S, NEW T, NEW loop, NEW g, Adds(loop, S, T, g),
           NEW s \in Seq(S), NEW base \in Seq(T)
    PROVE  \A n \in 0..Len(s) :
              /\ After(loop, <<>>, s, n) \in Seq(T)
              /\ After(loop, base, s, n) = base \o After(loop, <<>>, s, n)
  <1> DEFINE now(n) == After(loop, <<>>, s, n)
             from(n) == After(loop, base, s, n)
             l == Len(s)
             A == {n \in 0..l : now(n) \in Seq(T) /\ from(n) = base \o now(n)}
  <1>1. l \in Nat /\ \A i \in 1..l : s[i] \in S  OBVIOUS
  <1> HIDE DEF l
  <1>2. now(0) = <<>> /\ from(0) = base  BY AfterNone
  <1>3. ASSUME NEW n \in 0..(l - 1)
        PROVE  /\ now(n + 1) = Turn(loop, now(n), s[n + 1])
               /\ from(n + 1) = Turn(loop, from(n), s[n + 1])
    <2>1. n \in Nat  BY <1>1
    <2> QED  BY <2>1, AfterNext
  <1> HIDE DEF now, from
  <1>4. 0 \in A
    <2>1. base \o <<>> = base  BY ConcatEmptySeq
    <2>2. <<>> \in Seq(T) /\ 0 \in 0..l  BY <1>1
    <2> QED  BY <1>2, <2>1, <2>2
  <1>5. ASSUME NEW n \in 0..(l - 1), n \in A PROVE n + 1 \in A
    <2>1. n + 1 \in 1..l /\ n + 1 \in 0..l  BY <1>1
    <2> DEFINE y == s[n + 1]
               z == g[y]
    <2>2. y \in S  BY <1>1, <2>1
    <2>3. z \in Seq(T)  BY <2>2 DEF Adds
    <2>4. now(n) \in Seq(T) /\ from(n) = base \o now(n)  BY <1>5
    <2>5. from(n) \in Seq(T)  BY <2>4, ConcatProperties
    <2> HIDE DEF y
    <2>6. Turn(loop, now(n), y) = now(n) \o z /\ Turn(loop, from(n), y) = from(n) \o z
      BY <2>2, <2>4, <2>5 DEF Adds
    <2> HIDE DEF z, A
    <2>7. now(n + 1) = now(n) \o z /\ from(n + 1) = from(n) \o z
      BY <1>3, <2>6 DEF y
    <2>8. now(n) \o z \in Seq(T)  BY <2>3, <2>4, ConcatProperties
    <2>9. (base \o now(n)) \o z = base \o (now(n) \o z)
      BY <2>3, <2>4, ConcatAssociative
    <2> QED  BY <2>1, <2>4, <2>7, <2>8, <2>9 DEF A
  <1> HIDE DEF A
  <1>6. 0..l \subseteq A  BY <1>1, <1>4, <1>5, SetInductionUpTo
  <1> QED  BY <1>6 DEF A, now, from, l

LEMMA AllOfIs ==
    ASSUME NEW S, NEW T, NEW loop, NEW g, Adds(loop, S, T, g), NEW s \in Seq(S)
    PROVE  AllOf(loop, s) \in Seq(T)
  <1>1. Len(s) \in 0..Len(s) /\ <<>> \in Seq(T)  OBVIOUS
  <1> QED  BY <1>1, AddsFrom DEF AllOf

LEMMA AddsBoth ==
    ASSUME NEW S, NEW T, NEW loop, NEW g, Adds(loop, S, T, g),
           NEW s \in Seq(S), NEW t \in Seq(S)
    PROVE  AllOf(loop, s \o t) = AllOf(loop, s) \o AllOf(loop, t)
  <1> DEFINE u == s \o t
             n == Len(s)
             k == Len(t)
             middle == After(loop, <<>>, u, n)
  <1>1. /\ n \in Nat /\ k \in Nat /\ Len(u) = n + k
        /\ \A i \in 1..n : u[i] = s[i]
        /\ \A i \in 1..k : t[i] = u[n + i]
    <2>1. /\ Len(u) = n + k
          /\ \A i \in 1..(n + k) : u[i] = IF i <= n THEN s[i] ELSE t[i - n]
      BY ConcatProperties
    <2>2. n \in Nat /\ k \in Nat  OBVIOUS
    <2> HIDE DEF u, n, k
    <2>3. \A i \in 1..n : i \in 1..(n + k) /\ i <= n  BY <2>2
    <2>4. \A i \in 1..k : n + i \in 1..(n + k) /\ ~(n + i <= n) /\ (n + i) - n = i
      BY <2>2
    <2> QED  BY <2>1, <2>2, <2>3, <2>4
  <1> HIDE DEF u, n, k
  <1>2. After(loop, <<>>, u, n + k) = After(loop, middle, t, k)
    BY <1>1, AfterBoth
  <1>3. middle = AllOf(loop, s)  BY <1>1, AfterAgrees DEF AllOf, n
  <1>4. AllOf(loop, s) \in Seq(T)  BY AllOfIs
  <1> HIDE DEF middle
  <1>5. After(loop, middle, t, k) = middle \o After(loop, <<>>, t, k)
    <2>1. k \in 0..Len(t) /\ middle \in Seq(T)  BY <1>1, <1>3, <1>4 DEF k
    <2> QED  BY <2>1, AddsFrom
  <1> QED  BY <1>1, <1>2, <1>3, <1>5 DEF AllOf, u, k

LEMMA AddsFlatten ==
    ASSUME NEW S, NEW T, NEW loop, NEW g, Adds(loop, S, T, g),
           NEW seqs \in Seq(Seq(S)), NEW each \in Seq(Seq(T)),
           Len(each) = Len(seqs),
           \A i \in 1..Len(seqs) : each[i] = AllOf(loop, seqs[i])
    PROVE  AllOf(loop, FlattenSeq(seqs)) = FlattenSeq(each)
  <1> DEFINE n == Len(seqs)
             from(i) == After(<<"Concat">>, <<>>, seqs, i)
             to(i) == After(<<"Concat">>, <<>>, each, i)
             A == {i \in 0..n : from(i) \in Seq(S) /\ AllOf(loop, from(i)) = to(i)}
  <1>0. \A s, t \in Seq(S) : AllOf(loop, s \o t) = AllOf(loop, s) \o AllOf(loop, t)
    BY AddsBoth
  <1>1. n \in Nat /\ \A i \in 1..n : seqs[i] \in Seq(S) /\ each[i] = AllOf(loop, seqs[i])
    OBVIOUS
  <1>2. FlattenSeq(seqs) = from(n) /\ FlattenSeq(each) = to(n)  BY FlattenIs
  <1> HIDE DEF n
  <1>3. from(0) = <<>> /\ to(0) = <<>> /\ AllOf(loop, <<>>) = <<>>
    <2>1. Len(<<>>) = 0  OBVIOUS
    <2> QED  BY <2>1, AfterNone DEF AllOf
  <1>4. ASSUME NEW i \in 0..(n - 1)
        PROVE  from(i + 1) = from(i) \o seqs[i + 1] /\ to(i + 1) = to(i) \o each[i + 1]
    <2>1. i \in Nat  BY <1>1
    <2>2. /\ from(i + 1) = Turn(<<"Concat">>, from(i), seqs[i + 1])
          /\ to(i + 1) = Turn(<<"Concat">>, to(i), each[i + 1])
      BY <2>1, AfterNext
    <2> HIDE DEF from, to
    <2> QED  BY <2>2 DEF Turn
  <1> HIDE DEF from, to
  <1>5. 0 \in A
    <2>1. <<>> \in Seq(S) /\ 0 \in 0..n  BY <1>1
    <2> QED  BY <1>3, <2>1
  <1>6. ASSUME NEW i \in 0..(n - 1), i \in A PROVE i + 1 \in A
    <2>1. i + 1 \in 1..n /\ i + 1 \in 0..n  BY <1>1
    <2>2. from(i) \in Seq(S) /\ AllOf(loop, from(i)) = to(i)  BY <1>6
    <2>3. seqs[i + 1] \in Seq(S) /\ each[i + 1] = AllOf(loop, seqs[i + 1])
      BY <1>1, <2>1
    <2> HIDE DEF A
    <2>4. from(i) \o seqs[i + 1] \in Seq(S)  BY <2>2, <2>3, ConcatProperties
    <2>5. AllOf(loop, from(i) \o seqs[i + 1]) = to(i) \o each[i + 1]
      BY <1>0, <2>2, <2>3
    <2> QED  BY <1>4, <2>1, <2>4, <2>5 DEF A
  <1> HIDE DEF A
  <1>7. 0..n \subseteq A  BY <1>1, <1>5, <1>6, SetInductionUpTo
  <1>8. n \in A  BY <1>1, <1>7
  <1> QED  BY <1>2, <1>8 DEF A

LEMMA AddsEach ==
    ASSUME NEW S, NEW T, NEW loop, NEW g, Adds(loop, S, T, g),
           NEW seqs, NEW each, Nested(S, seqs), Nested(T, each),
           EachOf(loop, seqs, each)
    PROVE  AllOf(loop, FlattenSeq(seqs)) = FlattenSeq(each)
  <1>1. seqs \in Seq(Seq(S)) /\ each \in Seq(Seq(T)) /\ Len(each) = Len(seqs)
    BY DEF Nested, EachOf
  <1>2. \A i \in 1..Len(seqs) : each[i] = AllOf(loop, seqs[i])  BY DEF EachOf
  <1> QED  BY <1>1, <1>2, AddsFlatten

----
(* wcat and wgrep.                                                         *)
LEMMA AddToFilesLoop ==
    ASSUME NEW base, NEW seq, NEW n \in Nat, DOMAIN seq = 1..n
    PROVE  FoldLeft(AddToFiles, base, seq) = After(<<"AddToFiles">>, base, seq, n)
  <1>1. \A f, x : AddToFiles(f, x) = Turn(<<"AddToFiles">>, f, x)  BY DEF Turn
  <1>2. \E g : LoopEq(<<"AddToFiles">>, base, seq, n, g)  BY LoopExists
  <1>3. \E g : /\ LoopEq(<<"AddToFiles">>, base, seq, n, g)
               /\ FoldLeft(AddToFiles, base, seq) = g[1..n]
    BY <1>1, <1>2, Zenon DEF FoldLeft, MapThenFoldSet, LoopEq
  <1> QED  BY <1>3, LoopIs

LEMMA WriteLineLoop ==
    ASSUME NEW base, NEW seq, NEW n \in Nat, DOMAIN seq = 1..n
    PROVE  FoldLeft(WriteLine, base, seq) = After(<<"WriteLine">>, base, seq, n)
  <1>1. \A f, x : WriteLine(f, x) = Turn(<<"WriteLine">>, f, x)  BY DEF Turn
  <1>2. \E g : LoopEq(<<"WriteLine">>, base, seq, n, g)  BY LoopExists
  <1>3. \E g : /\ LoopEq(<<"WriteLine">>, base, seq, n, g)
               /\ FoldLeft(WriteLine, base, seq) = g[1..n]
    BY <1>1, <1>2, Zenon DEF FoldLeft, MapThenFoldSet, LoopEq
  <1> QED  BY <1>3, LoopIs

LEMMA CatFileLoop ==
    ASSUME NEW base, NEW seq, NEW n \in Nat, DOMAIN seq = 1..n
    PROVE  FoldLeft(CatFile, base, seq) = After(<<"CatFile">>, base, seq, n)
  <1>1. \A f, x : CatFile(f, x) = Turn(<<"CatFile">>, f, x)  BY DEF Turn
  <1>2. \E g : LoopEq(<<"CatFile">>, base, seq, n, g)  BY LoopExists
  <1>3. \E g : /\ LoopEq(<<"CatFile">>, base, seq, n, g)
               /\ FoldLeft(CatFile, base, seq) = g[1..n]
    BY <1>1, <1>2, Zenon DEF FoldLeft, MapThenFoldSet, LoopEq
  <1> QED  BY <1>3, LoopIs

LEMMA GrepLineLoop ==
    ASSUME NEW term, NEW base, NEW seq, NEW n \in Nat, DOMAIN seq = 1..n
    PROVE  FoldLeft(LAMBDA t, line : GrepLine(term, t, line), base, seq) =
              After(<<"GrepLine", term>>, base, seq, n)
  <1> DEFINE Eq(g) == g = [s \in SUBSET (1..n) |->
                              IF s = {} THEN base
                              ELSE GrepLine(term, g[s \ {Max(s)}], seq[Max(s)])]
             g == CHOOSE g : Eq(g)
  <1>1. \A f : Eq(f) <=> LoopEq(<<"GrepLine", term>>, base, seq, n, f)
    BY DEF Turn, LoopEq
  <1>2. FoldLeft(LAMBDA t, line : GrepLine(term, t, line), base, seq) = g[1..n]
    BY DEF FoldLeft, MapThenFoldSet
  <1> HIDE DEF Eq
  <1>3. Eq(g)  BY <1>1, LoopExists
  <1> HIDE DEF g
  <1> QED  BY <1>1, <1>2, <1>3, LoopIs

LEMMA GrepFileLoop ==
    ASSUME NEW term, NEW base, NEW seq, NEW n \in Nat, DOMAIN seq = 1..n
    PROVE  FoldLeft(LAMBDA out, file : GrepFile(term, out, file), base, seq) =
              After(<<"GrepFile", term>>, base, seq, n)
  <1> DEFINE Eq(g) == g = [s \in SUBSET (1..n) |->
                              IF s = {} THEN base
                              ELSE GrepFile(term, g[s \ {Max(s)}], seq[Max(s)])]
             g == CHOOSE g : Eq(g)
  <1>1. \A f : Eq(f) <=> LoopEq(<<"GrepFile", term>>, base, seq, n, f)
    BY DEF Turn, LoopEq
  <1>2. FoldLeft(LAMBDA out, file : GrepFile(term, out, file), base, seq) = g[1..n]
    BY DEF FoldLeft, MapThenFoldSet
  <1> HIDE DEF Eq
  <1>3. Eq(g)  BY <1>1, LoopExists
  <1> HIDE DEF g
  <1> QED  BY <1>1, <1>2, <1>3, LoopIs

LEMMA FrontLast ==
    ASSUME NEW S, NEW s \in Seq(S)
    PROVE  /\ s # <<>> => Append(Front(s), Last(s)) = s
           /\ \A x \in S : Front(Append(s, x)) = s /\ Last(Append(s, x)) = x
  <1>1. ASSUME s # <<>> PROVE Append(Front(s), Last(s)) = s
    <2> DEFINE n == Len(s)
               f == Front(s)
               x == Last(s)
               a == Append(f, x)
    <2>1. /\ n \in Nat /\ n >= 1 /\ f \in Seq(S) /\ Len(f) = n - 1
          /\ \A i \in 1..(n - 1) : f[i] = s[i]
          /\ x \in S /\ x = s[n]  BY <1>1, FrontIs
    <2>2. s \in Seq(S) /\ Len(s) = n  OBVIOUS
    <2> HIDE DEF f, x, n
    <2>3. /\ a \in Seq(S) /\ Len(a) = (n - 1) + 1 /\ a[(n - 1) + 1] = x
          /\ \A i \in 1..(n - 1) : a[i] = f[i]  BY <2>1, AppendIs
    <2> HIDE DEF a
    <2>4. \A i \in 1..n : a[i] = s[i]
      <3>1. \A i \in 1..n : i \in 1..(n - 1) \/ i = n  BY <2>1
      <3>2. (n - 1) + 1 = n  BY <2>1
      <3> QED  BY <2>1, <2>3, <3>1, <3>2
    <2>5. Len(a) = n  BY <2>1, <2>3
    <2>6. a = s  BY <2>2, <2>3, <2>4, <2>5
    <2> QED  BY <2>6 DEF a, f, x
  <1>2. ASSUME NEW x \in S PROVE Front(Append(s, x)) = s /\ Last(Append(s, x)) = x
    <2> DEFINE n == Len(s)
               a == Append(s, x)
               f == Front(a)
    <2>1. /\ a \in Seq(S) /\ a # <<>> /\ Len(a) = n + 1 /\ a[n + 1] = x
          /\ \A i \in 1..n : a[i] = s[i]  BY AppendIs
    <2>2. s \in Seq(S) /\ Len(s) = n /\ n \in Nat  OBVIOUS
    <2> HIDE DEF a, n
    <2>3. /\ f \in Seq(S) /\ Len(f) = (n + 1) - 1
          /\ \A i \in 1..((n + 1) - 1) : f[i] = a[i]
          /\ Last(a) = a[n + 1]  BY <2>1, FrontIs
    <2> HIDE DEF f
    <2>4. (n + 1) - 1 = n  BY <2>2
    <2>5. f = s  BY <2>1, <2>2, <2>3, <2>4
    <2> QED  BY <2>1, <2>3, <2>5 DEF a, f
  <1> QED  BY <1>1, <1>2

LEMMA ConcatAppend ==
    ASSUME NEW S, NEW s \in Seq(S), NEW t \in Seq(S), NEW x \in S
    PROVE  s \o Append(t, x) = Append(s \o t, x)
  <1>1. <<x>> \in Seq(S) /\ s \o t \in Seq(S)  BY ConcatProperties
  <1>2. Append(t, x) = t \o <<x>> /\ Append(s \o t, x) = (s \o t) \o <<x>>
    BY <1>1, AppendIsConcat
  <1> QED  BY <1>1, <1>2, ConcatAssociative

LEMMA SubSeqNext ==
    ASSUME NEW S, NEW s \in Seq(S), NEW n \in Nat, n < Len(s)
    PROVE  SubSeq(s, 1, n + 1) = Append(SubSeq(s, 1, n), s[n + 1])
  <1> DEFINE a == SubSeq(s, 1, n + 1)
             b == SubSeq(s, 1, n)
             c == Append(b, s[n + 1])
  <1>0. Len(s) \in Nat /\ s[n + 1] \in S  OBVIOUS
  <1>1. /\ a \in Seq(S) /\ Len(a) = n + 1
        /\ \A i \in 1..(n + 1) : a[i] = s[i]
    <2>1. /\ a \in Seq(S) /\ Len(a) = IF 1 <= n + 1 THEN (n + 1) - 1 + 1 ELSE 0
          /\ \A i \in 1..((n + 1) - 1 + 1) : a[i] = s[1 + i - 1]
      BY <1>0, SubSeqIs
    <2>2. 1 <= n + 1 /\ (n + 1) - 1 + 1 = n + 1 /\ \A i \in 1..(n + 1) : 1 + i - 1 = i
      OBVIOUS
    <2> QED  BY <2>1, <2>2
  <1>2. /\ b \in Seq(S) /\ Len(b) = n
        /\ \A i \in 1..n : b[i] = s[i]
    <2>1. /\ b \in Seq(S) /\ Len(b) = IF 1 <= n THEN n - 1 + 1 ELSE 0
          /\ \A i \in 1..(n - 1 + 1) : b[i] = s[1 + i - 1]  BY <1>0, SubSeqIs
    <2>2. n - 1 + 1 = n /\ (1 <= n \/ n = 0) /\ \A i \in 1..n : 1 + i - 1 = i
      OBVIOUS
    <2> QED  BY <2>1, <2>2
  <1> HIDE DEF a, b
  <1>3. /\ c \in Seq(S) /\ Len(c) = n + 1 /\ c[n + 1] = s[n + 1]
        /\ \A i \in 1..n : c[i] = b[i]  BY <1>0, <1>2, AppendIs
  <1> HIDE DEF c
  <1>4. \A i \in 1..(n + 1) : a[i] = c[i]
    <2>1. \A i \in 1..(n + 1) : i = n + 1 \/ i \in 1..n  OBVIOUS
    <2> QED  BY <1>1, <1>2, <1>3, <2>1
  <1>5. a = c  BY <1>1, <1>3, <1>4
  <1> QED  BY <1>5 DEF a, b, c

LEMMA WriteLineAdds ==
    ASSUME NEW C, Newline \in C
    PROVE  Adds(<<"WriteLine">>, Seq(C), C,
                [l \in Seq(C) |-> Append(l, Newline)])
  BY DEF Adds, Turn, WriteLine

LEMMA WrittenToNext ==
    ASSUME NEW lines, NEW n \in Nat
    PROVE  WrittenTo(lines, n + 1) =
              WrittenTo(lines, n) \o Append(lines[n + 1], Newline)
  <1> DEFINE now == WrittenTo(lines, n)
  <1>1. WrittenTo(lines, n + 1) = Turn(<<"WriteLine">>, now, lines[n + 1])
    BY AfterNext DEF WrittenTo
  <1> HIDE DEF now
  <1> QED  BY <1>1 DEF Turn, WriteLine, now

(* The lines read so far and the text read so far.                         *)
LEMMA SplitIsText ==
    ASSUME NEW C, Newline \in C, NEW text \in Seq(C)
    PROVE  \A m \in 0..Len(text) :
              LET split == Split(text, Newline, m)
                  l == Len(split)
              IN  /\ WrittenTo(split, l - 1) \in Seq(C)
                  /\ WrittenTo(split, l - 1) \o split[l] = SubSeq(text, 1, m)
  <1> DEFINE n == Len(text)
             now(m) == Split(text, Newline, m)
             l(m) == Len(now(m))
             done(m) == WrittenTo(now(m), l(m) - 1)
             last(m) == now(m)[l(m)]
             read(m) == SubSeq(text, 1, m)
             A == {m \in 0..n : done(m) \in Seq(C) /\ done(m) \o last(m) = read(m)}
  <1>0. \A s, t \in Seq(C) : \A x \in C : s \o Append(t, x) = Append(s \o t, x)
    BY ConcatAppend
  <1>1. n \in Nat /\ \A i \in 1..n : text[i] \in C  OBVIOUS
  <1>2. /\ \A m \in 0..n : IsSplit(C, Newline, now(m))
        /\ \A m \in 0..(n - 1) : Added(Newline, text[m + 1], now(m), now(m + 1))
    <2>1. \A m \in 0..n : IsSplit(C, Newline, now(m))  BY SplitSteps
    <2>2. n \in 0..n  BY <1>1
    <2>3. \A m \in 0..(n - 1) : Added(Newline, text[m + 1], now(m), now(m + 1))
      BY <2>2, SplitSteps
    <2> QED  BY <2>1, <2>3
  <1>3. \A m \in 0..(n - 1) : read(m + 1) = Append(read(m), text[m + 1])
    <2> TAKE m \in 0..(n - 1)
    <2>1. m \in Nat /\ m < n  BY <1>1
    <2> QED  BY <2>1, SubSeqNext
  <1>4. 0 \in A
    <2>1. now(0) = <<<<>>>>  BY SplitStarts
    <2>2. l(0) = 1 /\ last(0) = <<>>  BY <2>1
    <2>3. done(0) = <<>>
      <3>1. l(0) - 1 = 0  BY <2>2
      <3> QED  BY <3>1, AfterNone DEF WrittenTo
    <2>4. read(0) = <<>>
      <3>1. read(0) \in Seq(C) /\ Len(read(0)) = 0
        <4>1. 0 \in Nat /\ 0 <= Len(text) /\ ~(1 <= 0) /\ 1 \in Nat  BY <1>1
        <4> QED  BY <4>1, SubSeqIs
      <3> HIDE DEF read
      <3> QED  BY <3>1, EmptySeq
    <2>5. <<>> \in Seq(C) /\ <<>> \o <<>> = <<>> /\ 0 \in 0..n  BY <1>1
    <2> HIDE DEF now, l, last, done, read
    <2> QED  BY <2>2, <2>3, <2>4, <2>5
  <1>5. ASSUME NEW m \in 0..(n - 1), m \in A PROVE m + 1 \in A
    <2>1. m \in 0..n /\ m + 1 \in 0..n /\ m + 1 \in 1..n  BY <1>1
    <2> DEFINE old == now(m)
               new == now(m + 1)
               c == text[m + 1]
               k == l(m)
               d == done(m)
    <2>2. IsSplit(C, Newline, old) /\ IsSplit(C, Newline, new)
          /\ Added(Newline, c, old, new) /\ c \in C  BY <1>1, <1>2, <2>1
    <2>3. /\ d \in Seq(C) /\ d \o old[k] = read(m)
          /\ read(m + 1) = Append(read(m), c)  BY <1>3, <1>5
    <2>4. k = Len(old) /\ d = WrittenTo(old, k - 1)
          /\ done(m + 1) = WrittenTo(new, Len(new) - 1) /\ last(m + 1) = new[Len(new)]
      OBVIOUS
    <2> HIDE DEF old, new, c, k, d, read, done, last, l
    <2>5. /\ k \in Nat /\ k >= 1
          /\ \A i \in 1..(k - 1) : new[i] = old[i]
          /\ c = Newline => /\ Len(new) = k + 1
                            /\ new[k] = old[k] /\ new[k + 1] = <<>>
          /\ c # Newline => Len(new) = k /\ new[k] = Append(old[k], c)
      BY <2>2, <2>4 DEF Added
    <2>6. old[k] \in Seq(C)
      <3>1. k \in 1..Len(old)  BY <2>4, <2>5
      <3>2. old[k] \in Seq(C \ {Newline})  BY <2>2, <3>1, PieceOf
      <3> QED  BY <3>2, WiderSeq
    <2>7. WrittenTo(new, k - 1) = d
      <3>1. k - 1 \in Nat  BY <2>5
      <3> QED  BY <2>4, <2>5, <3>1, AfterAgrees DEF WrittenTo
    <2>8. d \o Append(old[k], c) = read(m + 1)
      BY <1>0, <2>2, <2>3, <2>6, ZenonT(40)
    <2>9. d \o Append(old[k], c) \in Seq(C)
      <3>1. Append(old[k], c) \in Seq(C)  BY <2>2, <2>6
      <3> QED  BY <2>3, <3>1, ConcatProperties
    <2>10. CASE c = Newline
      <3>1. WrittenTo(new, k) = d \o Append(old[k], c)
        <4>1. k - 1 \in Nat /\ (k - 1) + 1 = k  BY <2>5
        <4>2. WrittenTo(new, (k - 1) + 1) =
                 WrittenTo(new, k - 1) \o Append(new[(k - 1) + 1], Newline)
          BY <4>1, WrittenToNext
        <4> QED  BY <2>5, <2>7, <2>10, <4>1, <4>2
      <3>2. Len(new) - 1 = k /\ Len(new) = k + 1  BY <2>5, <2>10
      <3>3. done(m + 1) = d \o Append(old[k], c) /\ last(m + 1) = <<>>
        BY <2>4, <2>5, <2>10, <3>1, <3>2
      <3>4. done(m + 1) \o <<>> = done(m + 1)  BY <2>9, <3>3, ConcatEmptySeq
      <3> QED  BY <2>1, <2>8, <2>9, <3>3, <3>4
    <2>11. CASE c # Newline
      <3>1. done(m + 1) = d /\ last(m + 1) = Append(old[k], c)
        BY <2>4, <2>5, <2>7, <2>11
      <3> QED  BY <2>1, <2>3, <2>8, <3>1
    <2> QED  BY <2>10, <2>11
  <1> HIDE DEF A
  <1>6. 0..n \subseteq A  BY <1>1, <1>4, <1>5, SetInductionUpTo
  <1> HIDE DEF n
  <1>7. ASSUME NEW m \in 0..n
        PROVE  /\ done(m) \in Seq(C)
               /\ done(m) \o last(m) = read(m)  BY <1>6 DEF A
  <1> QED  BY <1>7 DEF n

(* What has only whole lines is read as the lines it is written of.        *)
LEMMA WholeLinesWritten ==
    ASSUME NEW C, Newline \in C, NEW text \in Seq(C), EndsLines(text)
    PROVE  Whole(C, text) /\ AllOf(<<"WriteLine">>, Lines(text)) = text
  <1> DEFINE n == Len(text)
             split == Split(text, Newline, n)
             l == Len(split)
             done == WrittenTo(split, l - 1)
  <1>1. n \in Nat /\ n \in 0..n /\ \A i \in 1..n : text[i] \in C  OBVIOUS
  <1>2. IsSplit(C, Newline, split)  BY <1>1, SplitSteps
  <1>3. Lines(text) = IF Last(split) = <<>> THEN Front(split) ELSE split
    BY GetLinesIs, SMTT(40) DEF Lines
  <1>4. done \in Seq(C) /\ done \o split[l] = text
    <2>1. done \in Seq(C) /\ done \o split[l] = SubSeq(text, 1, n)
      BY <1>1, SplitIsText
    <2>2. SubSeq(text, 1, n) = text  OBVIOUS
    <2> QED  BY <2>1, <2>2
  <1>5. split[l] = <<>>
    <2>1. CASE text = <<>>
      <3>1. split = <<<<>>>>  BY <2>1, SplitStarts
      <3> QED  BY <3>1
    <2>2. CASE text # <<>>
      <3>1. n >= 1 /\ text[n] = Newline
        <4>1. n >= 1 /\ Last(text) = text[n]  BY <2>2, FrontIs
        <4> HIDE DEF n
        <4> QED  BY <2>2, <4>1 DEF EndsLines
      <3>2. n - 1 \in 0..(n - 1) /\ (n - 1) + 1 = n  BY <1>1, <3>1
      <3>3. Added(Newline, text[(n - 1) + 1], Split(text, Newline, n - 1),
                  Split(text, Newline, (n - 1) + 1))  BY <1>1, <3>2, SplitSteps
      <3>4. Added(Newline, Newline, Split(text, Newline, n - 1), split)
        BY <3>1, <3>2, <3>3
      <3> HIDE DEF split, l, n
      <3> QED  BY <3>4 DEF Added, l
    <2> QED  BY <2>1, <2>2
  <1> HIDE DEF n, split
  <1>6. split \in Seq(Seq(C \ {Newline})) /\ split # <<>>  BY <1>2 DEF IsSplit
  <1>7. /\ l \in Nat /\ l >= 1
        /\ Front(split) \in Seq(Seq(C \ {Newline})) /\ Len(Front(split)) = l - 1
        /\ \A i \in 1..(l - 1) : Front(split)[i] = split[i]
        /\ Last(split) = split[l]  BY <1>6, FrontIs
  <1> HIDE DEF l, done
  <1>8. Lines(text) = Front(split)  BY <1>3, <1>5, <1>7
  <1>9. WrittenTo(Front(split), l - 1) = done
    BY <1>7, AfterAgrees DEF WrittenTo, done
  <1>10. done = text  BY <1>4, <1>5, ConcatEmptySeq
  <1>11. Append(Front(split), <<>>) = split  BY <1>5, <1>6, <1>7, FrontLast
  <1> QED  BY <1>7, <1>8, <1>9, <1>10, <1>11 DEF AllOf, WrittenTo, Whole, split, n

(* One more line is read.                                                  *)
LEMMA LineIsRead ==
    ASSUME NEW C, Newline \in C, NEW lines \in Seq(Seq(C \ {Newline})),
           NEW line \in Seq(C \ {Newline})
    PROVE  After(<<"AddChar", Newline>>, Append(lines, <<>>),
                 Append(line, Newline), Len(line) + 1) =
              Append(Append(lines, line), <<>>)
  <1> DEFINE n == Len(line)
             text == Append(line, Newline)
             now(m) == After(<<"AddChar", Newline>>, Append(lines, <<>>), text, m)
             read(m) == SubSeq(line, 1, m)
             S == Seq(C \ {Newline})
             A == {m \in 0..n : now(m) = Append(lines, read(m))}
  <1>1. n \in Nat /\ \A i \in 1..n : line[i] \in C \ {Newline}  OBVIOUS
  <1>2. text[n + 1] = Newline /\ \A i \in 1..n : text[i] = line[i]
    <2>1. line \in Seq(C)  BY WiderSeq
    <2> QED  BY <2>1, AppendIs
  <1>3. \A m \in 0..n : read(m) \in S  OBVIOUS
  <1>4. ASSUME NEW m \in 0..n
        PROVE  now(m + 1) = AddChar(Newline, now(m), text[m + 1])
    <2>1. m \in Nat  BY <1>1
    <2>2. now(m + 1) = Turn(<<"AddChar", Newline>>, now(m), text[m + 1])
      BY <2>1, AfterNext
    <2> HIDE DEF now
    <2> QED  BY <2>2 DEF Turn
  <1>5. now(0) = Append(lines, <<>>)  BY AfterNone
  <1>6. \A x \in S : Front(Append(lines, x)) = lines /\ Last(Append(lines, x)) = x
    BY FrontLast
  <1>7. read(0) = <<>> /\ read(n) = line  OBVIOUS
  <1>8. \A m \in 0..(n - 1) : read(m + 1) = Append(read(m), line[m + 1])
    <2> TAKE m \in 0..(n - 1)
    <2>1. m \in Nat /\ m < n  BY <1>1
    <2> QED  BY <2>1, SubSeqNext
  <1> HIDE DEF now, read, n, S, text
  <1>9. 0 \in A  BY <1>1, <1>5, <1>7
  <1>10. ASSUME NEW m \in 0..(n - 1), m \in A PROVE m + 1 \in A
    <2>1. m \in 0..n /\ m + 1 \in 0..n /\ m + 1 \in 1..n  BY <1>1
    <2>2. text[m + 1] = line[m + 1] /\ line[m + 1] # Newline
      BY <1>1, <1>2, <2>1
    <2>3. now(m + 1) = Append(lines, Append(read(m), line[m + 1]))
      BY <1>3, <1>4, <1>6, <1>10, <2>1, <2>2 DEF AddChar
    <2> QED  BY <1>8, <2>1, <2>3
  <1> HIDE DEF A
  <1>11. n \in A
    <2>1. 0..n \subseteq A  BY <1>1, <1>9, <1>10, SetInductionUpTo
    <2> QED  BY <1>1, <2>1
  <1>12. now(n) = Append(lines, line) /\ n \in 0..n  BY <1>1, <1>7, <1>11 DEF A
  <1>13. now(n + 1) = Append(Append(lines, line), <<>>)
    BY <1>2, <1>4, <1>12 DEF AddChar
  <1> QED  BY <1>13 DEF now, n, text

----
(* The files of an input.                                                  *)
LEMMA AddedToFiles ==
    ASSUME NEW C, NEW files \in Seq(Seq(C) \union {NoFile}), files # <<>>,
           NEW x, x = NextFile \/ x = NoFile \/ x \in C
    PROVE  /\ AddToFiles(files, x) \in Seq(Seq(C) \union {NoFile})
           /\ AddToFiles(files, x) # <<>>
  <1> DEFINE F == Seq(C) \union {NoFile}
             f == Front(files)
             last == Last(files)
  <1>1. f \in Seq(F) /\ last \in F  BY FrontIs
  <1>2. <<>> \in F /\ NoFile \in F  OBVIOUS
  <1> HIDE DEF f, last
  <1>3. (last # NoFile /\ x \in C) => Append(last, x) \in F  BY <1>1
  <1> HIDE DEF F
  <1>4. \A s \in Seq(F) : \A y \in F : Append(s, y) \in Seq(F) /\ Append(s, y) # <<>>
    BY AppendIs
  <1>5. AddToFiles(files, x) =
           IF x = NextFile THEN Append(files, <<>>)
           ELSE IF x = NoFile \/ last = NoFile THEN Append(f, NoFile)
           ELSE Append(f, Append(last, x))  BY DEF AddToFiles, f, last
  <1>6. files \in Seq(F)  BY DEF F
  <1> QED  BY <1>1, <1>2, <1>3, <1>4, <1>5, <1>6 DEF F

LEMMA FilesAre ==
    ASSUME NEW C, input \in Seq(C)
    PROVE  Files \in Seq(Seq(C) \union {NoFile}) /\ Files # <<>>
  <1> DEFINE F == Seq(C) \union {NoFile}
             n == Len(input)
             now(m) == After(<<"AddToFiles">>, <<<<>>>>, input, m)
             A == {m \in 0..n : now(m) \in Seq(F) /\ now(m) # <<>>}
  <1>1. n \in Nat /\ DOMAIN input = 1..n /\ \A i \in 1..n : input[i] \in C
    OBVIOUS
  <1>2. Files = now(n)  BY <1>1, AddToFilesLoop DEF Files
  <1>3. 0 \in A
    <2>1. now(0) = <<<<>>>>  BY AfterNone
    <2>2. <<<<>>>> \in Seq(F) /\ <<<<>>>> # <<>>
      <3>1. <<>> \in F  OBVIOUS
      <3> HIDE DEF F
      <3> DEFINE e == <<>>
      <3>2. e \in F  BY <3>1
      <3> HIDE DEF e
      <3>3. <<e>> \in Seq(F) /\ <<e>> # <<>>  BY <3>2
      <3> QED  BY <3>3 DEF e
    <2>3. 0 \in 0..n  BY <1>1
    <2> HIDE DEF now, F
    <2> QED  BY <2>1, <2>2, <2>3
  <1>4. ASSUME NEW m \in 0..(n - 1), m \in A PROVE m + 1 \in A
    <2>1. m \in Nat /\ m + 1 \in 0..n /\ m + 1 \in 1..n  BY <1>1
    <2>2. now(m + 1) = Turn(<<"AddToFiles">>, now(m), input[m + 1])
      BY <2>1, AfterNext
    <2>3. now(m) \in Seq(F) /\ now(m) # <<>> /\ input[m + 1] \in C
      BY <1>1, <1>4, <2>1
    <2> HIDE DEF now
    <2>4. now(m + 1) = AddToFiles(now(m), input[m + 1])  BY <2>2 DEF Turn
    <2>5. now(m + 1) \in Seq(F) /\ now(m + 1) # <<>>
      BY <2>3, <2>4, AddedToFiles
    <2> QED  BY <2>1, <2>5
  <1> HIDE DEF A
  <1>5. 0..n \subseteq A  BY <1>1, <1>3, <1>4, SetInductionUpTo
  <1> HIDE DEF n
  <1>6. n \in A  BY <1>1, <1>5
  <1> QED  BY <1>2, <1>6 DEF A

LEMMA OpenedAre ==
    ASSUME NEW C, NEW files \in Seq(Seq(C) \union {NoFile})
    PROVE  LET n == Len(files)
               k == Len(Opened(files))
           IN  /\ Opened(files) \in Seq(Seq(C)) /\ k <= n
               /\ \A i \in 1..k : Opened(files)[i] = files[i] /\ files[i] # NoFile
               /\ k < n => files[k + 1] = NoFile
               /\ Opened(files) = files <=> k = n
  <1> DEFINE F == Seq(C) \union {NoFile}
             n == Len(files)
             missing == {i \in 1..n : files[i] = NoFile}
             k == Min(missing)
             o == Opened(files)
  <1>1. n \in Nat /\ \A i \in 1..n : files[i] \in F  OBVIOUS
  <1>2. o = IF missing = {} THEN files ELSE SubSeq(files, 1, k - 1)
    BY DEF Opened
  <1>3. \A i \in 1..n : i \notin missing => files[i] \in Seq(C)  OBVIOUS
  <1>4. CASE missing = {}
    <2>1. o = files /\ \A i \in 1..n : files[i] \in Seq(C)  BY <1>2, <1>3, <1>4
    <2>2. files \in Seq(Seq(C))
      <3> DEFINE D == Seq(C)
      <3>1. Len(files) \in Nat /\ files = [i \in 1..Len(files) |-> files[i]]
        OBVIOUS
      <3>2. \A i \in 1..Len(files) : files[i] \in D  BY <2>1
      <3> HIDE DEF D
      <3>3. [i \in 1..Len(files) |-> files[i]] \in Seq(D)  BY <3>1, <3>2
      <3> QED  BY <3>1, <3>3 DEF D
    <2>3. \A i \in 1..n : files[i] # NoFile  BY <1>4
    <2> HIDE DEF missing, k
    <2> QED  BY <1>1, <2>1, <2>2, <2>3
  <1>5. CASE missing # {}
    <2>1. missing \subseteq Nat /\ missing # {}  BY <1>1, <1>5
    <2>2. k \in missing /\ \A y \in missing : k <= y
      <3> HIDE DEF missing
      <3> QED  BY <2>1, MinIsIn
    <2> HIDE DEF k
    <2>3. k \in 1..n /\ \A i \in 1..(k - 1) : i \in 1..n /\ i \notin missing
      BY <1>1, <2>2
    <2>4. \A i \in 1..(k - 1) : files[i] \in Seq(C)  BY <1>3, <2>3
    <2>5. o = SubSeq(files, 1, k - 1)  BY <1>2, <1>5
    <2> HIDE DEF o, missing
    <2>6. k - 1 \in Nat /\ k - 1 <= n  BY <1>1, <2>3
    <2>7. /\ Len(o) = k - 1 /\ o \in Seq(F)
          /\ \A i \in 1..(k - 1) : o[i] = files[i]
      <3> DEFINE l == k - 1
      <3>1. l \in Nat /\ l <= Len(files) /\ 1 \in Nat  BY <2>6
      <3> HIDE DEF l
      <3>2. /\ SubSeq(files, 1, l) \in Seq(F)
            /\ Len(SubSeq(files, 1, l)) = IF 1 <= l THEN l - 1 + 1 ELSE 0
            /\ \A i \in 1..(l - 1 + 1) : SubSeq(files, 1, l)[i] = files[1 + i - 1]
        BY <3>1, SubSeqIs
      <3>3. l - 1 + 1 = l /\ (1 <= l \/ l = 0) /\ \A i \in 1..l : 1 + i - 1 = i
        BY <3>1
      <3>4. o = SubSeq(files, 1, l)  BY <2>5 DEF l
      <3>5. Len(o) = l /\ o \in Seq(F) /\ \A i \in 1..l : o[i] = files[i]
        BY <3>2, <3>3, <3>4
      <3> QED  BY <3>5 DEF l
    <2>8. o \in Seq(Seq(C))
      <3> DEFINE D == Seq(C)
      <3>1. Len(o) \in Nat /\ o = [i \in 1..Len(o) |-> o[i]]  BY <2>7
      <3>2. \A i \in 1..Len(o) : o[i] \in D  BY <2>4, <2>7
      <3> HIDE DEF D
      <3>3. [i \in 1..Len(o) |-> o[i]] \in Seq(D)  BY <3>1, <3>2
      <3> QED  BY <3>1, <3>3 DEF D
    <2>9. /\ Len(o) < n /\ Len(o) + 1 = k /\ files[k] = NoFile
          /\ \A i \in 1..(k - 1) : files[i] # NoFile
      BY <1>1, <2>2, <2>3, <2>6, <2>7 DEF missing
    <2>10. o # files  BY <2>9 DEF n
    <2> QED  BY <1>1, <2>7, <2>8, <2>9, <2>10 DEF o, n
  <1> QED  BY <1>4, <1>5

----
(* Texts of whole lines, one behind the other.                             *)
LEMMA WholeNext ==
    ASSUME NEW C, Newline \in C, NEW text, Whole(C, text),
           NEW line \in Seq(C \ {Newline})
    PROVE  LET new == text \o Append(line, Newline)
           IN  Whole(C, new) /\ Lines(new) = Append(Lines(text), line)
  <1> DEFINE l == Append(line, Newline)
             new == text \o l
             n == Len(text)
             k == Len(line)
             S == Seq(C \ {Newline})
             lines == Append(Lines(text), line)
             loop == <<"AddChar", Newline>>
  <1>1. /\ text \in Seq(C) /\ Lines(text) \in Seq(S)
        /\ Split(text, Newline, n) = Append(Lines(text), <<>>)  BY DEF Whole
  <1>2. n \in Nat /\ k \in Nat /\ l \in Seq(C) /\ Len(l) = k + 1
    <2>1. line \in Seq(C)  BY WiderSeq
    <2> QED  BY <1>1, <2>1, AppendIs
  <1>3. /\ new \in Seq(C) /\ Len(new) = n + (k + 1)
        /\ \A i \in 1..n : new[i] = text[i]
        /\ \A i \in 1..(k + 1) : l[i] = new[n + i]
    <2> HIDE DEF l
    <2>0. /\ new \in Seq(C) /\ Len(new) = Len(text) + Len(l)
          /\ \A i \in 1..(Len(text) + Len(l)) :
                new[i] = IF i <= Len(text) THEN text[i] ELSE l[i - Len(text)]
      <3> HIDE DEF n, k
      <3> QED  BY <1>1, <1>2, ConcatProperties
    <2> HIDE DEF new, k
    <2>1. /\ new \in Seq(C) /\ Len(new) = n + (k + 1)
          /\ \A i \in 1..(n + (k + 1)) : new[i] = IF i <= n THEN text[i] ELSE l[i - n]
      BY <1>2, <2>0
    <2> HIDE DEF n
    <2>2. \A i \in 1..n : i \in 1..(n + (k + 1)) /\ i <= n  BY <1>2
    <2>3. \A i \in 1..(k + 1) :
             n + i \in 1..(n + (k + 1)) /\ ~(n + i <= n) /\ (n + i) - n = i
      BY <1>2
    <2> QED  BY <2>1, <2>2, <2>3
  <1>4. After(loop, Append(Lines(text), <<>>), l, k + 1) = Append(lines, <<>>)
    BY <1>1, LineIsRead
  <1> HIDE DEF l, new, n, k, lines
  <1>5. Split(new, Newline, n + (k + 1)) =
           After(loop, Split(new, Newline, n), l, k + 1)
    BY <1>2, <1>3, AfterBoth DEF Split
  <1>6. Split(new, Newline, n) = Split(text, Newline, n)
    BY <1>2, <1>3, AfterAgrees DEF Split
  <1>7. lines \in Seq(S) /\ <<>> \in S  BY <1>1 DEF lines
  <1> HIDE DEF S
  <1>8. Front(Append(lines, <<>>)) = lines /\ Last(Append(lines, <<>>)) = <<>>
    BY <1>7, FrontLast
  <1>9. Split(new, Newline, Len(new)) = Append(lines, <<>>)
    BY <1>1, <1>3, <1>4, <1>5, <1>6
  <1>10. Lines(new) = lines  BY <1>3, <1>8, <1>9, GetLinesIs DEF Lines
  <1> QED  BY <1>3, <1>7, <1>9, <1>10 DEF Whole, S, new, l, lines

LEMMA WholeBoth ==
    ASSUME NEW C, Newline \in C, NEW text, Whole(C, text), NEW more,
           Whole(C, more), AllOf(<<"WriteLine">>, Lines(more)) = more
    PROVE  Whole(C, text \o more) /\ Lines(text \o more) = Lines(text) \o Lines(more)
  <1> DEFINE S == Seq(C \ {Newline})
             lines == Lines(more)
             n == Len(lines)
             w(m) == WrittenTo(lines, m)
             z(m) == text \o w(m)
             to(m) == Lines(text) \o SubSeq(lines, 1, m)
             A == {m \in 0..n : w(m) \in Seq(C) /\ Whole(C, z(m)) /\ Lines(z(m)) = to(m)}
  <1>1. text \in Seq(C) /\ Lines(text) \in Seq(S) /\ lines \in Seq(S)
    BY DEF Whole
  <1>2. n \in Nat /\ (\A i \in 1..n : lines[i] \in S) /\ w(n) = more
    BY <1>1 DEF AllOf, WrittenTo
  <1>3. \A m \in Nat : w(m + 1) = w(m) \o Append(lines[m + 1], Newline)
    BY WrittenToNext
  <1>4. w(0) = <<>> /\ text \o <<>> = text
    BY <1>1, AfterNone, ConcatEmptySeq DEF WrittenTo
  <1>5. SubSeq(lines, 1, 0) = <<>> /\ SubSeq(lines, 1, n) = lines
    <2> HIDE DEF S
    <2> QED  BY <1>1
  <1>6. \A m \in 0..(n - 1) : to(m + 1) = Append(to(m), lines[m + 1])
    <2> TAKE m \in 0..(n - 1)
    <2> DEFINE s == SubSeq(lines, 1, m)
    <2>1. m \in Nat /\ m < Len(lines) /\ lines[m + 1] \in S /\ m <= Len(lines) /\ 1 \in Nat
      BY <1>2
    <2>2. SubSeq(lines, 1, m + 1) = Append(s, lines[m + 1])
      BY <1>1, <2>1, SubSeqNext
    <2>3. s \in Seq(S)  BY <1>1, <2>1, SubSeqIs
    <2> HIDE DEF s, lines, S
    <2>4. Lines(text) \o Append(s, lines[m + 1]) = Append(Lines(text) \o s, lines[m + 1])
      BY <1>1, <2>1, <2>3, ConcatAppend
    <2> QED  BY <2>2, <2>4 DEF s
  <1> HIDE DEF lines, n, w
  <1>7. 0 \in A
    <2>1. Lines(text) \o <<>> = Lines(text)  BY <1>1, ConcatEmptySeq
    <2>2. <<>> \in Seq(C) /\ 0 \in 0..n  BY <1>2
    <2> QED  BY <1>4, <1>5, <2>1, <2>2
  <1> HIDE DEF to
  <1>8. ASSUME NEW m \in 0..(n - 1), m \in A PROVE m + 1 \in A
    <2> DEFINE l == lines[m + 1]
               a == Append(l, Newline)
    <2>1. m + 1 \in 1..n /\ m + 1 \in 0..n /\ m \in Nat  BY <1>2
    <2>2. w(m) \in Seq(C) /\ Whole(C, z(m)) /\ Lines(z(m)) = to(m)  BY <1>8
    <2>3. l \in S /\ a \in Seq(C)
      <3>1. l \in S  BY <1>2, <2>1
      <3> HIDE DEF l
      <3>2. l \in Seq(C)  BY <3>1, WiderSeq
      <3> QED  BY <3>1, <3>2
    <2>4. w(m + 1) = w(m) \o a  BY <1>3, <2>1
    <2> HIDE DEF a, A, S
    <2>5. w(m + 1) \in Seq(C) /\ z(m + 1) = z(m) \o a
      <3> DEFINE v == w(m)
      <3>1. v \in Seq(C)  BY <2>2
      <3> HIDE DEF v
      <3>2. v \o a \in Seq(C)  BY <2>3, <3>1, ConcatProperties
      <3>3. (text \o v) \o a = text \o (v \o a)
        BY <1>1, <2>3, <3>1, ConcatAssociative
      <3> QED  BY <2>4, <3>2, <3>3 DEF v
    <2> HIDE DEF z, l
    <2>6. Whole(C, z(m) \o a) /\ Lines(z(m) \o a) = Append(Lines(z(m)), l)
      BY <2>2, <2>3, WholeNext DEF S, a
    <2> QED  BY <1>6, <2>1, <2>2, <2>5, <2>6 DEF A, l
  <1> HIDE DEF A
  <1>9. n \in A
    <2>1. 0..n \subseteq A  BY <1>2, <1>7, <1>8, SetInductionUpTo
    <2> QED  BY <1>2, <2>1
  <1> QED  BY <1>2, <1>5, <1>9 DEF A, to, lines

LEMMA WholeNone ==
    ASSUME NEW C, Newline \in C
    PROVE  Whole(C, <<>>) /\ Lines(<<>>) = <<>>
  <1> DEFINE S == Seq(C \ {Newline})
             lines == Lines(<<>>)
  <1>1. Whole(C, <<>>)
    <2>1. <<>> \in Seq(C) /\ EndsLines(<<>>)  BY DEF EndsLines
    <2> QED  BY <2>1, WholeLinesWritten
  <1>2. lines \in Seq(S) /\ Append(lines, <<>>) = <<<<>>>>
    <2>1. Len(<<>>) = 0  OBVIOUS
    <2> QED  BY <1>1, <2>1, SplitStarts DEF Whole
  <1>3. <<>> \in S  OBVIOUS
  <1> HIDE DEF lines, S
  <1>4. Len(Append(lines, <<>>)) = Len(lines) + 1 /\ Len(<<<<>>>>) = 1
    BY <1>2, <1>3, AppendIs
  <1>5. lines = <<>>  BY <1>2, <1>4
  <1> QED  BY <1>1, <1>5 DEF lines

LEMMA GrepLineAdds ==
    ASSUME NEW C, Newline \in C, NEW term
    PROVE  Adds(<<"GrepLine", term>>, Seq(C \ {Newline}), C,
                [l \in Seq(C \ {Newline}) |->
                    IF HasTerm(l, term) THEN Append(l, Newline) ELSE <<>>])
  <1> DEFINE S == Seq(C \ {Newline})
             g == [l \in S |-> IF HasTerm(l, term) THEN Append(l, Newline) ELSE <<>>]
  <1>1. g \in [S -> Seq(C)]
    <2>1. \A l \in S : Append(l, Newline) \in Seq(C)  BY WiderSeq
    <2> HIDE DEF S
    <2> QED  BY <2>1
  <1>2. ASSUME NEW x \in Seq(C), NEW l \in S
        PROVE  Turn(<<"GrepLine", term>>, x, l) = x \o g[l]
    <2>1. x \o <<>> = x  BY ConcatEmptySeq
    <2> HIDE DEF S
    <2> QED  BY <2>1 DEF Turn, GrepLine, WriteLine
  <1> HIDE DEF g
  <1> QED  BY <1>1, <1>2 DEF Adds, g

LEMMA ToSetAppend ==
    ASSUME NEW S, NEW s \in Seq(S), NEW x \in S
    PROVE  ToSet(Append(s, x)) = ToSet(s) \union {x}
  <1> DEFINE a == Append(s, x)
             n == Len(s)
  <1>1. /\ n \in Nat /\ DOMAIN s = 1..n /\ DOMAIN a = 1..(n + 1)
        /\ a[n + 1] = x /\ \A i \in 1..n : a[i] = s[i]  BY AppendIs
  <1> HIDE DEF a, n
  <1>2. 1..(n + 1) = (1..n) \union {n + 1}  BY <1>1
  <1> QED  BY <1>1, <1>2 DEF ToSet, a

(* What wgrep writes is read as the lines with the term.                   *)
LEMMA FoundLines ==
    ASSUME NEW C, Newline \in C, NEW lines \in Seq(Seq(C \ {Newline})), NEW term
    PROVE  ToSet(Lines(AllOf(<<"GrepLine", term>>, lines))) =
              {l \in ToSet(lines) : HasTerm(l, term)}
  <1> DEFINE S == Seq(C \ {Newline})
             n == Len(lines)
             now(m) == After(<<"GrepLine", term>>, <<>>, lines, m)
             with(m) == {i \in 1..m : HasTerm(lines[i], term)}
             A == {m \in 0..n : Whole(C, now(m))
                                /\ ToSet(Lines(now(m))) = {lines[i] : i \in with(m)}}
  <1>1. n \in Nat /\ \A i \in 1..n : lines[i] \in S  OBVIOUS
  <1>2. 0 \in A
    <2>1. now(0) = <<>>  BY AfterNone
    <2>2. Whole(C, now(0)) /\ ToSet(Lines(now(0))) = {}
      <3>1. Whole(C, <<>>) /\ Lines(<<>>) = <<>>  BY WholeNone
      <3>2. ToSet(<<>>) = {}  BY DEF ToSet
      <3> HIDE DEF now
      <3> QED  BY <2>1, <3>1, <3>2
    <2>3. {lines[i] : i \in with(0)} = {} /\ 0 \in 0..n  BY <1>1
    <2> QED  BY <2>2, <2>3
  <1>3. ASSUME NEW m \in Nat
        PROVE  now(m + 1) = IF HasTerm(lines[m + 1], term)
                            THEN now(m) \o Append(lines[m + 1], Newline) ELSE now(m)
    <2>1. now(m + 1) = Turn(<<"GrepLine", term>>, now(m), lines[m + 1])
      BY AfterNext
    <2> HIDE DEF now
    <2> QED  BY <2>1 DEF Turn, GrepLine, WriteLine
  <1> HIDE DEF now, n
  <1>4. ASSUME NEW m \in 0..(n - 1), m \in A PROVE m + 1 \in A
    <2> DEFINE l == lines[m + 1]
               x == now(m)
    <2>1. m \in Nat /\ m + 1 \in 0..n /\ m + 1 \in 1..n  BY <1>1
    <2>2. Whole(C, x) /\ ToSet(Lines(x)) = {lines[i] : i \in with(m)} /\ l \in S
      BY <1>1, <1>4, <2>1
    <2>3. with(m + 1) = IF HasTerm(l, term) THEN with(m) \union {m + 1} ELSE with(m)
      BY <2>1
    <2>4. {lines[i] : i \in with(m + 1)} =
             IF HasTerm(l, term) THEN {lines[i] : i \in with(m)} \union {l}
             ELSE {lines[i] : i \in with(m)}  BY <2>3
    <2> HIDE DEF A, l, x, with
    <2>5. CASE HasTerm(l, term)
      <3> DEFINE y == x \o Append(l, Newline)
                 old == Lines(x)
      <3>1. old \in Seq(S)  BY <2>2 DEF Whole
      <3>4. Whole(C, y) /\ Lines(y) = Append(old, l)  BY <2>2, WholeNext
      <3> HIDE DEF y, S, old
      <3>2. ToSet(Append(old, l)) = ToSet(old) \union {l}
        BY <2>2, <3>1, ToSetAppend
      <3>3. now(m + 1) = y  BY <1>3, <2>1, <2>5 DEF l, x, y
      <3> QED  BY <2>1, <2>2, <2>4, <2>5, <3>2, <3>3, <3>4 DEF A, old
    <2>6. CASE ~HasTerm(l, term)
      <3>1. now(m + 1) = x  BY <1>3, <2>1, <2>6 DEF l, x
      <3> QED  BY <2>1, <2>2, <2>4, <2>6, <3>1 DEF A
    <2> QED  BY <2>5, <2>6
  <1> HIDE DEF A
  <1>5. n \in A
    <2>1. 0..n \subseteq A  BY <1>1, <1>2, <1>4, SetInductionUpTo
    <2> QED  BY <1>1, <2>1
  <1>6. {lines[i] : i \in with(n)} = {l \in ToSet(lines) : HasTerm(l, term)}
    <2>1. DOMAIN lines = 1..n  BY DEF n
    <2> QED  BY <2>1 DEF ToSet
  <1> QED  BY <1>5, <1>6 DEF A, AllOf, now, n

LEMMA FilesTurned ==
    ASSUME NEW loop, TurnsFiles(loop), NEW C,
           NEW files \in Seq(Seq(C) \union {NoFile}), NEW e, e[0] = <<>>,
           e[Len(Opened(files))] \in Seq(C),
           \A m \in 0..(Len(Opened(files)) - 1) :
              Turn(loop, [code |-> 0, text |-> e[m]], files[m + 1]) =
                 [code |-> 0, text |-> e[m + 1]]
    PROVE  After(loop, NoOutput, files, Len(files)) =
              Told(files, e[Len(Opened(files))])
  <1> DEFINE n == Len(files)
             k == Len(Opened(files))
             now(m) == After(loop, NoOutput, files, m)
             end == [code |-> 1, text |-> e[k] \o Append(CannotOpen, Newline)]
             at(m) == IF m <= k THEN [code |-> 0, text |-> e[m]] ELSE end
             A == {m \in 0..n : now(m) = at(m)}
  <1>1. /\ n \in Nat /\ k \in Nat /\ k <= n
        /\ k < n => files[k + 1] = NoFile
        /\ Opened(files) = files <=> k = n
    <2>1. Opened(files) \in Seq(Seq(C))  BY OpenedAre
    <2> QED  BY <2>1, OpenedAre
  <1>2. \A m \in Nat : now(m + 1) = Turn(loop, now(m), files[m + 1])
    BY AfterNext
  <1>3. now(0) = [code |-> 0, text |-> e[0]]  BY AfterNone DEF NoOutput
  <1>4. NotOpened([code |-> 0, text |-> e[k]]) = end
    BY DEF NotOpened, WriteLine
  <1>5. /\ \A m \in 0..(k - 1) : Turn(loop, [code |-> 0, text |-> e[m]], files[m + 1]) =
                                    [code |-> 0, text |-> e[m + 1]]
        /\ Turn(loop, [code |-> 0, text |-> e[k]], NoFile) = end
        /\ \A file : Turn(loop, end, file) = end  BY <1>4 DEF TurnsFiles
  <1> HIDE DEF n, k, now, end
  <1>6. 0 \in A  BY <1>1, <1>3
  <1>7. ASSUME NEW m \in 0..(n - 1), m \in A PROVE m + 1 \in A
    <2>1. m \in Nat /\ m + 1 \in 0..n /\ now(m) = at(m)
      <3> HIDE DEF at
      <3> QED  BY <1>1, <1>7
    <2>2. now(m + 1) = Turn(loop, at(m), files[m + 1])  BY <1>2, <2>1
    <2>3. CASE m < k
      <3>1. m \in 0..(k - 1) /\ m <= k /\ m + 1 <= k  BY <1>1, <2>1, <2>3
      <3>2. now(m + 1) = at(m + 1)  BY <1>5, <2>2, <3>1
      <3> QED  BY <2>1, <3>2
    <2>4. CASE m = k
      <3>1. k < n /\ m <= k /\ ~(m + 1 <= k)  BY <1>1, <2>1, <2>4
      <3>2. now(m + 1) = at(m + 1)  BY <1>1, <1>5, <2>2, <2>4, <3>1
      <3> QED  BY <2>1, <3>2
    <2>5. CASE m > k
      <3>1. ~(m <= k) /\ ~(m + 1 <= k)  BY <1>1, <2>1, <2>5
      <3>2. now(m + 1) = at(m + 1)  BY <1>5, <2>2, <3>1
      <3> QED  BY <2>1, <3>2
    <2> QED  BY <1>1, <2>1, <2>3, <2>4, <2>5
  <1> HIDE DEF A
  <1>8. n \in A
    <2>1. 0..n \subseteq A  BY <1>1, <1>6, <1>7, SetInductionUpTo
    <2> QED  BY <1>1, <2>1
  <1>9. now(n) = IF k = n THEN [code |-> 0, text |-> e[k]] ELSE end
    BY <1>1, <1>8 DEF A
  <1>10. e[k] \o <<>> = e[k]  BY ConcatEmptySeq DEF k
  <1> QED  BY <1>1, <1>9, <1>10 DEF Told, now, n, k, end

LEMMA ContentsAre ==
    ASSUME NEW C, Newline \in C, NEW files \in Seq(Seq(C)),
           \A f \in ToSet(files) : EndsLines(f)
    PROVE  /\ \A m \in 0..Len(files) : Whole(C, Contents(files, m))
           /\ \A m \in 0..(Len(files) - 1) :
                 LET f == files[m + 1]
                     c == Contents(files, m)
                 IN  /\ Whole(C, f) /\ AllOf(<<"WriteLine">>, Lines(f)) = f
                     /\ Contents(files, m + 1) = c \o f
                     /\ Lines(c \o f) = Lines(c) \o Lines(f)
  <1> DEFINE n == Len(files)
             c(m) == Contents(files, m)
             A == {m \in 0..n : Whole(C, c(m))}
             Good(f) == Whole(C, f) /\ AllOf(<<"WriteLine">>, Lines(f)) = f
  <1>1. n \in Nat /\ \A i \in 1..n : files[i] \in Seq(C) /\ EndsLines(files[i])
    BY DEF ToSet
  <1>2. ASSUME NEW m \in 0..(n - 1)
        PROVE  /\ m + 1 \in 0..n /\ Good(files[m + 1])
               /\ c(m + 1) = c(m) \o files[m + 1]
    <2>1. m \in Nat /\ m + 1 \in 0..n /\ m + 1 \in 1..n  BY <1>1
    <2>2. c(m + 1) = Turn(<<"Concat">>, c(m), files[m + 1])
      BY <2>1, AfterNext DEF Contents
    <2>3. Good(files[m + 1])  BY <1>1, <2>1, WholeLinesWritten
    <2> HIDE DEF c, Good
    <2> QED  BY <2>1, <2>2, <2>3 DEF Turn
  <1>3. 0 \in A  BY <1>1, AfterNone, WholeNone DEF Contents
  <1> HIDE DEF n, c
  <1>4. ASSUME NEW m \in 0..(n - 1), m \in A PROVE m + 1 \in A
    <2>1. Whole(C, c(m) \o files[m + 1])  BY <1>2, <1>4, WholeBoth
    <2> QED  BY <1>2, <2>1
  <1>5. 0..n \subseteq A  BY <1>1, <1>3, <1>4, SetInductionUpTo
  <1>6. \A m \in 0..n : Whole(C, c(m))  BY <1>5
  <1>7. ASSUME NEW m \in 0..(n - 1)
        PROVE  Lines(c(m) \o files[m + 1]) = Lines(c(m)) \o Lines(files[m + 1])
    <2>1. m \in 0..n  BY <1>1
    <2> QED  BY <1>2, <1>6, <2>1, WholeBoth
  <1> QED  BY <1>2, <1>6, <1>7 DEF c, n

LEMMA CatWrites ==
    ASSUME NEW C, Newline \in C, NEW files \in Seq(Seq(C) \union {NoFile}),
           \A f \in ToSet(Opened(files)) : EndsLines(f)
    PROVE  WCat(files) = Told(files, FlattenSeq(Opened(files)))
  <1> DEFINE o == Opened(files)
             k == Len(o)
             e == [m \in 0..k |-> Contents(o, m)]
             S == Seq(C \ {Newline})
             W == <<"WriteLine">>
             ok(text) == [code |-> 0, text |-> text]
  <1>1. /\ o \in Seq(Seq(C)) /\ k \in Nat
        /\ \A i \in 1..k : o[i] = files[i] /\ files[i] # NoFile
    <2>1. o \in Seq(Seq(C)) /\ \A i \in 1..k : o[i] = files[i] /\ files[i] # NoFile
      BY OpenedAre
    <2> HIDE DEF o
    <2> QED  BY <2>1
  <1>2. e[0] = <<>> /\ e[k] = FlattenSeq(o) /\ e[k] \in Seq(C)
    BY <1>1, AfterNone, FlattenIs DEF Contents
  <1>3. TurnsFiles(<<"CatFile">>)  BY DEF TurnsFiles, Turn, CatFile, NotOpened
  <1> HIDE DEF o
  <1>4. ASSUME NEW m \in 0..(k - 1)
        PROVE  Turn(<<"CatFile">>, ok(e[m]), files[m + 1]) = ok(e[m + 1])
    <2> DEFINE f == o[m + 1]
               c == Contents(o, m)
    <2>1. m \in 0..k /\ m + 1 \in 0..k /\ m + 1 \in 1..k  BY <1>1
    <2>2. /\ Whole(C, c) /\ Whole(C, f) /\ AllOf(W, Lines(f)) = f
          /\ Contents(o, m + 1) = c \o f  BY <1>1, <2>1, ContentsAre DEF o
    <2>3. f = files[m + 1] /\ f # NoFile /\ e[m] = c /\ e[m + 1] = Contents(o, m + 1)
      BY <1>1, <2>1
    <2> HIDE DEF f, c, e
    <2>4. c \in Seq(C) /\ Lines(f) \in Seq(S)  BY <2>2 DEF Whole
    <2>5. CatLines(c, f) = c \o f
      <3> DEFINE lines == Lines(f)
                 n == Len(lines)
      <3>1. n \in Nat /\ DOMAIN lines = 1..n /\ n \in 0..n /\ lines \in Seq(Seq(C))
        <4>1. S \subseteq Seq(C)  OBVIOUS
        <4> HIDE DEF S
        <4> QED  BY <2>4, <4>1, WiderSeq
      <3>2. FoldLeft(WriteLine, c, lines) = After(W, c, lines, n)
        BY <3>1, WriteLineLoop
      <3> DEFINE g == [l \in Seq(C) |-> Append(l, Newline)]
      <3>3. Adds(W, Seq(C), C, g)  BY WriteLineAdds
      <3> HIDE DEF g, lines, n, W
      <3>4. After(W, c, lines, n) = c \o After(W, <<>>, lines, n)
        BY <2>4, <3>1, <3>3, AddsFrom DEF n
      <3> QED  BY <2>2, <3>2, <3>4 DEF CatLines, AllOf, lines, n, W
    <2>6. Turn(<<"CatFile">>, ok(c), f) = ok(CatLines(c, f))
      BY <2>3 DEF Turn, CatFile
    <2> QED  BY <2>2, <2>3, <2>5, <2>6
  <1> HIDE DEF e
  <1>5. After(<<"CatFile">>, NoOutput, files, Len(files)) = Told(files, e[k])
    BY <1>2, <1>3, <1>4, FilesTurned DEF o
  <1>6. WCat(files) = After(<<"CatFile">>, NoOutput, files, Len(files))
    BY CatFileLoop DEF WCat
  <1> QED  BY <1>2, <1>5, <1>6 DEF o

LEMMA GrepWrites ==
    ASSUME NEW C, Newline \in C, NEW files \in Seq(Seq(C) \union {NoFile}),
           \A f \in ToSet(Opened(files)) : EndsLines(f), NEW term
    PROVE  LET contents == FlattenSeq(Opened(files))
               found == AllOf(<<"GrepLine", term>>, Lines(contents))
           IN  /\ Lines(contents) \in Seq(Seq(C \ {Newline}))
               /\ GrepLines(term, <<>>, contents) = found
               /\ After(<<"GrepFile", term>>, NoOutput, files, Len(files)) =
                     Told(files, found)
  <1> DEFINE o == Opened(files)
             k == Len(o)
             G == <<"GrepLine", term>>
             F == <<"GrepFile", term>>
             S == Seq(C \ {Newline})
             e == [m \in 0..k |-> AllOf(G, Lines(Contents(o, m)))]
             ok(text) == [code |-> 0, text |-> text]
  <1>1. /\ o \in Seq(Seq(C)) /\ k \in Nat
        /\ \A i \in 1..k : o[i] = files[i] /\ files[i] # NoFile
    <2>1. o \in Seq(Seq(C)) /\ \A i \in 1..k : o[i] = files[i] /\ files[i] # NoFile
      BY OpenedAre
    <2> HIDE DEF o
    <2> QED  BY <2>1
  <1>2. /\ Contents(o, 0) = <<>> /\ Contents(o, k) = FlattenSeq(o)
        /\ \A m \in 0..k : Whole(C, Contents(o, m))
        /\ \A m \in 0..(k - 1) :
              LET f == o[m + 1]
                  c == Contents(o, m)
              IN  Whole(C, f) /\ Lines(Contents(o, m + 1)) = Lines(c) \o Lines(f)
    <2>1. Contents(o, 0) = <<>> /\ Contents(o, k) = FlattenSeq(o)
      BY <1>1, AfterNone, FlattenIs DEF Contents
    <2> QED  BY <1>1, <2>1, ContentsAre
  <1> HIDE DEF o
  <1>3. ASSUME NEW base, NEW text, Whole(C, text)
        PROVE  GrepLines(term, base, text) = After(G, base, Lines(text), Len(Lines(text)))
    <2> DEFINE lines == Lines(text)
    <2>1. Len(lines) \in Nat /\ DOMAIN lines = 1..Len(lines)  BY <1>3 DEF Whole
    <2> HIDE DEF lines
    <2>2. FoldLeft(LAMBDA t, line : GrepLine(term, t, line), base, lines) =
             After(G, base, lines, Len(lines))  BY <2>1, GrepLineLoop
    <2> QED  BY <2>2 DEF GrepLines, lines
  <1>4. e[0] = <<>>
    <2>1. Len(<<>>) = 0 /\ 0 \in 0..k  BY <1>1
    <2> QED  BY <1>2, <2>1, WholeNone, AfterNone DEF AllOf
  <1>5. TurnsFiles(F)  BY DEF TurnsFiles, Turn, GrepFile, NotOpened
  <1>6. ASSUME NEW m \in 0..(k - 1)
        PROVE  Turn(F, ok(e[m]), files[m + 1]) = ok(e[m + 1])
    <2> DEFINE f == o[m + 1]
               old == Lines(Contents(o, m))
               new == Lines(f)
    <2>1. m \in 0..k /\ m + 1 \in 0..k /\ m + 1 \in 1..k  BY <1>1
    <2>2. /\ old \in Seq(S) /\ new \in Seq(S) /\ Whole(C, f)
          /\ Lines(Contents(o, m + 1)) = old \o new  BY <1>2, <2>1 DEF Whole
    <2>3. /\ f = files[m + 1] /\ f # NoFile /\ e[m] = AllOf(G, old)
          /\ e[m + 1] = AllOf(G, Lines(Contents(o, m + 1)))  BY <1>1, <2>1
    <2> DEFINE g == [l \in S |-> IF HasTerm(l, term) THEN Append(l, Newline) ELSE <<>>]
               text == AllOf(G, old)
    <2>4. Adds(G, S, C, g)  BY GrepLineAdds
    <2> HIDE DEF f, e, old, new, G, g, S
    <2>5. AllOf(G, old \o new) = text \o AllOf(G, new) /\ text \in Seq(C)
      BY <2>2, <2>4, AddsBoth, AllOfIs
    <2> HIDE DEF text
    <2>6. After(G, text, new, Len(new)) = text \o AllOf(G, new)
      <3>1. Len(new) \in 0..Len(new)  BY <2>2
      <3> QED  BY <2>2, <2>4, <2>5, <3>1, AddsFrom DEF AllOf
    <2>7. GrepLines(term, text, f) = After(G, text, new, Len(new))
      BY <1>3, <2>2 DEF new
    <2>8. Turn(F, ok(text), f) = ok(GrepLines(term, text, f))
      BY <2>3 DEF Turn, GrepFile
    <2> QED  BY <2>2, <2>3, <2>5, <2>6, <2>7, <2>8 DEF text
  <1> DEFINE contents == FlattenSeq(o)
  <1>7. k \in 0..k /\ e[k] = AllOf(G, Lines(contents)) /\ Whole(C, contents)
    BY <1>1, <1>2
  <1>11. e[k] \in Seq(C)
    <2> DEFINE g == [l \in S |-> IF HasTerm(l, term) THEN Append(l, Newline) ELSE <<>>]
               lines == Lines(contents)
    <2>1. Adds(G, S, C, g) /\ lines \in Seq(S)  BY <1>7, GrepLineAdds DEF Whole
    <2> HIDE DEF G, S, g, lines
    <2>2. AllOf(G, lines) \in Seq(C)  BY <2>1, AllOfIs
    <2> QED  BY <1>7, <2>2 DEF lines
  <1> HIDE DEF e
  <1>8. After(F, NoOutput, files, Len(files)) = Told(files, e[k])
    BY <1>4, <1>5, <1>6, <1>11, FilesTurned DEF o
  <1>9. GrepLines(term, <<>>, contents) = AllOf(G, Lines(contents))
    BY <1>3, <1>7 DEF AllOf
  <1>10. Lines(contents) \in Seq(S)  BY <1>7 DEF Whole
  <1> QED  BY <1>7, <1>8, <1>9, <1>10 DEF o

(* Whatever the files and the term, wcat and wgrep tell of files the same  *)
(* piped or named.                                                         *)
THEOREM PipedIsNamed == Spec => []PipedOrNamedAlike
  <1>1. ASSUME InputType, kind = "text",
               \A f \in ToSet(Opened(Files)) : EndsLines(f)
        PROVE  LET contents == FlattenSeq(Opened(Files))
               IN  /\ WCat(Files) = Told(Files, contents)
                   /\ \A term \in Terms \ {<<>>} : FoundAlike(term, contents)
    <2> DEFINE C == Inputs[kind] \union {Newline}
               F == Seq(C) \union {NoFile}
               contents == FlattenSeq(Opened(Files))
    <2>1. input \in Seq(C) /\ Newline \in C
      <3>1. input \in Seq(Inputs[kind]) /\ Inputs[kind] \subseteq C /\ Newline \in C
        BY <1>1 DEF InputType
      <3> HIDE DEF C
      <3> QED  BY <3>1, WiderSeq
    <2> HIDE DEF C
    <2>2. Files \in Seq(F) /\ Files # <<>>  BY <2>1, FilesAre
    <2>3. WCat(Files) = Told(Files, contents)  BY <1>1, <2>1, <2>2, CatWrites
    <2>4. ASSUME NEW term \in Terms \ {<<>>}
          PROVE  FoundAlike(term, contents)
      <3> DEFINE text == AllOf(<<"GrepLine", term>>, Lines(contents))
                 args == <<term>> \o Files
                 first == Head(args)
                 files == Tail(args)
      <3>1. /\ Lines(contents) \in Seq(Seq(C \ {Newline}))
            /\ GrepLines(term, <<>>, contents) = text
            /\ After(<<"GrepFile", term>>, NoOutput, Files, Len(Files)) = Told(Files, text)
        BY <1>1, <2>1, <2>2, GrepWrites
      <3>2. args # <<>> /\ Len(args) # 1 /\ first = term /\ files = Files
        <4> DEFINE W == F \union {term}
        <4>1. term \in W /\ F \subseteq W  OBVIOUS
        <4> HIDE DEF F, W
        <4>2. Files \in Seq(W) /\ Files # <<>>  BY <2>2, <4>1, WiderSeq
        <4> HIDE DEF Files
        <4> QED  BY <4>1, <4>2
      <3> DEFINE fold == FoldLeft(LAMBDA out, file : GrepFile(first, out, file),
                                  NoOutput, files)
      <3>3. WGrep(args, <<>>) = fold  BY <3>2, Zenon DEF WGrep
      <3> HIDE DEF first, files, args
      <3>4. fold = After(<<"GrepFile", first>>, NoOutput, files, Len(files))
        <4>1. Len(files) \in Nat /\ DOMAIN files = 1..Len(files)  BY <2>2, <3>2
        <4> QED  BY <4>1, GrepFileLoop
      <3> HIDE DEF fold
      <3>5. ToSet(Lines(text)) = {l \in ToSet(Lines(contents)) : HasTerm(l, term)}
        BY <2>1, <3>1, FoundLines
      <3>6. WGrep(<<term>>, contents) = [code |-> 0, text |-> text]
        BY <3>1 DEF WGrep
      <3> HIDE DEF text, contents
      <3>7. WGrep(<<term>>, contents).text = text /\ WGrep(<<term>>, contents).code = 0
        BY <3>6
      <3>8. WGrep(args, <<>>) = Told(Files, text)  BY <3>1, <3>2, <3>3, <3>4
      <3> QED  BY <3>5, <3>7, <3>8 DEF args, FoundAlike
    <2> QED  BY <2>3, <2>4
  <1>2. InputType => PipedOrNamedAlike
    BY <1>1 DEF PipedOrNamedAlike, Told, FoundAlike
  <1> QED  BY <1>2, InputInvariance, PTL

----
(* wzip and wunzip.                                                        *)
LEMMA TakeLetterLoop ==
    ASSUME NEW base, NEW seq, NEW n \in Nat, DOMAIN seq = 1..n
    PROVE  FoldLeft(TakeLetter, base, seq) = After(<<"TakeLetter">>, base, seq, n)
  <1>1. \A f, x : TakeLetter(f, x) = Turn(<<"TakeLetter">>, f, x)  BY DEF Turn
  <1>2. \E g : LoopEq(<<"TakeLetter">>, base, seq, n, g)  BY LoopExists
  <1>3. \E g : /\ LoopEq(<<"TakeLetter">>, base, seq, n, g)
               /\ FoldLeft(TakeLetter, base, seq) = g[1..n]
    BY <1>1, <1>2, Zenon DEF FoldLeft, MapThenFoldSet, LoopEq
  <1> QED  BY <1>3, LoopIs

LEMMA ZipFileLoop ==
    ASSUME NEW base, NEW seq, NEW n \in Nat, DOMAIN seq = 1..n
    PROVE  FoldLeft(ZipFile, base, seq) = After(<<"ZipFile">>, base, seq, n)
  <1>1. \A f, x : ZipFile(f, x) = Turn(<<"ZipFile">>, f, x)  BY DEF Turn
  <1>2. \E g : LoopEq(<<"ZipFile">>, base, seq, n, g)  BY LoopExists
  <1>3. \E g : /\ LoopEq(<<"ZipFile">>, base, seq, n, g)
               /\ FoldLeft(ZipFile, base, seq) = g[1..n]
    BY <1>1, <1>2, Zenon DEF FoldLeft, MapThenFoldSet, LoopEq
  <1> QED  BY <1>3, LoopIs

LEMMA PrintedIs ==
    ASSUME NEW count \in Nat
    PROVE  /\ Printed(count) \in 0..count
           /\ count < ByteSize \div 2 => Printed(count) = count
  <1> DEFINE byte == count % ByteSize
             half == ByteSize \div 2
  <1>1. ByteSize \in Nat /\ ByteSize > 0  BY ByteAssumption
  <1>2. half \in Nat /\ half <= ByteSize  BY <1>1
  <1>3. byte \in 0..count  BY <1>1
  <1>4. count < ByteSize => byte = count  BY <1>1
  <1>5. Printed(count) = IF byte < half THEN byte ELSE 0  BY DEF Printed
  <1> HIDE DEF byte, half
  <1>6. Printed(count) \in 0..count  BY <1>3, <1>5
  <1>7. count < half => Printed(count) = count  BY <1>1, <1>2, <1>4, <1>5
  <1> QED  BY <1>6, <1>7 DEF half

LEMMA CopiesAre ==
    ASSUME NEW C, NEW x \in C, NEW n \in Nat
    PROVE  /\ Copies(x, n) \in Seq(C) /\ Len(Copies(x, n)) = n
           /\ Copies(x, 0) = <<>>
           /\ Copies(x, n + 1) = Append(Copies(x, n), x)
  <1>1. \A k \in Nat : Copies(x, k) \in Seq(C) /\ Len(Copies(x, k)) = k
                       /\ \A i \in 1..k : Copies(x, k)[i] = x  BY DEF Copies
  <1>2. Copies(x, 0) = <<>>
    <2>1. Copies(x, 0) \in Seq(C) /\ Len(Copies(x, 0)) = 0  BY <1>1
    <2> QED  BY <2>1, EmptySeq
  <1>3. Copies(x, n + 1) = Append(Copies(x, n), x)
    <2> DEFINE a == Copies(x, n + 1)
               b == Copies(x, n)
               c == Append(b, x)
    <2>1. /\ a \in Seq(C) /\ Len(a) = n + 1 /\ \A i \in 1..(n + 1) : a[i] = x
          /\ b \in Seq(C) /\ Len(b) = n /\ \A i \in 1..n : b[i] = x  BY <1>1
    <2> HIDE DEF a, b
    <2>2. c \in Seq(C) /\ Len(c) = n + 1 /\ c[n + 1] = x /\ \A i \in 1..n : c[i] = b[i]
      BY <2>1, AppendIs
    <2> HIDE DEF c
    <2>3. \A i \in 1..(n + 1) : a[i] = c[i]
      <3>1. \A i \in 1..(n + 1) : i \in 1..n \/ i = n + 1  OBVIOUS
      <3> QED  BY <2>1, <2>2, <3>1
    <2>4. a = c  BY <2>1, <2>2, <2>3
    <2> QED  BY <2>4 DEF a, b, c
  <1> QED  BY <1>1, <1>2, <1>3

LEMMA PiecesAre ==
    ASSUME NEW C, NEW entries \in Seq(Entry(C))
    PROVE  /\ Pieces(entries) \in Seq(Seq(C))
           /\ Len(Pieces(entries)) = Len(entries)
  <1> DEFINE n == Len(entries)
             S == Seq(C)
  <1>1. n \in Nat /\ \A i \in 1..n : entries[i] \in Entry(C)  OBVIOUS
  <1>2. \A i \in 1..n : Copies(entries[i].letter, Printed(entries[i].count)) \in S
    <2> TAKE i \in 1..n
    <2> DEFINE e == entries[i]
    <2>1. e.letter \in C /\ e.count \in Nat  BY <1>1 DEF Entry
    <2> HIDE DEF e
    <2>2. Printed(e.count) \in Nat  BY <2>1, PrintedIs
    <2> QED  BY <2>1, <2>2, CopiesAre DEF e
  <1> HIDE DEF S
  <1>3. Pieces(entries) \in Seq(S) /\ Len(Pieces(entries)) = n
    BY <1>1, <1>2 DEF Pieces
  <1> QED  BY <1>3 DEF S

LEMMA UnzipAppend ==
    ASSUME NEW C, NEW entries \in Seq(Entry(C)), NEW e \in Entry(C)
    PROVE  /\ WUnzip(entries) \in Seq(C)
           /\ WUnzip(Append(entries, e)) =
                 WUnzip(entries) \o Copies(e.letter, Printed(e.count))
  <1> DEFINE new == Append(entries, e)
             n == Len(entries)
             out(s, k) == After(<<"Concat">>, <<>>, Pieces(s), k)
  <1>1. /\ n \in Nat /\ new \in Seq(Entry(C)) /\ Len(new) = n + 1
        /\ new[n + 1] = e /\ \A i \in 1..n : new[i] = entries[i]
    <2>1. n \in Nat  OBVIOUS
    <2> QED  BY <2>1, AppendIs
  <1>2. \A s \in Seq(Entry(C)) : WUnzip(s) = out(s, Len(s)) /\ WUnzip(s) \in Seq(C)
    <2> TAKE s \in Seq(Entry(C))
    <2>1. WUnzip(s) = FlattenSeq(Pieces(s))  BY DEF WUnzip, Pieces, Copies
    <2>2. Pieces(s) \in Seq(Seq(C)) /\ Len(Pieces(s)) = Len(s)  BY PiecesAre
    <2>3. FlattenSeq(Pieces(s)) = After(<<"Concat">>, <<>>, Pieces(s), Len(Pieces(s)))
          /\ FlattenSeq(Pieces(s)) \in Seq(C)  BY <2>2, FlattenIs
    <2> QED  BY <2>1, <2>2, <2>3
  <1> HIDE DEF new, n
  <1>3. /\ \A i \in 1..n : Pieces(new)[i] = Pieces(entries)[i]
        /\ Pieces(new)[n + 1] = Copies(e.letter, Printed(e.count))
    <2>1. \A i \in 1..n : i \in 1..(n + 1)  BY <1>1
    <2>2. n + 1 \in 1..(n + 1)  BY <1>1
    <2> QED  BY <1>1, <2>1, <2>2 DEF Pieces, n
  <1>4. out(new, n + 1) = out(new, n) \o Pieces(new)[n + 1]
    <2>1. out(new, n + 1) = Turn(<<"Concat">>, out(new, n), Pieces(new)[n + 1])
      BY <1>1, AfterNext
    <2> HIDE DEF out
    <2> QED  BY <2>1 DEF Turn
  <1>5. out(new, n) = out(entries, n)  BY <1>1, <1>3, AfterAgrees
  <1> HIDE DEF out
  <1>6. WUnzip(new) = out(new, n + 1) /\ WUnzip(entries) = out(entries, n)
        /\ WUnzip(entries) \in Seq(C)  BY <1>1, <1>2 DEF n
  <1> QED  BY <1>3, <1>4, <1>5, <1>6 DEF new

LEMMA UnzipOutput ==
    ASSUME NEW C, NEW written \in Seq(Entry(C)), NEW letter \in C, NEW counter \in Nat
    PROVE  LET new == Output(written, letter, counter)
           IN  /\ new \in Seq(Entry(C))
               /\ WUnzip(written) \in Seq(C)
               /\ WUnzip(new) = WUnzip(written) \o Copies(letter, Kept(letter, counter))
  <1> DEFINE e == [count |-> counter, letter |-> letter]
  <1>1. e \in Entry(C) /\ e.letter = letter /\ e.count = counter  BY DEF Entry
  <1> HIDE DEF e
  <1>2. /\ WUnzip(written) \in Seq(C)
        /\ WUnzip(Append(written, e)) =
              WUnzip(written) \o Copies(e.letter, Printed(e.count))
    BY <1>1, UnzipAppend
  <1>3. Output(written, letter, counter) =
           IF letter \in Skipped THEN written ELSE Append(written, e)
    BY DEF Output, e
  <1>4. CASE letter \in Skipped
    <2>1. WUnzip(written) \o <<>> = WUnzip(written)  BY <1>2, ConcatEmptySeq
    <2>2. Copies(letter, Kept(letter, counter)) = <<>>
      BY <1>4, CopiesAre DEF Kept
    <2> QED  BY <1>2, <1>3, <1>4, <2>1, <2>2
  <1>5. CASE letter \notin Skipped
    <2>1. Append(written, e) \in Seq(Entry(C))  BY <1>1
    <2> QED  BY <1>1, <1>2, <1>3, <1>5, <2>1 DEF Kept
  <1> QED  BY <1>4, <1>5

(* Runs of a file.                                                         *)
LEMMA PairBounds ==
    ASSUME NEW i \in Nat, NEW j \in Nat
    PROVE  Min({i, j})..Max({i, j}) = IF i <= j THEN i..j ELSE j..i
  <1>1. CASE i <= j
    <2>1. \A x \in {i, j} : (\A y \in {i, j} : x <= y) <=> x = i  BY <1>1
    <2>2. \A x \in {i, j} : (\A y \in {i, j} : x >= y) <=> x = j  BY <1>1
    <2>3. Min({i, j}) = i  BY <2>1 DEF Min
    <2>4. Max({i, j}) = j  BY <2>2 DEF Max
    <2> QED  BY <1>1, <2>3, <2>4
  <1>2. CASE ~(i <= j)
    <2>1. \A x \in {i, j} : (\A y \in {i, j} : x <= y) <=> x = j  BY <1>2
    <2>2. \A x \in {i, j} : (\A y \in {i, j} : x >= y) <=> x = i  BY <1>2
    <2>3. Min({i, j}) = j  BY <2>1 DEF Min
    <2>4. Max({i, j}) = i  BY <2>2 DEF Max
    <2> QED  BY <1>2, <2>3, <2>4
  <1> QED  BY <1>1, <1>2

LEMMA IntervalBounds ==
    ASSUME NEW s \in Nat, NEW e \in Nat, s <= e
    PROVE  Min(s..e) = s /\ Max(s..e) = e
  <1>1. \A x \in s..e : (\A y \in s..e : x <= y) <=> x = s  OBVIOUS
  <1>2. \A x \in s..e : (\A y \in s..e : x >= y) <=> x = e  OBVIOUS
  <1> QED  BY <1>1, <1>2 DEF Min, Max

LEMMA RunHas ==
    ASSUME NEW C, NEW f \in Seq(C), NEW i \in 1..Len(f), NEW j \in 1..Len(f)
    PROVE  j \in Run(f, i) <=>
              \A k \in (IF i <= j THEN i..j ELSE j..i) : f[k] = f[i]
  <1>1. i \in Nat /\ j \in Nat  OBVIOUS
  <1>2. Min({i, j})..Max({i, j}) = IF i <= j THEN i..j ELSE j..i
    BY <1>1, PairBounds
  <1>3. j \in Run(f, i) <=> \A k \in Min({i, j})..Max({i, j}) : f[k] = f[i]
    BY Zenon DEF Run
  <1> DEFINE between == Min({i, j})..Max({i, j})
  <1>4. between = IF i <= j THEN i..j ELSE j..i  BY <1>2
  <1>5. j \in Run(f, i) <=> \A k \in between : f[k] = f[i]  BY <1>3
  <1> HIDE DEF between
  <1> QED  BY <1>4, <1>5

LEMMA RunIs ==
    ASSUME NEW C, NEW f \in Seq(C), NEW s, NEW e, IsRun(f, s, e), NEW i \in s..e
    PROVE  Run(f, i) = s..e
  <1> DEFINE n == Len(f)
  <1>1. /\ n \in Nat /\ s \in 1..e /\ e \in 1..n
        /\ \A j \in s..e : f[j] = f[s]
        /\ s = 1 \/ f[s - 1] # f[s]
        /\ e = n \/ f[e + 1] # f[s]  BY DEF IsRun, Same
  <1>2. Run(f, i) \subseteq 1..n  BY DEF Run
  <1>3. \A j \in 1..n : j \in Run(f, i) <=>
           \A k \in (IF i <= j THEN i..j ELSE j..i) : f[k] = f[i]
    <2>1. i \in 1..n
      <3> HIDE DEF n
      <3> QED  BY <1>1
    <2> QED  BY <2>1, RunHas
  <1> HIDE DEF n
  <1>4. /\ s \in Nat /\ e \in Nat /\ i \in Nat /\ s >= 1 /\ s <= i /\ i <= e /\ e <= n
        /\ f[i] = f[s]  BY <1>1
  <1>5. ASSUME NEW j \in s..e PROVE j \in Run(f, i)
    <2>1. j \in 1..n /\ j \in Nat  BY <1>1, <1>4
    <2>2. \A k \in (IF i <= j THEN i..j ELSE j..i) : k \in s..e  BY <1>4, <2>1
    <2> QED  BY <1>1, <1>3, <1>4, <2>1, <2>2
  <1>6. ASSUME NEW j \in Run(f, i) PROVE j \in s..e
    <2>1. j \in 1..n /\ \A k \in (IF i <= j THEN i..j ELSE j..i) : f[k] = f[i]
      BY <1>2, <1>3
    <2>2. ~(j < s)
      <3> SUFFICES ASSUME j < s PROVE FALSE  OBVIOUS
      <3>1. s - 1 \in j..i /\ ~(i <= j) /\ s # 1  BY <1>1, <1>4, <2>1
      <3> QED  BY <1>1, <1>4, <2>1, <3>1
    <2>3. ~(j > e)
      <3> SUFFICES ASSUME j > e PROVE FALSE  OBVIOUS
      <3>1. e + 1 \in i..j /\ i <= j /\ e # n  BY <1>1, <1>4, <2>1
      <3> QED  BY <1>1, <1>4, <2>1, <3>1
    <2> QED  BY <1>1, <1>4, <2>1, <2>2, <2>3
  <1> QED  BY <1>5, <1>6

LEMMA PartsAre ==
    ASSUME NEW C, NEW f \in Seq(C)
    PROVE  /\ Parts(f) \in Seq(Seq(C)) /\ Len(Parts(f)) = Len(f)
           /\ ReadBack(f) = Picked(f, Len(f)) /\ ReadBack(f) \in Seq(C)
           /\ Picked(f, 0) = <<>>
           /\ \A m \in 0..(Len(f) - 1) :
                 Picked(f, m + 1) =
                    Picked(f, m) \o (IF ComesBack(f, m + 1) THEN <<f[m + 1]>> ELSE <<>>)
  <1> DEFINE n == Len(f)
             S == Seq(C)
  <1>1. n \in Nat /\ \A i \in 1..n : f[i] \in C  OBVIOUS
  <1>2. \A i \in 1..n : (IF ComesBack(f, i) THEN <<f[i]>> ELSE <<>>) \in S
    BY <1>1
  <1> HIDE DEF S
  <1>3. Parts(f) \in Seq(S) /\ Len(Parts(f)) = n  BY <1>1, <1>2 DEF Parts
  <1>4. ReadBack(f) = FlattenSeq(Parts(f))  BY DEF ReadBack, Parts
  <1>5. /\ FlattenSeq(Parts(f)) = After(<<"Concat">>, <<>>, Parts(f), Len(Parts(f)))
        /\ FlattenSeq(Parts(f)) \in Seq(C)  BY <1>3, FlattenIs DEF S
  <1>6. ASSUME NEW m \in 0..(n - 1)
        PROVE  Picked(f, m + 1) =
                  Picked(f, m) \o (IF ComesBack(f, m + 1) THEN <<f[m + 1]>> ELSE <<>>)
    <2>1. m \in Nat /\ m + 1 \in 1..n  BY <1>1
    <2>2. Picked(f, m + 1) = Turn(<<"Concat">>, Picked(f, m), Parts(f)[m + 1])
      BY <2>1, AfterNext DEF Picked
    <2>3. Picked(f, m + 1) = Picked(f, m) \o Parts(f)[m + 1]  BY <2>2 DEF Turn
    <2>4. Parts(f)[m + 1] = IF ComesBack(f, m + 1) THEN <<f[m + 1]>> ELSE <<>>
      BY <2>1 DEF Parts
    <2> QED  BY <2>3, <2>4
  <1>7. Picked(f, 0) = <<>>  BY AfterNone DEF Picked
  <1> QED  BY <1>3, <1>4, <1>5, <1>6, <1>7 DEF S, Picked

LEMMA PickedIs ==
    ASSUME NEW C, NEW f \in Seq(C)
    PROVE  \A m \in 0..Len(f) : Picked(f, m) \in Seq(C)
  <1> DEFINE n == Len(f)
             A == {m \in 0..n : Picked(f, m) \in Seq(C)}
             part(m) == IF ComesBack(f, m + 1) THEN <<f[m + 1]>> ELSE <<>>
  <1>1. n \in Nat /\ \A i \in 1..n : f[i] \in C  OBVIOUS
  <1>2. /\ Picked(f, 0) = <<>>
        /\ \A m \in 0..(n - 1) : Picked(f, m + 1) = Picked(f, m) \o part(m)
    BY PartsAre
  <1> HIDE DEF n
  <1>3. \A m \in 0..(n - 1) : part(m) \in Seq(C) /\ m + 1 \in 0..n  BY <1>1
  <1> HIDE DEF part
  <1>4. 0 \in A
    <2>1. <<>> \in Seq(C) /\ 0 \in 0..n  BY <1>1
    <2> QED  BY <1>2, <2>1
  <1>5. ASSUME NEW m \in 0..(n - 1), m \in A PROVE m + 1 \in A
    <2>1. Picked(f, m) \o part(m) \in Seq(C)  BY <1>3, <1>5, ConcatProperties
    <2> QED  BY <1>2, <1>3, <2>1
  <1> HIDE DEF A
  <1>6. 0..n \subseteq A  BY <1>1, <1>4, <1>5, SetInductionUpTo
  <1> QED  BY <1>6 DEF A, n

(* Of a run, its first letters come back.                                  *)
LEMMA RunComesBack ==
    ASSUME NEW C, NEW f \in Seq(C), NEW s, NEW e, IsRun(f, s, e), NEW i \in s..e
    PROVE  ComesBack(f, i) <=> i < s + Kept(f[s], e - s + 1)
  <1>1. Run(f, i) = s..e  BY RunIs
  <1>2. /\ s \in Nat /\ e \in Nat /\ s <= e /\ f[i] = f[s] /\ i \in Nat /\ s <= i
    <2>1. Len(f) \in Nat /\ s \in 1..e /\ e \in 1..Len(f) /\ f[i] = f[s]
      BY DEF IsRun, Same
    <2> QED  BY <2>1
  <1>3. Min(Run(f, i)) = s /\ Max(Run(f, i)) = e  BY <1>1, <1>2, IntervalBounds
  <1>4. ComesBack(f, i) <=> f[i] \notin Skipped /\ i < s + Printed(e - s + 1)
    BY <1>3 DEF ComesBack
  <1>5. CASE f[s] \in Skipped  BY <1>2, <1>4, <1>5 DEF Kept
  <1>6. CASE f[s] \notin Skipped  BY <1>2, <1>4, <1>6 DEF Kept
  <1> QED  BY <1>5, <1>6

LEMMA PickedRun ==
    ASSUME NEW C, NEW f \in Seq(C), NEW s, NEW e, IsRun(f, s, e)
    PROVE  Picked(f, e) = Picked(f, s - 1) \o Copies(f[s], Kept(f[s], e - s + 1))
  <1> DEFINE l == e - s + 1
             p == Kept(f[s], l)
             x == f[s]
             n == Len(f)
             before == Picked(f, s - 1)
             least(k) == IF k < p THEN k ELSE p
             A == {k \in 0..l : Picked(f, s - 1 + k) = before \o Copies(x, least(k))}
             part(m) == IF ComesBack(f, m + 1) THEN <<f[m + 1]>> ELSE <<>>
  <1>1. /\ n \in Nat /\ s \in 1..e /\ e \in 1..n
        /\ \A j \in s..e : f[j] = f[s]
        /\ \A i \in 1..n : f[i] \in C  BY DEF IsRun, Same
  <1>2. /\ \A m \in 0..(n - 1) : Picked(f, m + 1) = Picked(f, m) \o part(m)
        /\ \A m \in 0..n : Picked(f, m) \in Seq(C)  BY PartsAre, PickedIs
  <1>3. \A i \in s..e : ComesBack(f, i) <=> i < s + p  BY RunComesBack
  <1> HIDE DEF n
  <1>4. s \in Nat /\ e \in Nat /\ s >= 1 /\ s <= e /\ e <= n /\ x \in C
    BY <1>1
  <1>5. l \in Nat /\ s - 1 + l = e  BY <1>4
  <1>6. p \in Nat /\ p <= l
    <2>1. Printed(l) \in 0..l  BY <1>5, PrintedIs
    <2> HIDE DEF l
    <2> QED  BY <1>5, <2>1 DEF Kept
  <1> HIDE DEF p
  <1>7. before \in Seq(C)
    <2>1. s - 1 \in 0..n  BY <1>1, <1>4
    <2> QED  BY <1>2, <2>1
  <1>8. \A k \in Nat : /\ Copies(x, k) \in Seq(C) /\ Copies(x, 0) = <<>>
                       /\ Copies(x, k + 1) = Append(Copies(x, k), x)
    BY <1>4, CopiesAre
  <1>9. \A u, v \in Seq(C) : u \o Append(v, x) = Append(u \o v, x)
    BY <1>4, ConcatAppend
  <1> HIDE DEF before
  <1>10. 0 \in A
    <2>1. least(0) = 0 /\ s - 1 + 0 = s - 1 /\ 0 \in 0..l  BY <1>4, <1>5, <1>6
    <2>2. before \o <<>> = before  BY <1>7, ConcatEmptySeq
    <2> HIDE DEF l, least
    <2>3. Copies(x, 0) = <<>>  BY <1>8, <1>6
    <2> QED  BY <2>1, <2>2, <2>3 DEF before
  <1>11. ASSUME NEW k \in 0..(l - 1), k \in A PROVE k + 1 \in A
    <2> DEFINE m == s - 1 + k
    <2>1. /\ k \in Nat /\ k + 1 \in 0..l /\ m \in 0..(n - 1) /\ m \in 0..n
          /\ m + 1 \in s..e /\ s - 1 + (k + 1) = m + 1 /\ (m + 1 < s + p <=> k < p)
      BY <1>1, <1>4, <1>5, <1>6
    <2>2. Picked(f, m) = before \o Copies(x, least(k)) /\ Picked(f, m) \in Seq(C)
      BY <1>2, <1>11, <2>1
    <2>3. Picked(f, m + 1) = Picked(f, m) \o part(m)  BY <1>2, <2>1
    <2> HIDE DEF m, A
    <2>4. part(m) = IF k < p THEN <<x>> ELSE <<>>  BY <1>1, <1>3, <2>1
    <2>7. Picked(f, m + 1) = before \o Copies(x, least(k + 1)) => k + 1 \in A
      BY <2>1 DEF A
    <2> HIDE DEF part, l
    <2>5. CASE k < p
      <3>1. least(k) = k /\ least(k + 1) = k + 1  BY <1>6, <2>1, <2>5
      <3> HIDE DEF least
      <3> DEFINE c == Copies(x, k)
                 y == Picked(f, m)
      <3>2. y = before \o c /\ c \in Seq(C) /\ Copies(x, k + 1) = Append(c, x)
        BY <1>8, <2>1, <2>2, <3>1
      <3>3. Picked(f, m + 1) = y \o <<x>> /\ y \in Seq(C)
        BY <2>2, <2>3, <2>4, <2>5
      <3> HIDE DEF c, y, x
      <3>4. y \o <<x>> = Append(y, x)  BY <1>4, <3>3, AppendIsConcat
      <3>5. before \o Append(c, x) = Append(before \o c, x)
        BY <1>7, <1>9, <3>2
      <3> QED  BY <2>7, <3>1, <3>2, <3>3, <3>4, <3>5
    <2>6. CASE ~(k < p)
      <3>1. least(k) = p /\ least(k + 1) = p  BY <1>6, <2>1, <2>6
      <3>2. Picked(f, m) \o <<>> = Picked(f, m)  BY <2>2, ConcatEmptySeq
      <3> HIDE DEF least
      <3> QED  BY <2>2, <2>3, <2>4, <2>6, <2>7, <3>1, <3>2
    <2> QED  BY <2>5, <2>6
  <1> HIDE DEF A
  <1>12. l \in A
    <2>1. 0..l \subseteq A
      <3> HIDE DEF l
      <3> QED  BY <1>5, <1>10, <1>11, SetInductionUpTo
    <2> HIDE DEF l
    <2> QED  BY <1>5, <2>1
  <1>13. Picked(f, s - 1 + l) = before \o Copies(x, least(l))  BY <1>12 DEF A
  <1>14. least(l) = p
    <2> HIDE DEF l
    <2> QED  BY <1>5, <1>6
  <1> HIDE DEF least
  <1>15. Picked(f, e) = before \o Copies(x, p)  BY <1>5, <1>13, <1>14
  <1> QED  BY <1>15 DEF before, x, p, l

LEMMA TakeLetterIs ==
    ASSUME NEW C, NEW coder, IsCoder(C, coder), NEW x \in C
    PROVE  LET new == TakeLetter(coder, x)
           IN  /\ IsCoder(C, new) /\ new.last = x
               /\ coder.last = x => /\ new.counter = coder.counter + 1
                                    /\ new.written = coder.written
               /\ coder.last # x =>
                     /\ new.counter = 1
                     /\ new.written = Output(coder.written, coder.last, coder.counter)
  <1> DEFINE new == TakeLetter(coder, x)
             w == Output(coder.written, coder.last, coder.counter)
  <1>1. coder.last \in C /\ coder.counter \in Nat /\ coder.written \in Seq(Entry(C))
    BY DEF IsCoder
  <1>2. w \in Seq(Entry(C))  BY <1>1, UnzipOutput
  <1> HIDE DEF w
  <1>3. /\ new.last = x
        /\ new.counter = IF coder.last = x THEN coder.counter + 1 ELSE 1
        /\ new.written = IF coder.last = x THEN coder.written ELSE w
    BY DEF TakeLetter, w
  <1> HIDE DEF new
  <1>4. new.counter \in Nat /\ new.written \in Seq(Entry(C)) /\ new.last \in C
    BY <1>1, <1>2, <1>3
  <1> QED  BY <1>3, <1>4 DEF IsCoder, w, new

LEMMA TakeFirst ==
    ASSUME NEW C, NEW f \in Seq(C), f # <<>>, NEW coder, IsCoder(C, coder),
           coder.counter = 0
    PROVE  InFile(C, f, WUnzip(coder.written), 1, TakeLetter(coder, f[1]), 1)
  <1> DEFINE x == f[1]
             new == TakeLetter(coder, x)
             w == coder.written
             out == Output(w, coder.last, coder.counter)
             base == WUnzip(w)
  <1>1. x \in C /\ Len(f) \in Nat /\ Len(f) >= 1
    <2>1. Len(f) \in Nat /\ Len(f) >= 1  BY FrontIs
    <2> QED  BY <2>1
  <1>2. /\ IsCoder(C, new) /\ new.last = x
        /\ coder.last = x => /\ new.counter = coder.counter + 1
                             /\ new.written = w
        /\ coder.last # x => /\ new.counter = 1
                             /\ new.written = out  BY <1>1, TakeLetterIs
  <1>3. coder.last \in C /\ coder.counter = 0 /\ w \in Seq(Entry(C)) /\ 0 \in Nat
    BY DEF IsCoder
  <1>4. /\ base \in Seq(C)
        /\ WUnzip(out) = base \o Copies(coder.last, Kept(coder.last, 0))
    BY <1>3, UnzipOutput
  <1>5. Copies(coder.last, Kept(coder.last, 0)) = <<>>
    <2>1. Kept(coder.last, 0) = 0
      <3>1. Printed(0) \in 0..0  BY PrintedIs
      <3> QED  BY <3>1 DEF Kept
    <2> QED  BY <1>3, <2>1, CopiesAre
  <1>6. base \o <<>> = base  BY <1>4, ConcatEmptySeq
  <1> HIDE DEF out, base, w, new
  <1>7. WUnzip(new.written) = base  BY <1>2, <1>4, <1>5, <1>6 DEF base
  <1>8. Picked(f, 0) = <<>>  BY PartsAre
  <1>9. new.counter = 1  BY <1>2, <1>3
  <1>10. Same(f, 1, 1)  BY <1>1 DEF Same
  <1>11. 1 - 1 + 1 = 1 /\ 1 - 1 = 0  OBVIOUS
  <1>12. InFile(C, f, base, 1, new, 1)
    BY <1>2, <1>6, <1>7, <1>8, <1>9, <1>10, <1>11 DEF InFile
  <1> QED  BY <1>12 DEF new, base, w

LEMMA TakeNext ==
    ASSUME NEW C, NEW f \in Seq(C), NEW base \in Seq(C), NEW m \in 1..(Len(f) - 1),
           NEW coder, NEW s, InFile(C, f, base, m, coder, s)
    PROVE  \E t : InFile(C, f, base, m + 1, TakeLetter(coder, f[m + 1]), t)
  <1> DEFINE x == f[m + 1]
             n == Len(f)
             new == TakeLetter(coder, x)
             w == coder.written
             out == Output(w, coder.last, coder.counter)
  <1>1. n \in Nat /\ m \in Nat /\ m >= 1 /\ m + 1 \in 1..n /\ m \in 1..n /\ x \in C
        /\ f[m] \in C
    <2>1. n \in Nat /\ \A i \in 1..n : f[i] \in C  OBVIOUS
    <2> HIDE DEF n
    <2>2. m \in 1..(n - 1)  BY DEF n
    <2>3. m + 1 \in 1..n /\ m \in 1..n /\ m \in Nat /\ m >= 1  BY <2>1, <2>2
    <2> QED  BY <2>1, <2>3
  <1> HIDE DEF n
  <1>2. /\ IsCoder(C, coder) /\ coder.last = f[m] /\ coder.counter = m - s + 1
        /\ s \in 1..m /\ \A j \in s..m : f[j] = f[s]
        /\ s = 1 \/ f[s - 1] # f[s]
        /\ WUnzip(w) = base \o Picked(f, s - 1)  BY DEF InFile, Same
  <1>3. /\ IsCoder(C, new) /\ new.last = x
        /\ coder.last = x => /\ new.counter = coder.counter + 1
                             /\ new.written = w
        /\ coder.last # x => /\ new.counter = 1
                             /\ new.written = out
    <2>1. IsCoder(C, coder) /\ x \in C  BY <1>1, <1>2
    <2> HIDE DEF x, out
    <2>2. /\ IsCoder(C, new) /\ new.last = x
          /\ coder.last = x => /\ new.counter = coder.counter + 1
                               /\ new.written = coder.written
          /\ coder.last # x =>
                /\ new.counter = 1
                /\ new.written = Output(coder.written, coder.last, coder.counter)
      BY <2>1, TakeLetterIs
    <2> QED  BY <2>2 DEF out
  <1>4. s \in Nat /\ s >= 1 /\ s <= m /\ f[s] = f[m]  BY <1>1, <1>2
  <1> HIDE DEF new, out, w
  <1>5. CASE coder.last = x
    <2>1. new.counter = (m + 1) - s + 1 /\ new.written = w
      BY <1>1, <1>2, <1>3, <1>4, <1>5
    <2>2. Same(f, s, m + 1)
      <3>1. \A j \in s..(m + 1) : j \in s..m \/ j = m + 1  BY <1>1, <1>4
      <3>2. f[m + 1] = f[s]  BY <1>2, <1>4, <1>5
      <3>3. s \in 1..(m + 1) /\ m + 1 \in 1..Len(f)  BY <1>1, <1>4 DEF n
      <3> QED  BY <1>2, <3>1, <3>2, <3>3 DEF Same
    <2>3. InFile(C, f, base, m + 1, new, s)
      BY <1>2, <1>3, <2>1, <2>2 DEF InFile
    <2> QED  BY <2>3 DEF new
  <1>6. CASE coder.last # x
    <2>1. new.counter = 1 /\ new.written = out  BY <1>3, <1>6
    <2>2. IsRun(f, s, m)
      <3>1. Same(f, s, m) /\ f[m + 1] # f[s]  BY <1>2, <1>4, <1>6 DEF InFile
      <3> QED  BY <3>1 DEF IsRun
    <2> DEFINE c == Copies(f[s], Kept(f[s], m - s + 1))
               p == Picked(f, s - 1)
    <2>3. Picked(f, m) = p \o c  BY <2>2, PickedRun
    <2>4. WUnzip(out) = WUnzip(w) \o c
      <3>1. w \in Seq(Entry(C)) /\ coder.last \in C /\ coder.counter \in Nat
        BY <1>2 DEF IsCoder, w
      <3>2. WUnzip(out) = WUnzip(w) \o Copies(coder.last, Kept(coder.last, coder.counter))
        <4> DEFINE l == coder.last
                   k == coder.counter
        <4>1. l \in C /\ k \in Nat /\ w \in Seq(Entry(C)) /\ out = Output(w, l, k)
          BY <3>1 DEF out, w
        <4> HIDE DEF l, k
        <4>2. WUnzip(Output(w, l, k)) = WUnzip(w) \o Copies(l, Kept(l, k))
          BY <4>1, UnzipOutput, ZenonT(40)
        <4> QED  BY <4>1, <4>2 DEF l, k
      <3>3. coder.last = f[s] /\ coder.counter = m - s + 1  BY <1>2, <1>4
      <3> QED  BY <3>2, <3>3
    <2>5. c \in Seq(C)
      <3>1. m - s + 1 \in Nat /\ f[s] \in C  BY <1>1, <1>4
      <3>2. Kept(f[s], m - s + 1) \in Nat
        <4>1. Printed(m - s + 1) \in 0..(m - s + 1)  BY <3>1, PrintedIs
        <4> QED  BY <3>1, <4>1 DEF Kept
      <3> QED  BY <3>1, <3>2, CopiesAre
    <2>6. p \in Seq(C)
      <3>1. s - 1 \in 0..Len(f)  BY <1>1, <1>4 DEF n
      <3> QED  BY <3>1, PickedIs
    <2> HIDE DEF c, p
    <2>7. (base \o p) \o c = base \o (p \o c)
      BY <2>5, <2>6, ConcatAssociative, SMTT(40)
    <2>8. WUnzip(new.written) = base \o Picked(f, m)
      BY <1>2, <2>1, <2>3, <2>4, <2>7 DEF p
    <2>9. Same(f, m + 1, m + 1)
      <3>1. (m + 1) - 1 = m /\ f[m] # f[m + 1]  BY <1>1, <1>2, <1>6
      <3>2. m + 1 \in 1..(m + 1) /\ m + 1 \in 1..Len(f) /\ \A j \in (m + 1)..(m + 1) : j = m + 1
        BY <1>1 DEF n
      <3> QED  BY <3>1, <3>2 DEF Same
    <2>10. new.counter = (m + 1) - (m + 1) + 1 /\ (m + 1) - 1 = m
      BY <1>1, <2>1
    <2>11. InFile(C, f, base, m + 1, new, m + 1)
      BY <1>3, <2>8, <2>9, <2>10 DEF InFile
    <2> QED  BY <2>11 DEF new
  <1> QED  BY <1>5, <1>6

(* A file coded behind others is read back behind them.                    *)
LEMMA ZipFileIs ==
    ASSUME NEW C, Zero \in C, NEW f \in Seq(C), NEW coder, IsCoder(C, coder),
           coder.counter = 0
    PROVE  LET new == ZipFile(coder, f)
           IN  /\ IsCoder(C, new) /\ new.counter = 0
               /\ WUnzip(new.written) = WUnzip(coder.written) \o ReadBack(f)
  <1> DEFINE n == Len(f)
             now(m) == After(<<"TakeLetter">>, coder, f, m)
             end == now(n)
             out == Output(end.written, end.last, end.counter)
             new == ZipFile(coder, f)
             base == WUnzip(coder.written)
             A == {m \in 0..n : m = 0 \/ \E s : InFile(C, f, base, m, now(m), s)}
  <1>1. n \in Nat /\ DOMAIN f = 1..n /\ (n = 0 <=> f = <<>>)  OBVIOUS
  <1>2. new.last = Zero /\ new.counter = 0 /\ new.written = out
    <2> DEFINE e == FoldLeft(TakeLetter, coder, f)
    <2>1. e = end  BY <1>1, TakeLetterLoop
    <2>2. new.last = Zero /\ new.counter = 0
          /\ new.written = Output(e.written, e.last, e.counter)  BY DEF ZipFile
    <2> HIDE DEF new, e, end
    <2> QED  BY <2>1, <2>2
  <1>3. base \in Seq(C)
    <2>1. coder.written \in Seq(Entry(C)) /\ coder.last \in C /\ coder.counter \in Nat
      BY DEF IsCoder
    <2> QED  BY <2>1, UnzipOutput
  <1>4. now(0) = coder  BY AfterNone
  <1>5. ASSUME NEW m \in 0..(n - 1)
        PROVE  now(m + 1) = TakeLetter(now(m), f[m + 1])
    <2>1. m \in Nat  OBVIOUS
    <2>2. now(m + 1) = Turn(<<"TakeLetter">>, now(m), f[m + 1])
      BY <2>1, AfterNext
    <2> HIDE DEF now
    <2> QED  BY <2>2 DEF Turn
  <1> HIDE DEF now, new, base, out
  <1>6. 0 \in A  BY <1>1
  <1>7. ASSUME NEW m \in 0..(n - 1), m \in A PROVE m + 1 \in A
    <2>1. m + 1 \in 0..n /\ m \in Nat  BY <1>1
    <2>2. CASE m = 0
      <3>1. f # <<>>
        <4> HIDE DEF n
        <4> QED  BY <1>1, <1>7, <2>2
      <3>2. InFile(C, f, base, 1, TakeLetter(coder, f[1]), 1)
        BY <3>1, TakeFirst DEF base
      <3>3. now(1) = TakeLetter(coder, f[1])
        <4>1. 0 + 1 = 1 /\ 0 \in 0..(n - 1)  BY <2>2
        <4>2. now(0 + 1) = TakeLetter(now(0), f[0 + 1])  BY <1>5, <4>1
        <4> QED  BY <1>4, <4>1, <4>2
      <3>4. m + 1 = 1  BY <2>2
      <3> HIDE DEF n
      <3> QED  BY <2>1, <3>2, <3>3, <3>4
    <2>3. CASE m # 0
      <3>1. PICK s : InFile(C, f, base, m, now(m), s)  BY <1>7, <2>3
      <3>2. m \in 1..(Len(f) - 1)  BY <1>1, <2>3
      <3> DEFINE at == now(m)
      <3> HIDE DEF at
      <3>3. InFile(C, f, base, m, at, s)  BY <3>1 DEF at
      <3>4. \E t : InFile(C, f, base, m + 1, TakeLetter(at, f[m + 1]), t)
        BY <1>3, <3>2, <3>3, TakeNext
      <3>5. now(m + 1) = TakeLetter(at, f[m + 1])  BY <1>5 DEF at
      <3> QED  BY <2>1, <3>4, <3>5
    <2> QED  BY <2>2, <2>3
  <1> HIDE DEF A
  <1>8. n \in A
    <2>1. 0..n \subseteq A
      <3> HIDE DEF n
      <3> QED  BY <1>1, <1>6, <1>7, SetInductionUpTo
    <2> HIDE DEF n
    <2> QED  BY <1>1, <2>1
  <1>9. /\ out \in Seq(Entry(C))
        /\ WUnzip(out) = base \o ReadBack(f)
    <2>1. CASE n = 0
      <3>1. f = <<>> /\ end = coder  BY <1>1, <1>4, <2>1
      <3>2. ReadBack(f) = <<>>
        <4>1. ReadBack(f) = Picked(f, Len(f)) /\ Picked(f, 0) = <<>>
          BY PartsAre
        <4> QED  BY <2>1, <4>1
      <3>3. coder.written \in Seq(Entry(C)) /\ coder.last \in C /\ coder.counter \in Nat
        BY DEF IsCoder
      <3>4. /\ out \in Seq(Entry(C))
            /\ WUnzip(out) = base \o Copies(coder.last, Kept(coder.last, coder.counter))
        <4> DEFINE l == coder.last
                   k == coder.counter
                   w == coder.written
        <4>1. l \in C /\ k \in Nat /\ w \in Seq(Entry(C)) /\ out = Output(w, l, k)
          BY <3>1, <3>3 DEF out
        <4>2. base = WUnzip(w)  BY DEF base
        <4> HIDE DEF l, k, w
        <4>3. /\ WUnzip(Output(w, l, k)) = WUnzip(w) \o Copies(l, Kept(l, k))
              /\ Output(w, l, k) \in Seq(Entry(C))
          BY <4>1, UnzipOutput, ZenonT(40)
        <4> QED  BY <4>1, <4>2, <4>3 DEF l, k
      <3>5. Kept(coder.last, coder.counter) = 0
        <4>1. Printed(0) \in 0..0  BY PrintedIs
        <4> QED  BY <4>1 DEF Kept
      <3>6. Copies(coder.last, 0) = <<>>  BY <3>3, CopiesAre
      <3> QED  BY <3>2, <3>4, <3>5, <3>6
    <2>2. CASE n # 0
      <3>1. PICK s : InFile(C, f, base, n, now(n), s)  BY <1>8, <2>2 DEF A
      <3> HIDE DEF end
      <3>2. InFile(C, f, base, n, end, s)  BY <3>1 DEF end
      <3>3. /\ IsCoder(C, end) /\ Same(f, s, n) /\ end.last = f[n]
            /\ end.counter = n - s + 1
            /\ WUnzip(end.written) = base \o Picked(f, s - 1)
        BY <3>2 DEF InFile
      <3>4. IsRun(f, s, n)  BY <3>3 DEF IsRun
      <3>5. s \in 1..n /\ n \in 1..Len(f) /\ f[n] = f[s] /\ f[s] \in C
        <4>1. s \in 1..n /\ n \in 1..Len(f) /\ \A j \in s..n : f[j] = f[s]
          BY <3>3 DEF Same
        <4> HIDE DEF n
        <4>2. n \in s..n  BY <1>1, <4>1
        <4>3. f[s] \in C  BY <4>1 DEF n
        <4> QED  BY <4>1, <4>2, <4>3
      <3>6. end.written \in Seq(Entry(C)) /\ end.last \in C /\ end.counter \in Nat
        BY <3>3 DEF IsCoder
      <3> DEFINE c == Copies(f[s], Kept(f[s], n - s + 1))
                 p == Picked(f, s - 1)
      <3>7. /\ out \in Seq(Entry(C))
            /\ WUnzip(out) = WUnzip(end.written) \o c
        <4>1. /\ out \in Seq(Entry(C))
              /\ WUnzip(out) = WUnzip(end.written)
                               \o Copies(end.last, Kept(end.last, end.counter))
          BY <3>6, UnzipOutput, ZenonT(40) DEF out
        <4> QED  BY <3>3, <3>5, <4>1
      <3>8. Picked(f, n) = p \o c  BY <3>4, PickedRun
      <3>9. ReadBack(f) = Picked(f, n)  BY PartsAre
      <3>10. p \in Seq(C)
        <4>1. s - 1 \in 0..Len(f)  BY <3>5
        <4> QED  BY <4>1, PickedIs
      <3>11. c \in Seq(C)
        <4> HIDE DEF n
        <4>1. n - s + 1 \in Nat  BY <1>1, <3>5
        <4>2. Printed(n - s + 1) \in 0..(n - s + 1)  BY <4>1, PrintedIs
        <4>3. Kept(f[s], n - s + 1) \in Nat  BY <4>1, <4>2 DEF Kept
        <4> QED  BY <3>5, <4>3, CopiesAre
      <3> HIDE DEF c, p, n
      <3>12. (base \o p) \o c = base \o (p \o c)
        BY <1>3, <3>10, <3>11, ConcatAssociative
      <3> QED  BY <3>3, <3>7, <3>8, <3>9, <3>12 DEF p
    <2> QED  BY <2>1, <2>2
  <1>10. IsCoder(C, new)  BY <1>2, <1>9 DEF IsCoder
  <1> QED  BY <1>2, <1>9, <1>10 DEF new, base

LEMMA ZipsAre ==
    ASSUME NEW C, Zero \in C, NEW files \in Seq(Seq(C)), NEW x \in C
    PROVE  LET coder == [last |-> x, counter |-> 0, written |-> <<>>]
           IN  WUnzip(FoldLeft(ZipFile, coder, files).written) =
                  FlattenSeq([i \in 1..Len(files) |-> ReadBack(files[i])])
  <1> DEFINE coder == [last |-> x, counter |-> 0, written |-> <<>>]
             n == Len(files)
             now(m) == After(<<"ZipFile">>, coder, files, m)
             each == [i \in 1..n |-> ReadBack(files[i])]
             to(m) == After(<<"Concat">>, <<>>, each, m)
             A == {m \in 0..n : /\ IsCoder(C, now(m)) /\ now(m).counter = 0
                                /\ WUnzip(now(m).written) = to(m)}
  <1>1. n \in Nat /\ DOMAIN files = 1..n /\ \A i \in 1..n : files[i] \in Seq(C)
    OBVIOUS
  <1>2. FoldLeft(ZipFile, coder, files) = now(n)
    <2> HIDE DEF coder
    <2> QED  BY <1>1, ZipFileLoop
  <1>3. now(0) = coder /\ to(0) = <<>>  BY AfterNone
  <1> HIDE DEF n
  <1>4. Len(each) = n /\ each \in Seq(Seq(C))
    <2> DEFINE S == Seq(C)
    <2>1. \A i \in 1..n : ReadBack(files[i]) \in S  BY <1>1, PartsAre
    <2> HIDE DEF S
    <2>2. Len(each) = n /\ each \in Seq(S)  BY <1>1, <2>1
    <2> QED  BY <2>2 DEF S
  <1>5. FlattenSeq(each) = to(n)  BY <1>4, FlattenIs
  <1>6. ASSUME NEW m \in 0..(n - 1)
        PROVE  /\ now(m + 1) = ZipFile(now(m), files[m + 1])
               /\ to(m + 1) = to(m) \o ReadBack(files[m + 1])
    <2>1. m \in Nat /\ m + 1 \in 1..n  BY <1>1
    <2>2. now(m + 1) = Turn(<<"ZipFile">>, now(m), files[m + 1])
      BY <2>1, AfterNext
    <2>3. to(m + 1) = Turn(<<"Concat">>, to(m), each[m + 1])
      BY <2>1, AfterNext
    <2>4. each[m + 1] = ReadBack(files[m + 1])  BY <2>1
    <2> HIDE DEF now, to
    <2> QED  BY <2>2, <2>3, <2>4 DEF Turn
  <1> HIDE DEF now, to, each
  <1>7. 0 \in A
    <2>1. <<>> \in Seq(Entry(C)) /\ WUnzip(<<>>) = <<>>
      <3> DEFINE z == <<>>
      <3>1. z \in Seq(Entry(C)) /\ Len(z) = 0  OBVIOUS
      <3>2. Pieces(z) \in Seq(Seq(C)) /\ Len(Pieces(z)) = 0
        <4> HIDE DEF z
        <4>1. Pieces(z) \in Seq(Seq(C)) /\ Len(Pieces(z)) = Len(z)
          BY <3>1, PiecesAre
        <4> QED  BY <3>1, <4>1
      <3>3. WUnzip(z) = FlattenSeq(Pieces(z))  BY DEF WUnzip, Pieces, Copies
      <3>4. FlattenSeq(Pieces(z)) = After(<<"Concat">>, <<>>, Pieces(z), Len(Pieces(z)))
        BY <3>2, FlattenIs
      <3>5. FlattenSeq(Pieces(z)) = <<>>  BY <3>2, <3>4, AfterNone
      <3> QED  BY <3>1, <3>3, <3>5
    <2>2. coder.written = <<>> /\ coder.counter = 0 /\ coder.last = x  OBVIOUS
    <2>3. IsCoder(C, coder)  BY <2>1, <2>2 DEF IsCoder
    <2>4. 0 \in 0..n  BY <1>1
    <2> HIDE DEF coder
    <2> QED  BY <1>3, <2>1, <2>2, <2>3, <2>4
  <1>8. ASSUME NEW m \in 0..(n - 1), m \in A PROVE m + 1 \in A
    <2> DEFINE f == files[m + 1]
               at == now(m)
    <2>1. f \in Seq(C) /\ m + 1 \in 0..n
      <3>1. m + 1 \in 1..n /\ m + 1 \in 0..n  BY <1>1
      <3> QED  BY <1>1, <3>1
    <2>2. /\ IsCoder(C, at) /\ at.counter = 0 /\ WUnzip(at.written) = to(m)
      BY <1>8
    <2> HIDE DEF f, at
    <2>3. /\ IsCoder(C, ZipFile(at, f)) /\ ZipFile(at, f).counter = 0
          /\ WUnzip(ZipFile(at, f).written) = WUnzip(at.written) \o ReadBack(f)
      BY <2>1, <2>2, ZipFileIs
    <2>4. now(m + 1) = ZipFile(at, f) /\ to(m + 1) = to(m) \o ReadBack(f)
      BY <1>6 DEF at, f
    <2> QED  BY <2>1, <2>2, <2>3, <2>4
  <1> HIDE DEF A
  <1>9. n \in A
    <2>1. 0..n \subseteq A  BY <1>1, <1>7, <1>8, SetInductionUpTo
    <2> QED  BY <1>1, <2>1
  <1>10. WUnzip(now(n).written) = to(n)  BY <1>9 DEF A
  <1> HIDE DEF coder
  <1>11. WUnzip(FoldLeft(ZipFile, coder, files).written) = FlattenSeq(each)
    BY <1>2, <1>5, <1>10
  <1> QED  BY <1>11 DEF coder, each, n

(* Where all runs are short every letter that is not skipped comes back.   *)
LEMMA ShortRunsComeBack ==
    ASSUME NEW C, NEW f \in Seq(C), ShortRuns(f)
    PROVE  ReadBack(f) = Unskipped(f)
  <1> DEFINE n == Len(f)
  <1>1. n \in Nat /\ DOMAIN f = 1..n  OBVIOUS
  <1>2. ASSUME NEW i \in 1..n
        PROVE  ComesBack(f, i) <=> f[i] \notin Skipped
    <2> DEFINE run == Run(f, i)
               s == Min(run)
               e == Max(run)
    <2>1. /\ run \subseteq 1..n
          /\ \A j \in 1..n : j \in run <=>
                \A k \in (IF i <= j THEN i..j ELSE j..i) : f[k] = f[i]
      BY RunHas DEF Run
    <2>2. Cardinality(run) < ByteSize \div 2  BY <1>1 DEF ShortRuns
    <2> HIDE DEF n, run
    <2>3. i \in run /\ i \in Nat  BY <1>1, <2>1
    <2>4. /\ s \in run /\ \A y \in run : s <= y
          /\ e \in run /\ \A y \in run : e >= y
      <3>1. run \subseteq Nat /\ run # {}  BY <1>1, <2>1, <2>3
      <3>2. s \in run /\ \A y \in run : s <= y  BY <3>1, MinIsIn
      <3>3. e \in run /\ \A y \in run : e >= y  BY <1>1, <2>1, <3>1, MaxIsIn
      <3> QED  BY <3>2, <3>3
    <2> HIDE DEF s, e
    <2>5. s \in 1..n /\ e \in 1..n /\ s <= i /\ i <= e /\ s \in Nat /\ e \in Nat
      BY <1>1, <2>1, <2>3, <2>4
    <2>6. run = s..e
      <3>1. ASSUME NEW j \in s..e PROVE j \in run
        <4>1. j \in 1..n /\ j \in Nat  BY <1>1, <2>5
        <4>2. /\ \A k \in (IF i <= s THEN i..s ELSE s..i) : f[k] = f[i]
              /\ \A k \in (IF i <= e THEN i..e ELSE e..i) : f[k] = f[i]
          BY <2>1, <2>4, <2>5
        <4>3. \A k \in s..e : f[k] = f[i]
          <5>1. \A k \in s..i : f[k] = f[i]
            <6>1. CASE i <= s
              <7>1. s = i /\ \A k \in s..i : k = i  BY <2>3, <2>5, <6>1
              <7> QED  BY <7>1
            <6>2. CASE ~(i <= s)  BY <4>2, <6>2
            <6> QED  BY <6>1, <6>2
          <5>2. \A k \in i..e : f[k] = f[i]  BY <2>5, <4>2
          <5>3. \A k \in s..e : k \in s..i \/ k \in i..e  BY <2>3, <2>5
          <5> QED  BY <5>1, <5>2, <5>3
        <4>4. \A k \in (IF i <= j THEN i..j ELSE j..i) : k \in s..e
          BY <2>3, <2>5, <4>1
        <4> QED  BY <2>1, <4>1, <4>3, <4>4
      <3>2. ASSUME NEW j \in run PROVE j \in s..e
        <4>1. j \in 1..n  BY <2>1
        <4> QED  BY <1>1, <2>4, <2>5, <4>1
      <3> QED  BY <3>1, <3>2
    <2> DEFINE l == e - s + 1
    <2>7. Cardinality(run) = l /\ l \in Nat /\ i < s + l
      <3>1. Cardinality(s..e) = IF s > e THEN 0 ELSE e - s + 1
        BY <2>5, FS_Interval
      <3>2. ~(s > e)  BY <2>3, <2>5
      <3>3. l \in Nat /\ i < s + l  BY <2>3, <2>5
      <3> QED  BY <2>6, <3>1, <3>2, <3>3
    <2> HIDE DEF l
    <2>8. Printed(l) = l  BY <2>2, <2>7, PrintedIs
    <2>9. ComesBack(f, i) <=> f[i] \notin Skipped /\ i < s + Printed(l)
      BY Zenon DEF ComesBack, s, e, l, run
    <2> QED  BY <2>7, <2>8, <2>9
  <1>3. [i \in 1..n |-> IF ComesBack(f, i) THEN <<f[i]>> ELSE <<>>] =
        [i \in 1..n |-> IF f[i] \in Skipped THEN <<>> ELSE <<f[i]>>]  BY <1>2
  <1> QED  BY <1>3, Zenon DEF ReadBack, Unskipped, n

----
(* The letters that are not skipped.                                       *)
LEMMA UnskippedIs ==
    ASSUME NEW C, NEW f \in Seq(C)
    PROVE  Unskipped(f) = AllOf(<<"Keep">>, f)
  <1> DEFINE n == Len(f)
             S == Seq(C)
             parts == [i \in 1..n |-> IF f[i] \in Skipped THEN <<>> ELSE <<f[i]>>]
             now(m) == After(<<"Keep">>, <<>>, f, m)
             to(m) == After(<<"Concat">>, <<>>, parts, m)
             A == {m \in 0..n : now(m) \in S /\ to(m) = now(m)}
  <1>1. n \in Nat /\ \A i \in 1..n : f[i] \in C  OBVIOUS
  <1>2. parts \in Seq(S) /\ Len(parts) = n
    <2>1. \A i \in 1..n : (IF f[i] \in Skipped THEN <<>> ELSE <<f[i]>>) \in S
      BY <1>1
    <2> HIDE DEF S
    <2> QED  BY <1>1, <2>1
  <1>3. Unskipped(f) = to(n)
    <2>1. Unskipped(f) = FlattenSeq(parts)  BY DEF Unskipped
    <2>2. FlattenSeq(parts) = to(Len(parts))  BY <1>2, FlattenIs
    <2> QED  BY <1>2, <2>1, <2>2
  <1>4. now(0) = <<>> /\ to(0) = <<>>  BY AfterNone
  <1>5. ASSUME NEW m \in 0..(n - 1)
        PROVE  /\ now(m + 1) = IF f[m + 1] \in Skipped THEN now(m)
                               ELSE Append(now(m), f[m + 1])
               /\ to(m + 1) = to(m) \o (IF f[m + 1] \in Skipped THEN <<>> ELSE <<f[m + 1]>>)
    <2>1. m \in Nat /\ m + 1 \in 1..n  BY <1>1
    <2>2. now(m + 1) = Turn(<<"Keep">>, now(m), f[m + 1])  BY <2>1, AfterNext
    <2>3. to(m + 1) = Turn(<<"Concat">>, to(m), parts[m + 1])
      BY <2>1, AfterNext
    <2>4. parts[m + 1] = IF f[m + 1] \in Skipped THEN <<>> ELSE <<f[m + 1]>>
      BY <2>1
    <2> HIDE DEF now, to, parts
    <2> QED  BY <2>2, <2>3, <2>4 DEF Turn
  <1> HIDE DEF now, to, parts, n
  <1>6. 0 \in A
    <2>1. <<>> \in S /\ 0 \in 0..n  BY <1>1
    <2> QED  BY <1>4, <2>1
  <1>7. ASSUME NEW m \in 0..(n - 1), m \in A PROVE m + 1 \in A
    <2> DEFINE x == f[m + 1]
               y == now(m)
    <2>1. x \in C /\ m + 1 \in 0..n
      <3>1. m + 1 \in 1..n /\ m + 1 \in 0..n  BY <1>1
      <3> QED  BY <1>1, <3>1
    <2>2. y \in Seq(C) /\ to(m) = y  BY <1>7
    <2>3. /\ now(m + 1) = IF x \in Skipped THEN y ELSE Append(y, x)
          /\ to(m + 1) = y \o (IF x \in Skipped THEN <<>> ELSE <<x>>)
      BY <1>5, <2>2
    <2> HIDE DEF x, y
    <2>4. y \o <<>> = y /\ y \o <<x>> = Append(y, x) /\ Append(y, x) \in Seq(C)
      BY <2>1, <2>2, ConcatEmptySeq, AppendIsConcat
    <2> QED  BY <2>1, <2>2, <2>3, <2>4
  <1> HIDE DEF A
  <1>8. n \in A
    <2>1. 0..n \subseteq A  BY <1>1, <1>6, <1>7, SetInductionUpTo
    <2> QED  BY <1>1, <2>1
  <1> QED  BY <1>3, <1>8 DEF A, now, n, AllOf

LEMMA KeepAdds ==
    ASSUME NEW C
    PROVE  Adds(<<"Keep">>, C, C, [x \in C |-> IF x \in Skipped THEN <<>> ELSE <<x>>])
  <1> DEFINE g == [x \in C |-> IF x \in Skipped THEN <<>> ELSE <<x>>]
  <1>1. g \in [C -> Seq(C)]  OBVIOUS
  <1>2. ASSUME NEW y \in Seq(C), NEW x \in C PROVE Turn(<<"Keep">>, y, x) = y \o g[x]
    <2>1. Turn(<<"Keep">>, y, x) = IF x \in Skipped THEN y ELSE Append(y, x)
      BY DEF Turn
    <2>2. y \o <<>> = y /\ y \o <<x>> = Append(y, x)
      BY ConcatEmptySeq, AppendIsConcat
    <2> QED  BY <2>1, <2>2
  <1> QED  BY <1>1, <1>2 DEF Adds

LEMMA UnskippedFlatten ==
    ASSUME NEW C, NEW files \in Seq(Seq(C))
    PROVE  Unskipped(FlattenSeq(files)) =
              FlattenSeq([i \in 1..Len(files) |-> Unskipped(files[i])])
  <1> DEFINE each == [i \in 1..Len(files) |-> Unskipped(files[i])]
             g == [x \in C |-> IF x \in Skipped THEN <<>> ELSE <<x>>]
             loop == <<"Keep">>
             S == Seq(C)
  <1>1. Adds(loop, C, C, g)  BY KeepAdds
  <1>2. Len(files) \in Nat /\ \A i \in 1..Len(files) : files[i] \in Seq(C)
    OBVIOUS
  <1>3. \A i \in 1..Len(files) : Unskipped(files[i]) = AllOf(loop, files[i])
    BY <1>2, UnskippedIs
  <1>4. FlattenSeq(files) \in Seq(C)  BY FlattenIs
  <1>5. Unskipped(FlattenSeq(files)) = AllOf(loop, FlattenSeq(files))
    BY <1>4, UnskippedIs
  <1>6. \A i \in 1..Len(files) : AllOf(loop, files[i]) \in S
    BY <1>1, <1>2, AllOfIs
  <1> HIDE DEF g, loop, S
  <1>7. each \in Seq(S) /\ EachOf(loop, files, each)
    BY <1>2, <1>3, <1>6 DEF EachOf
  <1>8. Nested(C, files) /\ Nested(C, each)  BY <1>7 DEF Nested, S
  <1> HIDE DEF each
  <1>9. AllOf(loop, FlattenSeq(files)) = FlattenSeq(each)
    BY <1>1, <1>7, <1>8, AddsEach
  <1> QED  BY <1>5, <1>9 DEF each

LEMMA FlattenOne ==
    ASSUME NEW S, NEW s \in Seq(S)
    PROVE  FlattenSeq(<<s>>) = s
  <1> DEFINE F == Seq(S)
             seqs == <<s>>
  <1>1. seqs \in Seq(F) /\ Len(seqs) = 0 + 1 /\ seqs[0 + 1] = s
    <2> HIDE DEF F
    <2>1. s \in F  BY DEF F
    <2> QED  BY <2>1
  <1> HIDE DEF seqs
  <1>2. FlattenSeq(seqs) = After(<<"Concat">>, <<>>, seqs, 0 + 1)
    BY <1>1, FlattenIs
  <1>3. /\ After(<<"Concat">>, <<>>, seqs, 0 + 1) =
              Turn(<<"Concat">>, After(<<"Concat">>, <<>>, seqs, 0), seqs[0 + 1])
        /\ After(<<"Concat">>, <<>>, seqs, 0) = <<>>  BY AfterNext, AfterNone
  <1>4. After(<<"Concat">>, <<>>, seqs, 0 + 1) = <<>> \o s
    BY <1>1, <1>3 DEF Turn
  <1>5. <<>> \o s = s  OBVIOUS
  <1> QED  BY <1>2, <1>4, <1>5 DEF seqs

LEMMA OneFile ==
    ASSUME NEW C, NEW file \in Seq(C), file # NoFile
    PROVE  /\ <<file>> \in Seq(Seq(C))
           /\ Opened(<<file>>) = <<file>> /\ ExitCode(<<file>>) = 0
  <1> DEFINE F == Seq(C)
             files == <<file>>
             missing == {i \in 1..1 : files[i] = NoFile}
  <1>1. files \in Seq(F)
    <2> HIDE DEF F
    <2>1. file \in F  BY DEF F
    <2> QED  BY <2>1
  <1>2. Len(files) = 1 /\ missing = {}  OBVIOUS
  <1> HIDE DEF missing
  <1>3. Opened(files) = files  BY <1>2 DEF Opened, missing
  <1> QED  BY <1>1, <1>3 DEF ExitCode

(* Whatever the files and their number, what wzip wrote ending with 0 is   *)
(* read back as one stream: each file as if it were alone, and files of    *)
(* short runs whole but for the skipped letters.                           *)
THEOREM ZippedIsReadBack == Spec => []UnzipReadsBack
  <1>1. ASSUME InputType, kind = "letters",
               NEW x \in Inputs["letters"] \ {NextFile, NoFile},
               WZip(Files, x).code = 0
        PROVE  LET back == WUnzip(WZip(Files, x).written)
               IN  /\ back = FlattenSeq([i \in DOMAIN Files |->
                                            WUnzip(WZip(<<Files[i]>>, Zero).written)])
                   /\ (\A i \in DOMAIN Files : ShortRuns(Files[i])) =>
                         back = Unskipped(FlattenSeq(Files))
    <2> DEFINE C == Inputs[kind] \union {Zero}
               files == Files
               n == Len(files)
               back == WUnzip(WZip(Files, x).written)
               read == [i \in 1..n |-> ReadBack(files[i])]
               coder(y) == [last |-> y, counter |-> 0, written |-> <<>>]
               zipped(fs, y) == WUnzip(FoldLeft(ZipFile, coder(y), fs).written)
    <2>1. input \in Seq(C)
      <3>1. input \in Seq(Inputs[kind]) /\ Inputs[kind] \subseteq C
        BY <1>1 DEF InputType
      <3> HIDE DEF C
      <3> QED  BY <3>1, WiderSeq
    <2>2. Zero \in C /\ x \in C  BY <1>1
    <2> HIDE DEF C
    <2>3. files \in Seq(Seq(C) \union {NoFile}) /\ files # <<>>
      BY <2>1, FilesAre
    <2>4. \A fs, y : fs # <<>> /\ ExitCode(fs) = 0 =>
                        WUnzip(WZip(fs, y).written) = zipped(fs, y)
      BY DEF WZip, ExitCode
    <2>5. ExitCode(files) = 0 /\ Opened(files) = files
      <3>1. ExitCode(files) = 0  BY <1>1, <2>3 DEF WZip
      <3> QED  BY <3>1 DEF ExitCode
    <2> HIDE DEF files
    <2>6. files \in Seq(Seq(C)) /\ \A i \in 1..n : files[i] # NoFile
      <3>1. Opened(files) \in Seq(Seq(C)) /\ \A i \in 1..Len(Opened(files)) : files[i] # NoFile
        BY <2>3, OpenedAre
      <3> QED  BY <2>5, <3>1
    <2> HIDE DEF zipped
    <2>7. \A fs \in Seq(Seq(C)) : \A y \in C :
             zipped(fs, y) = FlattenSeq([i \in 1..Len(fs) |-> ReadBack(fs[i])])
      BY <2>2, ZipsAre DEF zipped
    <2>8. back = FlattenSeq(read)
      BY <2>2, <2>3, <2>4, <2>5, <2>6, <2>7 DEF files
    <2>9. DOMAIN files = 1..n /\ \A i \in 1..n : files[i] \in Seq(C)  BY <2>6
    <2> HIDE DEF n
    <2>10. ASSUME NEW i \in 1..n
           PROVE  WUnzip(WZip(<<files[i]>>, Zero).written) = ReadBack(files[i])
      <3> DEFINE f == files[i]
                 r == ReadBack(f)
      <3>1. f \in Seq(C) /\ f # NoFile  BY <2>6, <2>9
      <3> HIDE DEF f
      <3>2. <<f>> \in Seq(Seq(C)) /\ <<f>> # <<>> /\ ExitCode(<<f>>) = 0
        BY <3>1, OneFile
      <3>3. WUnzip(WZip(<<f>>, Zero).written) = zipped(<<f>>, Zero)
        BY <2>4, <3>2
      <3>4. zipped(<<f>>, Zero) = FlattenSeq(<<r>>)
        <4>1. zipped(<<f>>, Zero) = FlattenSeq([j \in 1..Len(<<f>>) |-> ReadBack(<<f>>[j])])
          BY <2>2, <2>7, <3>2
        <4>2. [j \in 1..Len(<<f>>) |-> ReadBack(<<f>>[j])] = <<r>>  OBVIOUS
        <4> QED  BY <4>1, <4>2
      <3>5. FlattenSeq(<<r>>) = r
        <4>1. r \in Seq(C)  BY <3>1, PartsAre
        <4> HIDE DEF r
        <4> QED  BY <4>1, FlattenOne
      <3> QED  BY <3>3, <3>4, <3>5 DEF f
    <2> HIDE DEF back
    <2>11. ASSUME \A i \in 1..n : ShortRuns(files[i])
           PROVE  back = Unskipped(FlattenSeq(files))
      <3>1. \A i \in 1..n : ReadBack(files[i]) = Unskipped(files[i])
        BY <2>9, <2>11, ShortRunsComeBack
      <3>2. read = [i \in 1..n |-> Unskipped(files[i])]  BY <3>1
      <3>3. Unskipped(FlattenSeq(files)) = FlattenSeq([i \in 1..n |-> Unskipped(files[i])])
        BY <2>6, UnskippedFlatten DEF n
      <3> HIDE DEF read
      <3> QED  BY <2>8, <3>2, <3>3
    <2>12. read = [i \in 1..n |-> WUnzip(WZip(<<files[i]>>, Zero).written)]
      BY <2>10
    <2> HIDE DEF read
    <2> QED  BY <2>8, <2>9, <2>11, <2>12 DEF files, back
  <1>2. InputType => UnzipReadsBack  BY <1>1 DEF UnzipReadsBack
  <1> QED  BY <1>2, InputInvariance, PTL

----
(* The words of a typed command.                                           *)
(* The words of a piece, as the split of its text.                         *)
LEMMA WordsAre ==
    ASSUME NEW S, NEW piece \in Seq(S), CleanTrailingSpaces(piece) # <<>>
    PROVE  LET clean == CleanTrailingSpaces(piece)
               words == Words(piece)
           IN  /\ clean \in Seq(S) /\ Last(clean) # Space
               /\ words = Split(clean, Space, Len(clean))
               /\ IsSplit(S, Space, words)
               /\ Ends(Last(words), Last(clean))
               /\ Begins(words[1], clean[1])
  <1> DEFINE clean == CleanTrailingSpaces(piece)
  <1>1. clean \in Seq(S) /\ Last(clean) # Space /\ clean[1] # Space /\ clean # <<>>
    BY BlankIs
  <1>2. Words(piece) = GetLines(clean, Space)  BY DEF Words
  <1> HIDE DEF clean
  <1>3. /\ IsSplit(S, Space, GetLines(clean, Space))
        /\ Begins(GetLines(clean, Space)[1], clean[1])
        /\ GetLines(clean, Space) = Split(clean, Space, Len(clean))
        /\ Ends(Last(GetLines(clean, Space)), Last(clean))
    BY <1>1, GetLinesOfSome
  <1> QED  BY <1>1, <1>2, <1>3 DEF clean

(* One more character in a split.                                          *)
LEMMA SplitAppend ==
    ASSUME NEW C, NEW text \in Seq(C), NEW c \in C, NEW delim
    PROVE  Split(Append(text, c), delim, Len(Append(text, c))) =
              AddChar(delim, Split(text, delim, Len(text)), c)
  <1> DEFINE n == Len(text)
             a == Append(text, c)
  <1>1. /\ n \in Nat /\ Len(a) = n + 1 /\ a[n + 1] = c
        /\ \A i \in 1..n : a[i] = text[i]
    <2>1. n \in Nat  OBVIOUS
    <2> QED  BY <2>1, AppendIs
  <1> HIDE DEF n, a
  <1>2. Split(a, delim, n + 1) = AddChar(delim, Split(a, delim, n), a[n + 1])
    BY <1>1, SplitNext
  <1>3. Split(a, delim, n) = Split(text, delim, n)
    BY <1>1, AfterAgrees DEF Split
  <1> QED  BY <1>1, <1>2, <1>3 DEF n, a

LEMMA TypedWords ==
    ASSUME NEW piece \in Seq(Chars \ {"&"}), NEW tail \in {<<>>, Amp}, ~Blank(piece)
    PROVE  LET tokens == GetLines(TypedPiece(piece, tail), Space)
           IN  /\ Bare(tokens) = Words(piece)
               /\ Last(Last(tokens)) = "&" <=> tail = Amp
  <1> DEFINE S == Chars \ {"&"}
             clean == CleanTrailingSpaces(piece)
             words == Words(piece)
             command == TypedPiece(piece, tail)
             tokens == GetLines(command, Space)
             n == Len(clean)
  <1>1. /\ clean \in Seq(S) /\ clean # <<>> /\ command \in Seq(Chars) /\ command # <<>>
        /\ Last(clean) # Space /\ Last(command) # Space
        /\ tail = Amp => command = Append(clean, "&")
        /\ tail = <<>> => command = clean  BY TypedPieceIs DEF Begins
  <1>2. /\ words = Split(clean, Space, n) /\ IsSplit(S, Space, words)
        /\ Ends(Last(words), Last(clean))  BY <1>1, WordsAre
  <1>3. /\ tokens = Split(command, Space, Len(command))
        /\ IsSplit(Chars, Space, tokens)
        /\ Ends(Last(tokens), Last(command))  BY <1>1, GetLinesOfSome
  <1>4. "&" \in Chars /\ "&" \notin S  BY DEF Chars
  <1>5. clean \in Seq(Chars)
    <2>1. S \subseteq Chars  OBVIOUS
    <2> HIDE DEF clean, S
    <2> QED  BY <1>1, <2>1, WiderSeq
  <1>6. Last(clean) \in S  BY <1>1, FrontIs
  <1> DEFINE W == Seq(Chars)
  <1>7. words \in Seq(W) /\ words # <<>> /\ Last(words) \in W /\ Front(words) \in Seq(W)
    <2>1. words \in Seq(Seq(S \ {Space})) /\ words # <<>>  BY <1>2 DEF IsSplit
    <2>2. Seq(S \ {Space}) \subseteq W  BY WiderSeq
    <2> HIDE DEF words, W, S
    <2>3. words \in Seq(W)  BY <2>1, <2>2, WiderSeq
    <2> QED  BY <2>1, <2>3, FrontIs
  <1> HIDE DEF S, clean, command, words, n, tokens
  <1>8. CASE tail = <<>>
    <2>1. tokens = words  BY <1>1, <1>2, <1>3, <1>8 DEF n
    <2>2. Last(Last(tokens)) = Last(clean)  BY <1>2, <2>1 DEF Ends
    <2>3. Last(clean) # "&"  BY <1>4, <1>6
    <2>4. tail # Amp  BY <1>8, AmpIs
    <2> QED  BY <2>1, <2>2, <2>3, <2>4 DEF Bare, words, tokens, command
  <1>9. CASE tail = Amp
    <2> DEFINE l == Last(words)
               f == Front(words)
               a == Append(l, "&")
    <2>1. command = Append(clean, "&")  BY <1>1, <1>9
    <2>2. tokens = AddChar(Space, words, "&")
      <3>1. Split(Append(clean, "&"), Space, Len(Append(clean, "&"))) =
               AddChar(Space, Split(clean, Space, Len(clean)), "&")
        BY <1>4, <1>5, SplitAppend
      <3> QED  BY <1>2, <1>3, <2>1, <3>1 DEF n
    <2>3. tokens = Append(f, a)  BY <2>2, SpaceIsNoAmp DEF AddChar
    <2>4. l \in Seq(Chars) /\ f \in Seq(W) /\ Append(f, l) = words
      BY <1>7, FrontLast
    <2> HIDE DEF l, f
    <2>5. a \in W /\ Front(a) = l /\ Last(a) = "&"  BY <1>4, <2>4, FrontLast
    <2> HIDE DEF a, W
    <2>6. Front(tokens) = f /\ Last(tokens) = a  BY <2>3, <2>4, <2>5, FrontLast
    <2>7. Bare(tokens) = Append(f, l)  BY <2>5, <2>6 DEF Bare
    <2> QED  BY <1>9, <2>4, <2>5, <2>6, <2>7 DEF words, tokens, command
  <1> QED  BY <1>8, <1>9

----
(* Sequences cut and put together.                                         *)
LEMMA ConcatAdds ==
    ASSUME NEW S
    PROVE  Adds(<<"Concat">>, Seq(S), S, [x \in Seq(S) |-> x])
  BY DEF Adds, Turn

LEMMA FlattenBoth ==
    ASSUME NEW S, NEW s \in Seq(Seq(S)), NEW t \in Seq(Seq(S))
    PROVE  /\ FlattenSeq(s \o t) = FlattenSeq(s) \o FlattenSeq(t)
           /\ FlattenSeq(s) \in Seq(S) /\ FlattenSeq(t) \in Seq(S)
  <1> DEFINE R == Seq(S)
             g == [x \in R |-> x]
             loop == <<"Concat">>
  <1>1. \A u \in Seq(R) : FlattenSeq(u) = AllOf(loop, u) /\ FlattenSeq(u) \in R
    BY FlattenIs DEF AllOf
  <1>2. Adds(loop, R, S, g)  BY ConcatAdds
  <1> HIDE DEF R, g, loop
  <1>3. s \in Seq(R) /\ t \in Seq(R)  BY DEF R
  <1>4. s \o t \in Seq(R)  BY <1>3, ConcatProperties
  <1>5. AllOf(loop, s \o t) = AllOf(loop, s) \o AllOf(loop, t)
    BY <1>2, <1>3, AddsBoth
  <1> QED  BY <1>1, <1>3, <1>4, <1>5 DEF R

LEMMA FlattenPair ==
    ASSUME NEW S, NEW x \in Seq(S), NEW y \in Seq(S)
    PROVE  FlattenSeq(<<x>>) = x /\ FlattenSeq(<<x, y>>) = x \o y
  <1> DEFINE R == Seq(S)
             now(seq, n) == After(<<"Concat">>, <<>>, seq, n)
  <1>1. \A u \in Seq(R) : FlattenSeq(u) = now(u, Len(u))  BY FlattenIs
  <1>2. <<x>> \in Seq(R) /\ Len(<<x>>) = 1 /\ <<x, y>> \in Seq(R) /\ Len(<<x, y>>) = 2
    OBVIOUS
  <1>3. ASSUME NEW u, NEW n \in Nat PROVE now(u, n + 1) = now(u, n) \o u[n + 1]
    <2>1. now(u, n + 1) = Turn(<<"Concat">>, now(u, n), u[n + 1])  BY AfterNext
    <2> HIDE DEF now
    <2> QED  BY <2>1 DEF Turn
  <1>4. \A u : now(u, 0) = <<>>  BY AfterNone
  <1> HIDE DEF now, R
  <1>5. <<>> \o x = x  BY ConcatEmptySeq
  <1>6. \A u : now(u, 1) = <<>> \o u[1] /\ now(u, 2) = now(u, 1) \o u[2]
    <2> TAKE u
    <2>1. now(u, 0 + 1) = now(u, 0) \o u[0 + 1]  BY <1>3
    <2>2. now(u, 1 + 1) = now(u, 1) \o u[1 + 1]  BY <1>3
    <2>3. 0 + 1 = 1 /\ 1 + 1 = 2  OBVIOUS
    <2> QED  BY <1>4, <2>1, <2>2, <2>3
  <1>7. now(<<x>>, 1) = x
    <2>1. now(<<x>>, 1) = <<>> \o <<x>>[1]  BY <1>6
    <2> QED  BY <1>5, <2>1
  <1>8. now(<<x, y>>, 2) = x \o y
    <2>1. /\ now(<<x, y>>, 1) = <<>> \o <<x, y>>[1]
          /\ now(<<x, y>>, 2) = now(<<x, y>>, 1) \o <<x, y>>[2]  BY <1>6
    <2> QED  BY <1>5, <2>1
  <1>9. FlattenSeq(<<x>>) = now(<<x>>, 1) /\ FlattenSeq(<<x, y>>) = now(<<x, y>>, 2)
    BY <1>1, <1>2
  <1> QED  BY <1>7, <1>8, <1>9

LEMMA Cut ==
    ASSUME NEW S, NEW s \in Seq(S), NEW k \in 0..Len(s)
    PROVE  IsCut(S, s, k, SubSeq(s, 1, k), SubSeq(s, k + 1, Len(s)))
  <1> DEFINE n == Len(s)
             a == SubSeq(s, 1, k)
             b == SubSeq(s, k + 1, n)
             t == a \o b
  <1>1. n \in Nat /\ k \in Nat /\ k <= n  OBVIOUS
  <1>2. /\ a \in Seq(S) /\ Len(a) = k
        /\ \A i \in 1..k : a[i] = s[i]
    <2>1. /\ a \in Seq(S) /\ Len(a) = IF 1 <= k THEN k - 1 + 1 ELSE 0
          /\ \A i \in 1..(k - 1 + 1) : a[i] = s[1 + i - 1]  BY <1>1, SubSeqIs
    <2> HIDE DEF a, n
    <2>2. k - 1 + 1 = k /\ (1 <= k \/ k = 0) /\ \A i \in 1..k : 1 + i - 1 = i
      BY <1>1
    <2> QED  BY <2>1, <2>2
  <1>3. /\ b \in Seq(S) /\ Len(b) = n - k
        /\ \A i \in 1..(n - k) : b[i] = s[k + i]
    <2> DEFINE h == k + 1
    <2>0. h \in Nat /\ h >= 1 /\ n <= Len(s)  BY <1>1
    <2> HIDE DEF h
    <2>1. /\ SubSeq(s, h, n) \in Seq(S)
          /\ Len(SubSeq(s, h, n)) = IF h <= n THEN n - h + 1 ELSE 0
          /\ \A i \in 1..(n - h + 1) : SubSeq(s, h, n)[i] = s[h + i - 1]
      BY <1>1, <2>0, SubSeqIs
    <2>2. b = SubSeq(s, h, n)  BY DEF h
    <2> HIDE DEF b, n
    <2>3. /\ n - h + 1 = n - k /\ (h <= n \/ n - k = 0)
          /\ \A i \in 1..(n - k) : h + i - 1 = k + i  BY <1>1 DEF h
    <2> QED  BY <2>1, <2>2, <2>3
  <1> HIDE DEF a, b
  <1>4. /\ t \in Seq(S) /\ Len(t) = Len(a) + Len(b)
        /\ \A i \in 1..(Len(a) + Len(b)) :
              t[i] = IF i <= Len(a) THEN a[i] ELSE b[i - Len(a)]
    BY <1>2, <1>3, ConcatProperties
  <1> HIDE DEF t
  <1>5. /\ Len(t) = n
        /\ \A i \in 1..n : t[i] = IF i <= k THEN a[i] ELSE b[i - k]
    <2>1. Len(a) + Len(b) = n
      <3> HIDE DEF n
      <3> QED  BY <1>1, <1>2, <1>3
    <2> QED  BY <1>2, <1>4, <2>1
  <1>6. \A i \in 1..n : t[i] = s[i]
    <2> TAKE i \in 1..n
    <2> HIDE DEF n
    <2>1. CASE i <= k
      <3>1. i \in 1..k  BY <2>1
      <3> QED  BY <1>2, <1>5, <2>1, <3>1
    <2>2. CASE ~(i <= k)
      <3>1. i - k \in 1..(n - k) /\ k + (i - k) = i  BY <1>1, <2>2
      <3> QED  BY <1>3, <1>5, <2>2, <3>1
    <2> QED  BY <2>1, <2>2
  <1>7. t = s  BY <1>4, <1>5, <1>6
  <1>8. IsCut(S, s, k, a, b)  BY <1>2, <1>3, <1>7 DEF IsCut, t, n
  <1> QED  BY <1>8 DEF a, b, n

LEMMA CutPair ==
    ASSUME NEW S, NEW s \in Seq(S), NEW p \in 1..(Len(s) - 1)
    PROVE  CutsPair(S, s, p)
  <1> DEFINE n == Len(s)
             h == SubSeq(s, 1, p + 1)
             c == SubSeq(s, (p + 1) + 1, n)
  <1>1. n \in Nat  OBVIOUS
  <1>2. p \in Nat /\ p >= 1 /\ p + 1 \in 0..n /\ p + 1 \in Nat
    <2>1. p \in 1..(n - 1)  OBVIOUS
    <2> HIDE DEF n
    <2> QED  BY <1>1, <2>1
  <1>3. /\ h \in Seq(S) /\ c \in Seq(S) /\ s = h \o c
        /\ Len(h) = p + 1 /\ Len(c) = n - (p + 1)
        /\ \A i \in 1..(p + 1) : h[i] = s[i]
        /\ \A i \in 1..(n - (p + 1)) : c[i] = s[(p + 1) + i]
    BY <1>2, Cut DEF IsCut
  <1> HIDE DEF h, c
  <1> DEFINE a == SubSeq(h, 1, p - 1)
             b == SubSeq(h, (p - 1) + 1, Len(h))
  <1>4. /\ a \in Seq(S) /\ b \in Seq(S) /\ h = a \o b
        /\ Len(a) = p - 1 /\ Len(b) = Len(h) - (p - 1)
        /\ \A i \in 1..(p - 1) : a[i] = h[i]
        /\ \A i \in 1..(Len(h) - (p - 1)) : b[i] = h[(p - 1) + i]
    <2>1. p - 1 \in 0..Len(h)  BY <1>2, <1>3
    <2> QED  BY <1>3, <2>1, Cut DEF IsCut
  <1> HIDE DEF a, b
  <1>5. Len(h) - (p - 1) = 2 /\ (p - 1) + 1 = p /\ (p - 1) + 2 = p + 1
    BY <1>2, <1>3
  <1>6. Len(b) = 2 /\ b[1] = s[p] /\ b[2] = s[p + 1]
    <2>1. Len(b) = 2 /\ \A i \in 1..2 : b[i] = h[(p - 1) + i]  BY <1>4, <1>5
    <2>3. b[1] = h[(p - 1) + 1] /\ b[2] = h[(p - 1) + 2]  BY <2>1
    <2>2. p \in 1..(p + 1) /\ p + 1 \in 1..(p + 1)  BY <1>2
    <2> QED  BY <1>3, <1>5, <2>1, <2>2, <2>3
  <1>7. b = <<s[p], s[p + 1]>>
    <2> DEFINE x == s[p]
               y == s[p + 1]
    <2>1. b \in Seq(S) /\ Len(b) = 2 /\ b[1] = x /\ b[2] = y  BY <1>4, <1>6
    <2> HIDE DEF x, y
    <2> QED  BY <2>1 DEF x, y
  <1>8. s = (a \o <<s[p], s[p + 1]>>) \o c  BY <1>3, <1>4, <1>7
  <1>9. \A i \in 1..(p - 1) : a[i] = s[i]
    <2>1. \A i \in 1..(p - 1) : i \in 1..(p + 1)  BY <1>2
    <2> QED  BY <1>3, <1>4, <2>1
  <1>10. n - (p + 1) = n - p - 1
    <2> HIDE DEF n
    <2> QED  BY <1>1, <1>2
  <1>11. /\ Len(c) = n - p - 1
         /\ \A i \in 1..(n - p - 1) : c[i] = s[p + 1 + i]  BY <1>3, <1>10
  <1> QED  BY <1>3, <1>4, <1>8, <1>9, <1>11 DEF CutsPair

LEMMA OthersAre ==
    ASSUME NEW R, NEW words \in Seq(R), NEW T, NEW W,
           \A i \in 1..Len(words) : i \in T \/ words[i] \in W
    PROVE  /\ Others(words, T) = FlattenSeq(Shown(words, T))
           /\ Shown(words, T) \in Seq(Seq(W)) /\ Len(Shown(words, T)) = Len(words)
           /\ Others(words, T) \in Seq(W)
  <1> DEFINE n == Len(words)
             s == Shown(words, T)
             V == Seq(W)
  <1>1. n \in Nat  OBVIOUS
  <1>2. \A i \in 1..n : s[i] \in V
    <2> TAKE i \in 1..n
    <2>1. s[i] = IF i \in T THEN <<>> ELSE <<words[i]>>  BY DEF Shown
    <2>2. words[i] \in W => <<words[i]>> \in Seq(W)  OBVIOUS
    <2>3. <<>> \in Seq(W)  OBVIOUS
    <2> QED  BY <2>1, <2>2, <2>3
  <1>3. s = [i \in 1..n |-> s[i]]  BY DEF Shown
  <1>4. s \in Seq(V) /\ Len(s) = n
    <2>1. s \in [1..n -> V]
      <3> HIDE DEF s, n, V
      <3> QED  BY <1>2, <1>3
    <2> HIDE DEF s, n, V
    <2> QED  BY <1>1, <2>1
  <1>5. Others(words, T) = FlattenSeq(s)  BY DEF Others, Shown
  <1>6. FlattenSeq(s) \in Seq(W)  BY <1>4, FlattenIs
  <1> QED  BY <1>4, <1>5, <1>6

LEMMA EqualSeqs ==
    ASSUME NEW S, NEW s \in Seq(S), NEW t \in Seq(S), Len(s) = Len(t),
           \A i \in 1..Len(s) : s[i] = t[i]
    PROVE  s = t
  OBVIOUS

LEMMA PairOf ==
    ASSUME NEW S, NEW x \in S, NEW y \in S
    PROVE  <<x>> \o <<y>> = <<x, y>>
  <1> DEFINE a == <<x>>
             b == <<y>>
             s == a \o b
             t == <<x, y>>
  <1>1. /\ a \in Seq(S) /\ Len(a) = 1 /\ a[1] = x
        /\ b \in Seq(S) /\ Len(b) = 1 /\ b[1] = y
        /\ t \in Seq(S) /\ Len(t) = 2 /\ t[1] = x /\ t[2] = y  OBVIOUS
  <1> HIDE DEF a, b, t
  <1>2. /\ s \in Seq(S) /\ Len(s) = Len(a) + Len(b)
        /\ \A i \in 1..(Len(a) + Len(b)) :
              s[i] = IF i <= Len(a) THEN a[i] ELSE b[i - Len(a)]
    BY <1>1, ConcatProperties
  <1> HIDE DEF s
  <1>3. Len(s) = 2 /\ \A i \in 1..2 : s[i] = IF i <= 1 THEN a[i] ELSE b[i - 1]
    BY <1>1, <1>2
  <1>4. s[1] = x /\ s[2] = y  BY <1>1, <1>3
  <1>5. \A i \in 1..2 : s[i] = t[i]
    <2>1. \A i \in 1..2 : i = 1 \/ i = 2  OBVIOUS
    <2> QED  BY <1>1, <1>4, <2>1
  <1>6. s = t  BY <1>1, <1>2, <1>3, <1>5, EqualSeqs
  <1> QED  BY <1>6 DEF s, t, a, b

LEMMA TakePair ==
    ASSUME NEW R, NEW words \in Seq(R), NEW T, NEW W,
           NEW p \in 1..(Len(words) - 1), p \notin T, p + 1 \notin T,
           \A i \in 1..Len(words) : i = p \/ i \in T \/ words[i] \in W
    PROVE  TakesPair(words, T, W, p)
  <1> DEFINE n == Len(words)
             U == T \union {p, p + 1}
             s == Shown(words, T)
             u == Shown(words, U)
             V == Seq(R)
             x == words[p]
             y == words[p + 1]
             e == <<>>
  <1>1. n \in Nat  OBVIOUS
  <1>2. p \in Nat /\ p >= 1 /\ p \in 1..n /\ p + 1 \in 1..n
    <2>1. p \in 1..(n - 1)  OBVIOUS
    <2> HIDE DEF n
    <2> QED  BY <1>1, <2>1
  <1>3. \A i \in 1..n : words[i] \in R  OBVIOUS
  <1>4. /\ Others(words, T) = FlattenSeq(s) /\ s \in Seq(V) /\ Len(s) = n
        /\ Others(words, U) = FlattenSeq(u) /\ u \in Seq(V) /\ Len(u) = n
    <2>1. \A Z : \A i \in 1..Len(words) : i \in Z \/ words[i] \in R  BY <1>3
    <2> HIDE DEF U
    <2>2. Others(words, T) = FlattenSeq(s) /\ s \in Seq(V) /\ Len(s) = n
      BY <2>1, OthersAre
    <2>3. Others(words, U) = FlattenSeq(u) /\ u \in Seq(V) /\ Len(u) = n
      BY <2>1, OthersAre
    <2> QED  BY <2>2, <2>3
  <1>5. \A i \in 1..n : /\ s[i] = IF i \in T THEN e ELSE <<words[i]>>
                        /\ u[i] = IF i \in U THEN e ELSE <<words[i]>>
    BY DEF Shown
  <1>6. s[p] = <<x>> /\ s[p + 1] = <<y>> /\ u[p] = e /\ u[p + 1] = e
    BY <1>2, <1>5
  <1>7. \A i \in 1..n : i \in 1..(p - 1) \/ i >= p + 2 => u[i] = s[i]
    <2>1. \A i \in 1..n : (i \in 1..(p - 1) \/ i >= p + 2) => (i \in T <=> i \in U)
      BY <1>2
    <2> HIDE DEF U, e, s, u, n
    <2> QED  BY <1>5, <2>1
  <1>8. x \in R /\ y \in R  BY <1>2, <1>3
  <1> HIDE DEF s, u, x, y, U, V, n
  <1>9. PICK a, c \in Seq(V) :
              /\ s = (a \o <<s[p], s[p + 1]>>) \o c
              /\ Len(a) = p - 1 /\ Len(c) = n - p - 1
              /\ \A i \in 1..(p - 1) : a[i] = s[i]
              /\ \A i \in 1..(n - p - 1) : c[i] = s[p + 1 + i]
    <2>1. Len(s) = n  BY <1>4, Zenon
    <2>2. p \in 1..(Len(s) - 1)  BY <2>1 DEF n
    <2>3. CutsPair(V, s, p)  BY <1>4, <2>2, CutPair
    <2> QED  BY <2>1, <2>3 DEF CutsPair
  <1>10. PICK b, d \in Seq(V) :
              /\ u = (b \o <<u[p], u[p + 1]>>) \o d
              /\ Len(b) = p - 1 /\ Len(d) = n - p - 1
              /\ \A i \in 1..(p - 1) : b[i] = u[i]
              /\ \A i \in 1..(n - p - 1) : d[i] = u[p + 1 + i]
    <2>1. Len(u) = n  BY <1>4, Zenon
    <2>2. p \in 1..(Len(u) - 1)  BY <2>1 DEF n
    <2>3. CutsPair(V, u, p)  BY <1>4, <2>2, CutPair
    <2> QED  BY <2>1, <2>3 DEF CutsPair
  <1> HIDE DEF e
  <1>11. /\ \A i \in 1..(p - 1) : i \in 1..n /\ i # p
         /\ \A i \in 1..(n - p - 1) : p + 1 + i \in 1..n /\ p + 1 + i >= p + 2 /\ p + 1 + i # p
    BY <1>1, <1>2
  <1>12. \A i \in 1..n : i # p => i \in T \/ words[i] \in W  BY DEF n
  <1>13. a \in Seq(Seq(W)) /\ c \in Seq(Seq(W))
    <2>1. \A i \in 1..n : i # p => s[i] \in Seq(W)
      <3> TAKE i \in 1..n
      <3>1. words[i] \in W => <<words[i]>> \in Seq(W)  OBVIOUS
      <3>2. e \in Seq(W)  BY DEF e
      <3> QED  BY <1>5, <1>12, <3>1, <3>2
    <2> DEFINE X == Seq(W)
    <2> HIDE DEF X
    <2>2. \A i \in 1..(p - 1) : a[i] \in X  BY <1>9, <1>11, <2>1 DEF X
    <2>3. \A i \in 1..(n - p - 1) : c[i] \in X  BY <1>9, <1>11, <2>1 DEF X
    <2>4. a \in Seq(X)  BY <1>9, <2>2
    <2>5. c \in Seq(X)  BY <1>9, <2>3
    <2> QED  BY <2>4, <2>5 DEF X
  <1>14. b = a /\ d = c
    <2>1. \A i \in 1..(p - 1) : b[i] = a[i]  BY <1>7, <1>9, <1>10, <1>11
    <2>2. \A i \in 1..(n - p - 1) : d[i] = c[i]  BY <1>7, <1>9, <1>10, <1>11
    <2>3. b = a  BY <1>9, <1>10, <2>1, EqualSeqs
    <2>4. d = c  BY <1>9, <1>10, <2>2, EqualSeqs
    <2> QED  BY <2>3, <2>4
  <1> DEFINE A == FlattenSeq(a)
             C == FlattenSeq(c)
  <1>15. A \in Seq(W) /\ C \in Seq(W)  BY <1>13, FlattenIs
  <1>16. ASSUME NEW v \in Seq(R), NEW w \in Seq(R)
         PROVE  FlattenSeq((a \o <<v, w>>) \o c) = (A \o (v \o w)) \o C
    <2> DEFINE m == <<v, w>>
    <2>1. m \in Seq(V)  BY DEF V
    <2>2. FlattenSeq(m) = v \o w  BY FlattenPair
    <2> HIDE DEF m
    <2>3. a \o m \in Seq(V)  BY <1>9, <2>1, ConcatProperties
    <2>4. FlattenSeq(a \o m) = FlattenSeq(a) \o FlattenSeq(m)
      BY <1>9, <2>1, FlattenBoth DEF V
    <2>5. FlattenSeq((a \o m) \o c) = FlattenSeq(a \o m) \o FlattenSeq(c)
      BY <1>9, <2>3, FlattenBoth DEF V
    <2> QED  BY <2>2, <2>4, <2>5 DEF m
  <1> HIDE DEF A, C
  <1>17. Others(words, T) = (A \o <<x, y>>) \o C
    <2>4. <<x>> \in Seq(R) /\ <<y>> \in Seq(R)  BY <1>8
    <2>1. <<x>> \in Seq(R) /\ <<y>> \in Seq(R) /\ <<x>> \o <<y>> = <<x, y>>
      BY <1>8, <2>4, PairOf
    <2>2. FlattenSeq((a \o <<<<x>>, <<y>>>>) \o c) = (A \o (<<x>> \o <<y>>)) \o C
      BY <1>16, <2>1
    <2>3. s = (a \o <<<<x>>, <<y>>>>) \o c  BY <1>6, <1>9
    <2> QED  BY <1>4, <2>1, <2>2, <2>3
  <1>18. Others(words, U) = A \o C
    <2>1. e \in Seq(R) /\ e \o e = e /\ A \o e = A
      BY <1>15, ConcatEmptySeq DEF e
    <2>2. FlattenSeq((a \o <<e, e>>) \o c) = (A \o (e \o e)) \o C
      BY <1>16, <2>1
    <2>3. u = (a \o <<e, e>>) \o c  BY <1>6, <1>10, <1>14
    <2> QED  BY <1>4, <2>1, <2>2, <2>3
  <1> QED  BY <1>15, <1>17, <1>18 DEF TakesPair, x, y, U

(* The last word, when it stays.                                           *)
LEMMA TakeLast ==
    ASSUME NEW R, NEW words \in Seq(R), NEW T, NEW W, Len(words) >= 1,
           Len(words) \notin T,
           \A i \in 1..(Len(words) - 1) : i \in T \/ words[i] \in W
    PROVE  \E a \in Seq(W) : Others(words, T) = a \o <<words[Len(words)]>>
  <1> DEFINE n == Len(words)
             s == Shown(words, T)
             V == Seq(R)
             a == SubSeq(s, 1, n - 1)
             b == SubSeq(s, (n - 1) + 1, n)
             z == words[n]
  <1>1. n \in Nat /\ n >= 1 /\ \A i \in 1..n : words[i] \in R  OBVIOUS
  <1>2. n \in 1..n /\ n - 1 \in 0..n /\ n - (n - 1) = 1 /\ (n - 1) + 1 = n
    <2> HIDE DEF n
    <2> QED  BY <1>1
  <1>3. Others(words, T) = FlattenSeq(s) /\ s \in Seq(V) /\ Len(s) = n
    <2>1. \A i \in 1..Len(words) : i \in T \/ words[i] \in R  BY <1>1
    <2> QED  BY <2>1, OthersAre
  <1>4. \A i \in 1..n : s[i] = IF i \in T THEN <<>> ELSE <<words[i]>>
    BY DEF Shown
  <1>5. s[n] = <<z>> /\ z \in R  BY <1>1, <1>2, <1>4
  <1>6. \A i \in 1..(n - 1) : s[i] \in Seq(W)
    <2> TAKE i \in 1..(n - 1)
    <2>1. i \in 1..n
      <3> HIDE DEF n
      <3> QED  BY <1>1
    <2>2. words[i] \in W => <<words[i]>> \in Seq(W)  OBVIOUS
    <2>3. <<>> \in Seq(W)  OBVIOUS
    <2>4. i \in T \/ words[i] \in W  OBVIOUS
    <2> QED  BY <1>4, <2>1, <2>2, <2>3, <2>4
  <1> HIDE DEF s, z, n, V
  <1>7. /\ a \in Seq(V) /\ b \in Seq(V) /\ s = a \o b
        /\ Len(a) = n - 1 /\ Len(b) = 1
        /\ \A i \in 1..(n - 1) : a[i] = s[i]
        /\ \A i \in 1..1 : b[i] = s[(n - 1) + i]
    <2>1. n - 1 \in 0..Len(s)  BY <1>2, <1>3
    <2>2. IsCut(V, s, n - 1, SubSeq(s, 1, n - 1), SubSeq(s, (n - 1) + 1, Len(s)))
      BY <1>3, <2>1, Cut
    <2>3. IsCut(V, s, n - 1, a, b)  BY <1>3, <2>2
    <2> HIDE DEF a, b
    <2> QED  BY <1>2, <1>3, <2>3 DEF IsCut
  <1> HIDE DEF a, b
  <1>8. b = <<<<z>>>>
    <2>0. 1 \in 1..1  OBVIOUS
    <2>1. b[1] = s[(n - 1) + 1]  BY <1>7, <2>0, Zenon
    <2>2. b[1] = <<z>>  BY <1>2, <1>5, <2>1
    <2> QED  BY <1>7, <2>2
  <1>9. FlattenSeq(s) = FlattenSeq(a) \o <<z>>
    <2>1. FlattenSeq(a \o b) = FlattenSeq(a) \o FlattenSeq(b)
      BY <1>7, FlattenBoth DEF V
    <2>2. <<z>> \in Seq(R)  BY <1>5
    <2>3. FlattenSeq(<<<<z>>>>) = <<z>>  BY <2>2, FlattenPair
    <2> QED  BY <1>7, <1>8, <2>1, <2>3
  <1>10. FlattenSeq(a) \in Seq(W)
    <2> DEFINE X == Seq(W)
    <2> HIDE DEF X
    <2>1. \A i \in 1..(n - 1) : a[i] \in X  BY <1>6, <1>7 DEF X
    <2>2. a \in Seq(X)  BY <1>7, <2>1
    <2> QED  BY <2>2, FlattenIs DEF X
  <1> QED  BY <1>3, <1>9, <1>10 DEF z, n

LEMMA OnlyPair ==
    ASSUME NEW W, NEW a \in Seq(W), NEW c \in Seq(W), NEW x, NEW y \in W, x \notin W,
           NEW Z, W \subseteq Z
    PROVE  FoundPair(Z, (a \o <<x, y>>) \o c, Len(a) + 1, x, y, a \o c)
  <1> DEFINE S == W \union {x}
             b == <<x, y>>
             h == a \o b
             t == h \o c
             r == a \o c
             l == Len(a)
             m == Len(c)
             k == l + 1
  <1>1. l \in Nat /\ m \in Nat  OBVIOUS
  <1>2. a \in Seq(S) /\ c \in Seq(S) /\ b \in Seq(S) /\ Len(b) = 2 /\ b[1] = x /\ b[2] = y
    <2>1. W \subseteq S /\ x \in S /\ y \in S  OBVIOUS
    <2> HIDE DEF S
    <2> QED  BY <2>1, WiderSeq
  <1> HIDE DEF S, b
  <1>3. /\ h \in Seq(S) /\ Len(h) = l + 2
        /\ \A i \in 1..(l + 2) : h[i] = IF i <= l THEN a[i] ELSE b[i - l]
    <2>1. /\ h \in Seq(S) /\ Len(h) = Len(a) + Len(b)
          /\ \A i \in 1..(Len(a) + Len(b)) :
                h[i] = IF i <= Len(a) THEN a[i] ELSE b[i - Len(a)]
      BY <1>2, ConcatProperties
    <2> HIDE DEF h
    <2> QED  BY <1>2, <2>1
  <1> HIDE DEF h
  <1>4. /\ t \in Seq(S) /\ Len(t) = (l + 2) + m
        /\ \A i \in 1..((l + 2) + m) : t[i] = IF i <= l + 2 THEN h[i] ELSE c[i - (l + 2)]
    <2>1. /\ t \in Seq(S) /\ Len(t) = Len(h) + Len(c)
          /\ \A i \in 1..(Len(h) + Len(c)) :
                t[i] = IF i <= Len(h) THEN h[i] ELSE c[i - Len(h)]
      BY <1>2, <1>3, ConcatProperties
    <2> HIDE DEF t
    <2> QED  BY <1>3, <2>1
  <1>5. /\ r \in Seq(W) /\ Len(r) = l + m
        /\ \A i \in 1..(l + m) : r[i] = IF i <= l THEN a[i] ELSE c[i - l]
    BY ConcatProperties
  <1>6. \A i \in 1..l : a[i] \in W  OBVIOUS
  <1>7. \A i \in 1..m : c[i] \in W  OBVIOUS
  <1> HIDE DEF t, r, l, m
  <1>8. /\ \A i \in 1..l : t[i] = a[i]
        /\ t[l + 1] = x /\ t[l + 2] = y
        /\ \A i \in 1..m : t[l + 2 + i] = c[i]
    <2>1. ASSUME NEW i \in 1..l PROVE t[i] = a[i]
      <3>1. i \in 1..((l + 2) + m) /\ i <= l + 2 /\ i \in 1..(l + 2) /\ i <= l
        BY <1>1
      <3> QED  BY <1>3, <1>4, <3>1
    <2>2. t[l + 1] = b[1]
      <3>1. l + 1 \in 1..((l + 2) + m) /\ l + 1 <= l + 2 /\ l + 1 \in 1..(l + 2)
            /\ ~(l + 1 <= l) /\ (l + 1) - l = 1  BY <1>1
      <3> QED  BY <1>3, <1>4, <3>1
    <2>3. t[l + 2] = b[2]
      <3>1. l + 2 \in 1..((l + 2) + m) /\ l + 2 <= l + 2 /\ l + 2 \in 1..(l + 2)
            /\ ~(l + 2 <= l) /\ (l + 2) - l = 2  BY <1>1
      <3> QED  BY <1>3, <1>4, <3>1
    <2>4. ASSUME NEW i \in 1..m PROVE t[l + 2 + i] = c[i]
      <3>1. l + 2 + i \in 1..((l + 2) + m) /\ ~(l + 2 + i <= l + 2)
            /\ (l + 2 + i) - (l + 2) = i  BY <1>1
      <3> QED  BY <1>4, <3>1
    <2> QED  BY <1>2, <2>1, <2>2, <2>3, <2>4
  <1>9. k \in Nat /\ k < Len(t) /\ k + 1 = l + 2  BY <1>1, <1>4
  <1>10. At(t, x) = {k}
    <2>1. \A i \in 1..Len(t) : \/ i \in 1..l \/ i = k \/ i = l + 2
                               \/ \E j \in 1..m : i = l + 2 + j
      <3> TAKE i \in 1..Len(t)
      <3>1. CASE i > l + 2
        <4>1. i - (l + 2) \in 1..m /\ i = l + 2 + (i - (l + 2))
          BY <1>1, <1>4, <3>1
        <4> QED  BY <4>1
      <3>2. CASE ~(i > l + 2)  BY <1>1, <1>4, <3>2
      <3> QED  BY <3>1, <3>2
    <2>2. ASSUME NEW i \in 1..Len(t), t[i] = x PROVE i = k
      <3>1. i \in 1..l => t[i] \in W  BY <1>6, <1>8
      <3>2. i = l + 2 => t[i] \in W  BY <1>8
      <3>3. (\E j \in 1..m : i = l + 2 + j) => t[i] \in W  BY <1>7, <1>8
      <3> QED  BY <2>1, <2>2, <3>1, <3>2, <3>3
    <2>3. k \in 1..Len(t) /\ t[k] = x  BY <1>1, <1>4, <1>8
    <2> QED  BY <2>2, <2>3 DEF At
  <1>11. ASSUME NEW q \in Seq(Z), Without(t, k, q) PROVE q = r
    <2>1. /\ Len(q) = Len(t) - 2
          /\ \A i \in 1..(k - 1) : q[i] = t[i]
          /\ \A i \in k..(Len(t) - 2) : q[i] = t[i + 2]  BY <1>11 DEF Without
    <2>2. k - 1 = l /\ Len(t) - 2 = l + m  BY <1>1, <1>4
    <2>3. ASSUME NEW i \in 1..(l + m) PROVE q[i] = r[i]
      <3>1. CASE i <= l
        <4>1. i \in 1..l  BY <3>1
        <4> QED  BY <1>5, <1>8, <2>1, <2>2, <3>1, <4>1
      <3>2. CASE ~(i <= l)
        <4>1. i \in k..(l + m) /\ i - l \in 1..m /\ l + 2 + (i - l) = i + 2
          BY <1>1, <3>2
        <4>2. q[i] = t[i + 2]  BY <2>1, <2>2, <4>1
        <4>3. t[i + 2] = c[i - l]  BY <1>8, <4>1
        <4> QED  BY <1>5, <3>2, <4>2, <4>3
      <3> QED  BY <3>1, <3>2
    <2> HIDE DEF k
    <2>4. Len(q) = l + m  BY <2>1, <2>2
    <2>5. r \in Seq(Z)  BY <1>5, WiderSeq
    <2> QED  BY <1>5, <2>3, <2>4, <2>5, EqualSeqs
  <1>12. t[k + 1] = y  BY <1>8, <1>9
  <1>13. FoundPair(Z, t, k, x, y, r)
    BY <1>9, <1>10, <1>11, <1>12 DEF FoundPair
  <1> QED  BY <1>13 DEF t, h, b, r, l

LEMMA OnlyLast ==
    ASSUME NEW W, NEW a \in Seq(W), NEW x, x \notin W
    PROVE  LET t == a \o <<x>>
           IN  Len(t) \in Nat /\ At(t, x) = {Len(t)}
  <1> DEFINE S == W \union {x}
             t == Append(a, x)
             l == Len(a)
  <1>1. a \in Seq(S) /\ x \in S /\ l \in Nat
    <2>1. W \subseteq S  OBVIOUS
    <2> QED  BY <2>1, WiderSeq
  <1>2. t = a \o <<x>>  BY <1>1, AppendIsConcat
  <1>3. /\ Len(t) = l + 1 /\ t[l + 1] = x
        /\ \A i \in 1..l : t[i] = a[i]  BY <1>1, AppendIs
  <1>4. \A i \in 1..l : a[i] \in W  OBVIOUS
  <1> HIDE DEF t, l, S
  <1>5. \A i \in 1..Len(t) : t[i] = x <=> i = Len(t)
    <2>1. \A i \in 1..Len(t) : i = l + 1 \/ i \in 1..l  BY <1>1, <1>3
    <2>2. l + 1 \notin 1..l  BY <1>1
    <2> QED  BY <1>3, <1>4, <2>1, <2>2
  <1>6. Len(t) \in Nat /\ Len(t) \in 1..Len(t)  BY <1>1, <1>3
  <1>7. At(t, x) = {Len(t)}  BY <1>5, <1>6 DEF At
  <1> QED  BY <1>2, <1>6, <1>7

----
(* The redirections of a command whose symbols stand apart.                *)
LEMMA BehindIs ==
    ASSUME NEW R, NEW words \in Seq(R), NEW symbol
    PROVE  /\ At(words, symbol) = {} => Behind(words, symbol) = <<>>
           /\ \A p : At(words, symbol) = {p} =>
                        Behind(words, symbol) = <<symbol, words[p + 1]>>
  <1> DEFINE at == At(words, symbol)
  <1>1. at \subseteq Nat  BY DEF At
  <1>2. Behind(words, symbol) = IF at = {} THEN <<>> ELSE <<symbol, words[Min(at) + 1]>>
    <2>1. DOMAIN words = 1..Len(words)  OBVIOUS
    <2> QED  BY <2>1, Zenon DEF Behind, At
  <1> HIDE DEF at
  <1>3. ASSUME NEW p, at = {p} PROVE Behind(words, symbol) = <<symbol, words[p + 1]>>
    <2>1. Min(at) \in at  BY <1>1, <1>3, MinIsIn
    <2>2. Min(at) = p /\ at # {}  BY <1>3, <2>1
    <2> QED  BY <1>2, <2>2
  <1> QED  BY <1>2, <1>3 DEF at

LEMMA HandledNext ==
    ASSUME NEW R, NEW words \in Seq(R), Len(words) >= 1, NEW A, Apart(words, A),
           NEW D \in SUBSET A, NEW s \in A \ D,
           NEW parse, IsParse(R, parse), Handled(words, D, parse)
    PROVE  LET new == CheckAndInterpretRedirect(parse, s)
           IN  /\ IsParse(R, new)
               /\ Handled(words, D \union {s}, new)
               /\ words[Len(words)] \notin D \union {s} => Took(words, s, parse, new)
  <1> DEFINE n == Len(words)
             T == Taken(words, D)
             U == Taken(words, D \union {s})
             W == R \ {s}
             new == CheckAndInterpretRedirect(parse, s)
             tokens == parse.tokens
             at == At(words, s)
  <1>1. IsParse(R, new) /\ Redirects(parse, s, new)  BY RedirectIs
  <1>2. n \in Nat /\ n >= 1 /\ n \in 1..n /\ \A i \in 1..n : words[i] \in R
    OBVIOUS
  <1>3. at = {i \in 1..n : words[i] = s}  BY DEF At
  <1>4. /\ T = {i \in 1..n : words[i] \in D}
               \union {i + 1 : i \in {j \in 1..n : words[j] \in D}}
        /\ U = {i \in 1..n : words[i] \in D \union {s}}
               \union {i + 1 : i \in {j \in 1..n : words[j] \in D \union {s}}}
    BY DEF Taken
  <1> HIDE DEF new, T, U, at, n
  <1>5. CASE words[n] \in D
    <2>1. ~parse.ok  BY <1>5 DEF Handled, n
    <2>2. new = parse  BY <1>1, <2>1 DEF Redirects
    <2>3. Handled(words, D \union {s}, new)  BY <1>5, <2>1, <2>2 DEF Handled, n
    <2> QED  BY <1>1, <1>5, <2>3 DEF new, n
  <1>6. ASSUME words[n] \notin D
        PROVE  parse.ok /\ tokens = Others(words, T)
    BY <1>6 DEF Handled, n, T
  <1>7. CASE words[n] \notin D /\ at = {}
    <2>1. \A i \in 1..Len(words) : i \in T \/ words[i] \in W
      BY <1>2, <1>3, <1>7 DEF n
    <2>2. tokens \in Seq(W)  BY <1>6, <1>7, <2>1, OthersAre
    <2>3. At(tokens, s) = {}
      <3>1. \A i \in 1..Len(tokens) : tokens[i] \in W  BY <2>2
      <3> HIDE DEF tokens
      <3> QED  BY <3>1 DEF At
    <2>4. new = parse  BY <1>1, <2>3 DEF Redirects
    <2>5. U = T  BY <1>3, <1>4, <1>7
    <2>6. words[n] # s  BY <1>2, <1>3, <1>7
    <2>7. Handled(words, D \union {s}, new)
      BY <1>6, <1>7, <2>4, <2>5, <2>6 DEF Handled, n, U
    <2>8. Behind(words, s) = <<>>  BY <1>7, BehindIs DEF at
    <2>9. Took(words, s, parse, new)  BY <2>4, <2>8 DEF Took
    <2> QED  BY <1>1, <2>7, <2>9 DEF new
  <1>8. CASE words[n] \notin D /\ at # {}
    <2>1. PICK p \in at : TRUE  BY <1>8
    <2>2. p \in 1..n /\ words[p] = s  BY <1>3, <2>1
    <2>3. /\ \A i \in 1..n : words[i] \in A => p # i + 1 /\ i # p + 1
          /\ \A i \in 1..n : words[i] = s => i = p
      <3>1. \A i, j \in 1..n : (words[i] \in A /\ words[j] \in A) =>
               j # i + 1 /\ (words[i] = words[j] => i = j)  BY DEF Apart, n
      <3> QED  BY <2>2, <3>1
    <2>4. at = {p}  BY <1>3, <2>2, <2>3
    <2>5. \A i \in 1..n : words[i] \in D => words[i] \in A /\ words[i] # s
      OBVIOUS
    <2>6. p \notin T
      <3>1. words[p] \notin D  BY <2>2
      <3>2. \A i \in 1..n : words[i] \in D => p # i + 1  BY <2>3, <2>5
      <3> QED  BY <1>4, <3>1, <3>2
    <2>7. p + 1 \notin T
      <3>1. \A i \in 1..n : words[i] \in D => i # p + 1  BY <2>3, <2>5
      <3>2. \A i \in 1..n : words[i] \in D => p + 1 # i + 1
        <4>1. \A i \in 1..n : words[i] \in D => i # p  BY <2>2, <2>5
        <4> QED  BY <1>2, <2>2, <4>1
      <3> QED  BY <1>4, <3>1, <3>2
    <2>8. U = T \union {p, p + 1}
      <3>1. {i \in 1..n : words[i] \in D \union {s}} =
               {i \in 1..n : words[i] \in D} \union {p}  BY <2>2, <2>3
      <3>2. {i + 1 : i \in {j \in 1..n : words[j] \in D \union {s}}} =
               {i + 1 : i \in {j \in 1..n : words[j] \in D}} \union {p + 1}
        <4> DEFINE E == {j \in 1..n : words[j] \in D}
        <4>1. {j \in 1..n : words[j] \in D \union {s}} = E \union {p}
          BY <2>2, <2>3
        <4> HIDE DEF E
        <4>2. {i + 1 : i \in E \union {p}} = {i + 1 : i \in E} \union {p + 1}
          OBVIOUS
        <4> QED  BY <4>1, <4>2 DEF E
      <3> QED  BY <1>4, <3>1, <3>2
    <2>9. Behind(words, s) = <<s, words[p + 1]>>  BY <2>4, BehindIs DEF at
    <2>10. CASE p = n
      <3>1. \A i \in 1..(n - 1) : i \in T \/ words[i] \in W
        <4>1. \A i \in 1..(n - 1) : i \in 1..n /\ i # p  BY <1>2, <2>10
        <4> QED  BY <1>2, <2>3, <4>1
      <3>2. PICK a \in Seq(W) : Others(words, T) = a \o <<words[n]>>
        BY <1>2, <2>6, <2>10, <3>1, TakeLast DEF n
      <3>3. tokens = a \o <<s>>  BY <1>6, <1>8, <2>2, <2>10, <3>2
      <3>4. Len(tokens) \in Nat /\ At(tokens, s) = {Len(tokens)}
        BY <3>3, OnlyLast
      <3>5. ~new.ok
        <4>1. At(tokens, s) # {} /\ parse.ok  BY <1>6, <1>8, <3>4
        <4>2. Min(At(tokens, s)) = Len(tokens)
          BY <1>1, <3>4, <4>1 DEF Redirects
        <4> QED  BY <1>1, <4>1, <4>2 DEF Redirects
      <3>6. words[n] \in D \union {s}  BY <2>2, <2>10
      <3> QED  BY <1>1, <3>5, <3>6 DEF Handled, new, n
    <2>11. CASE p # n
      <3>1. p \in 1..(n - 1) /\ p + 1 \in 1..n  BY <1>2, <2>2, <2>11
      <3>2. \A i \in 1..n : i = p \/ i \in T \/ words[i] \in W  BY <1>2, <2>3
      <3>3. PICK a, c \in Seq(W) :
               /\ Others(words, T) = (a \o <<words[p], words[p + 1]>>) \o c
               /\ Others(words, T \union {p, p + 1}) = a \o c
        <4>1. TakesPair(words, T, W, p)
          BY <2>6, <2>7, <3>1, <3>2, TakePair DEF n
        <4> QED  BY <4>1, Zenon DEF TakesPair
      <3> DEFINE y == words[p + 1]
                 k == Len(a) + 1
      <3>4. y \in W /\ s \notin W
        <4>1. p + 1 # p  BY <3>1
        <4>2. y # s /\ y \in R  BY <1>2, <2>3, <3>1, <4>1
        <4> QED  BY <4>2
      <3>5. tokens = (a \o <<s, y>>) \o c  BY <1>6, <1>8, <2>2, <3>3
      <3> HIDE DEF y
      <3>6. /\ k \in Nat /\ k < Len(tokens) /\ At(tokens, s) = {k} /\ tokens[k + 1] = y
            /\ \A r \in Seq(R) : Without(tokens, k, r) => r = a \o c
        <4>1. W \subseteq R  OBVIOUS
        <4> HIDE DEF W, tokens
        <4>2. FoundPair(R, (a \o <<s, y>>) \o c, k, s, y, a \o c)
          BY <3>4, <4>1, OnlyPair
        <4>3. FoundPair(R, tokens, k, s, y, a \o c)  BY <3>5, <4>2, Zenon
        <4> QED  BY <4>3, Zenon DEF FoundPair
      <3> HIDE DEF k
      <3>7. /\ parse.ok /\ Min(At(tokens, s)) = k /\ k # Len(tokens)
            /\ At(tokens, s) # {}
        <4>1. At(tokens, s) # {} /\ parse.ok  BY <1>6, <1>8, <3>6
        <4>2. Min(At(tokens, s)) = k  BY <1>1, <3>6, <4>1 DEF Redirects
        <4>3. Len(tokens) \in Nat  BY DEF IsParse
        <4> QED  BY <3>6, <4>1, <4>2, <4>3
      <3>8. /\ new.ok /\ Without(tokens, k, new.tokens)
            /\ new.in = IF s = <<"<">> /\ parse.in = <<>> THEN <<s, y>> ELSE parse.in
            /\ new.out = IF s # <<"<">> /\ parse.out = <<>> THEN <<s, y>> ELSE parse.out
        BY <1>1, <3>6, <3>7, Zenon DEF Redirects
      <3>9. new.tokens = Others(words, U)
        <4>1. new.tokens \in Seq(R)  BY <1>1 DEF IsParse
        <4>2. new.tokens = a \o c  BY <3>6, <3>8, <4>1
        <4> QED  BY <2>8, <3>3, <4>2
      <3>10. Took(words, s, parse, new)  BY <2>9, <3>8, Zenon DEF Took, Lt, y
      <3>11. words[n] \notin D \union {s}  BY <1>2, <1>8, <2>3, <2>11
      <3>12. Handled(words, D \union {s}, new)
        BY <3>8, <3>9, <3>11 DEF Handled, n, U
      <3> QED  BY <1>1, <3>10, <3>12 DEF new
    <2> QED  BY <2>10, <2>11
  <1> QED  BY <1>5, <1>7, <1>8

LEMMA OthersOfNone ==
    ASSUME NEW R, NEW words \in Seq(R)
    PROVE  Others(words, {}) = words
  <1> DEFINE n == Len(words)
             s == Shown(words, {})
             now(m) == After(<<"Concat">>, <<>>, s, m)
             read(m) == SubSeq(words, 1, m)
             A == {m \in 0..n : now(m) = read(m)}
  <1>1. n \in Nat /\ \A i \in 1..n : words[i] \in R  OBVIOUS
  <1>2. Others(words, {}) = FlattenSeq(s) /\ s \in Seq(Seq(R)) /\ Len(s) = n
    <2>1. \A i \in 1..Len(words) : i \in {} \/ words[i] \in R  BY <1>1
    <2> QED  BY <2>1, OthersAre
  <1>3. FlattenSeq(s) = now(n)  BY <1>2, FlattenIs
  <1>4. \A i \in 1..n : s[i] = <<words[i]>>  BY DEF Shown
  <1>5. 0 \in A
    <2>1. now(0) = <<>>  BY AfterNone
    <2>2. read(0) \in Seq(R) /\ Len(read(0)) = 0
      <3>1. 0 \in Nat /\ 0 <= Len(words) /\ ~(1 <= 0) /\ 1 \in Nat  BY <1>1
      <3> QED  BY <3>1, SubSeqIs
    <2> HIDE DEF now, read
    <2>3. read(0) = <<>>  BY <2>2, EmptySeq
    <2> QED  BY <1>1, <2>1, <2>3
  <1>6. ASSUME NEW m \in 0..(n - 1), m \in A PROVE m + 1 \in A
    <2>1. m \in Nat /\ m < n /\ m + 1 \in 1..n /\ m + 1 \in 0..n  BY <1>1
    <2>2. now(m + 1) = Turn(<<"Concat">>, now(m), s[m + 1])  BY <2>1, AfterNext
    <2>3. read(m + 1) = Append(read(m), words[m + 1])  BY <2>1, SubSeqNext
    <2>4. read(m) \in Seq(R)
      <3>1. m <= Len(words) /\ 1 \in Nat /\ 1 >= 1  BY <2>1
      <3> QED  BY <2>1, <3>1, SubSeqIs
    <2>5. now(m) = read(m)  BY <1>6
    <2> HIDE DEF now, read, n, s, A
    <2>6. now(m + 1) = now(m) \o s[m + 1]  BY <2>2 DEF Turn
    <2>7. s[m + 1] = <<words[m + 1]>> /\ words[m + 1] \in R
      BY <1>1, <1>4, <2>1
    <2> DEFINE x == words[m + 1]
    <2> HIDE DEF x
    <2>8. Append(read(m), x) = read(m) \o <<x>>
      BY <2>4, <2>7, AppendIsConcat DEF x
    <2>9. now(m + 1) = read(m + 1)  BY <2>3, <2>5, <2>6, <2>7, <2>8 DEF x
    <2> QED  BY <2>1, <2>9 DEF A
  <1> HIDE DEF A
  <1>7. 0..n \subseteq A  BY <1>1, <1>5, <1>6, SetInductionUpTo
  <1>8. now(n) = read(n)
    <2>1. n \in A  BY <1>1, <1>7
    <2> QED  BY <2>1 DEF A
  <1>9. read(n) = words
    <2>1. /\ read(n) \in Seq(R) /\ Len(read(n)) = IF 1 <= n THEN n - 1 + 1 ELSE 0
          /\ \A i \in 1..(n - 1 + 1) : read(n)[i] = words[1 + i - 1]
      BY <1>1, SubSeqIs
    <2> HIDE DEF read, n
    <2>2. n - 1 + 1 = n /\ (1 <= n \/ n = 0) /\ \A i \in 1..n : 1 + i - 1 = i
      BY <1>1
    <2>3. Len(read(n)) = Len(words) /\ \A i \in 1..Len(read(n)) : read(n)[i] = words[i]
      BY <2>1, <2>2 DEF n
    <2> QED  BY <2>1, <2>3, EqualSeqs
  <1> QED  BY <1>2, <1>3, <1>8, <1>9

LEMMA ThreeAre ==
    /\ Lt # Gt /\ Lt # GtGt /\ Gt # GtGt
    /\ ToSet(RedirectSymbols) = Three
    /\ Lt # <<>> /\ Gt # <<>> /\ GtGt # <<>>
  <1>1. Len(Lt) = 1 /\ Len(Gt) = 1 /\ Len(GtGt) = 2 /\ Lt[1] = "<" /\ Gt[1] = ">"
    BY DEF Lt, Gt, GtGt
  <1>2. Lt # Gt /\ Lt # GtGt /\ Gt # GtGt  BY <1>1
  <1>3. ToSet(RedirectSymbols) = Three
    <2>1. DOMAIN RedirectSymbols = 1..3  BY DEF RedirectSymbols
    <2>2. RedirectSymbols[1] = Lt /\ RedirectSymbols[2] = Gt /\ RedirectSymbols[3] = GtGt
      BY DEF RedirectSymbols, Lt, Gt, GtGt
    <2>3. \A i \in 1..3 : i = 1 \/ i = 2 \/ i = 3  OBVIOUS
    <2>4. 1 \in 1..3 /\ 2 \in 1..3 /\ 3 \in 1..3  OBVIOUS
    <2> QED  BY <2>1, <2>2, <2>3, <2>4, Zenon DEF ToSet, Three
  <1> QED  BY <1>1, <1>2, <1>3 DEF Lt, Gt, GtGt

LEMMA RedirectedAll ==
    ASSUME NEW R, NEW words \in Seq(R), Len(words) >= 1, Apart(words, Three)
    PROVE  LET parse == Redirected(words)
           IN  /\ IsParse(R, parse) /\ Handled(words, Three, parse)
               /\ words[Len(words)] \notin Three =>
                     /\ parse.in = Behind(words, Lt)
                     /\ parse.out = IF Behind(words, Gt) # <<>>
                                    THEN Behind(words, Gt) ELSE Behind(words, GtGt)
  <1> DEFINE zero == Unredirected(words)
             one == CheckAndInterpretRedirect(zero, Lt)
             two == CheckAndInterpretRedirect(one, Gt)
             three == CheckAndInterpretRedirect(two, GtGt)
             z == words[Len(words)]
  <1>1. Redirected(words) = three  BY RedirectedIs DEF Lt, Gt, GtGt
  <1>2. IsParse(R, zero) /\ zero.in = <<>> /\ zero.out = <<>> /\ Handled(words, {}, zero)
    <2>1. /\ zero.tokens = words /\ zero.ok = TRUE /\ zero.in = <<>> /\ zero.out = <<>>
          /\ zero = [tokens |-> zero.tokens, in |-> zero.in, out |-> zero.out, ok |-> zero.ok]
      BY DEF Unredirected
    <2> HIDE DEF zero
    <2>2. IsParse(R, zero)  BY <2>1 DEF IsParse
    <2>3. Taken(words, {}) = {}  BY DEF Taken
    <2>4. Others(words, Taken(words, {})) = words  BY <2>3, OthersOfNone
    <2>5. Handled(words, {}, zero)  BY <2>1, <2>4 DEF Handled
    <2> QED  BY <2>1, <2>2, <2>5
  <1> HIDE DEF zero, z
  <1>3. /\ {} \in SUBSET Three /\ Lt \in Three \ {}
        /\ {Lt} \in SUBSET Three /\ Gt \in Three \ {Lt}
        /\ {Lt, Gt} \in SUBSET Three /\ GtGt \in Three \ {Lt, Gt}
        /\ {} \union {Lt} = {Lt} /\ {Lt} \union {Gt} = {Lt, Gt}
        /\ {Lt, Gt} \union {GtGt} = Three  BY ThreeAre DEF Three
  <1>4. ASSUME NEW D \in SUBSET Three, NEW s \in Three \ D, NEW parse,
               IsParse(R, parse), Handled(words, D, parse)
        PROVE  /\ IsParse(R, CheckAndInterpretRedirect(parse, s))
               /\ Handled(words, D \union {s}, CheckAndInterpretRedirect(parse, s))
               /\ z \notin D \union {s} =>
                     Took(words, s, parse, CheckAndInterpretRedirect(parse, s))
    <2> HIDE DEF Three
    <2> QED  BY <1>4, HandledNext DEF z
  <1>5. /\ IsParse(R, one) /\ Handled(words, {} \union {Lt}, one)
        /\ z \notin {} \union {Lt} => Took(words, Lt, zero, one)
    BY <1>2, <1>3, <1>4
  <1> HIDE DEF one
  <1>6. /\ IsParse(R, two) /\ Handled(words, {Lt} \union {Gt}, two)
        /\ z \notin {Lt} \union {Gt} => Took(words, Gt, one, two)
    <2>1. Handled(words, {Lt}, one)  BY <1>3, <1>5, Zenon
    <2> QED  BY <1>3, <1>4, <1>5, <2>1
  <1> HIDE DEF two
  <1>7. /\ IsParse(R, three) /\ Handled(words, {Lt, Gt} \union {GtGt}, three)
        /\ z \notin {Lt, Gt} \union {GtGt} => Took(words, GtGt, two, three)
    <2>1. Handled(words, {Lt, Gt}, two)  BY <1>3, <1>6, Zenon
    <2> QED  BY <1>3, <1>4, <1>6, <2>1
  <1> HIDE DEF three
  <1>8. Handled(words, Three, three)  BY <1>3, <1>7, Zenon
  <1>9. ASSUME z \notin Three
        PROVE  /\ three.in = Behind(words, Lt)
               /\ three.out = IF Behind(words, Gt) # <<>>
                              THEN Behind(words, Gt) ELSE Behind(words, GtGt)
    <2>1. z \notin {} \union {Lt} /\ z \notin {Lt} \union {Gt} /\ z \notin {Lt, Gt} \union {GtGt}
      BY <1>9 DEF Three
    <2>2. Took(words, Lt, zero, one) /\ Took(words, Gt, one, two) /\ Took(words, GtGt, two, three)
      BY <1>5, <1>6, <1>7, <2>1
    <2>3. one.in = Behind(words, Lt) /\ one.out = <<>>  BY <1>2, <2>2 DEF Took
    <2>4. two.in = one.in /\ two.out = Behind(words, Gt)
      BY <2>2, <2>3, ThreeAre DEF Took
    <2>5. /\ three.in = two.in
          /\ three.out = IF two.out = <<>> THEN Behind(words, GtGt) ELSE two.out
      BY <2>2, ThreeAre, Zenon DEF Took
    <2> QED  BY <2>3, <2>4, <2>5
  <1> QED  BY <1>1, <1>7, <1>8, <1>9 DEF z

LEMMA HeadAndTail ==
    ASSUME NEW S, NEW s \in Seq(S), s # <<>>
    PROVE  Tail(s) \in Seq(S) /\ <<Head(s)>> \o Tail(s) = s
  <1> DEFINE h == <<Head(s)>>
             t == Tail(s)
             n == Len(s)
             u == h \o t
  <1>1. n \in Nat /\ n >= 1  BY EmptySeq
  <1>2. /\ h \in Seq(S) /\ Len(h) = 1 /\ h[1] = s[1]
        /\ t \in Seq(S) /\ Len(t) = n - 1
        /\ \A i \in 1..(n - 1) : t[i] = s[i + 1]
    <2>1. h \in Seq(S) /\ Len(h) = 1 /\ h[1] = s[1]  BY <1>1
    <2>2. t \in Seq(S) /\ Len(t) = n - 1  BY <1>1
    <2>3. \A i \in 1..(n - 1) : t[i] = s[i + 1]  BY <1>1
    <2> QED  BY <2>1, <2>2, <2>3
  <1> HIDE DEF h, t
  <1>3. /\ u \in Seq(S) /\ Len(u) = Len(h) + Len(t)
        /\ \A i \in 1..(Len(h) + Len(t)) :
              u[i] = IF i <= Len(h) THEN h[i] ELSE t[i - Len(h)]
    <2>1. h \in Seq(S) /\ t \in Seq(S)  BY <1>2
    <2> QED  BY <2>1, ConcatProperties
  <1> HIDE DEF u, n
  <1>4. /\ Len(u) = n
        /\ \A i \in 1..n : u[i] = IF i <= 1 THEN h[i] ELSE t[i - 1]
    BY <1>1, <1>2, <1>3
  <1>5. \A i \in 1..n : u[i] = s[i]
    <2> TAKE i \in 1..n
    <2>1. CASE i = 1  BY <1>1, <1>2, <1>4, <2>1
    <2>2. CASE i # 1
      <3>1. i - 1 \in 1..(n - 1) /\ ~(i <= 1) /\ (i - 1) + 1 = i  BY <1>1, <2>2
      <3> QED  BY <1>2, <1>4, <3>1
    <2> QED  BY <2>1, <2>2
  <1>6. u = s  BY <1>3, <1>4, <1>5, EqualSeqs DEF n
  <1> QED  BY <1>2, <1>6 DEF u, h, t

LEMMA WordsBegin ==
    ASSUME NEW piece \in Seq(Chars \ {"&"}), StartsCommand(piece)
    PROVE  LET words == Words(piece)
           IN  /\ words \in Seq(Seq((Chars \ {"&"}) \ {Space})) /\ Len(words) >= 1
               /\ words # <<>> /\ words[1] \notin Three
  <1> DEFINE clean == CleanTrailingSpaces(piece)
             words == Words(piece)
             S == Chars \ {"&"}
             x == Head(clean)
  <1>1. ~Blank(piece) /\ x \notin {"<", ">", "|"}  BY DEF StartsCommand
  <1>2. clean \in Seq(S) /\ clean # <<>> /\ x \notin {Space, "&"}
    <2>1. <<>> \in {<<>>, Amp}  OBVIOUS
    <2> QED  BY <1>1, <2>1, TypedPieceIs
  <1>3. x = clean[1]
    <2> HIDE DEF clean
    <2> QED  BY <1>2
  <1>4. IsSplit(S, Space, words) /\ Begins(words[1], clean[1])
    BY <1>2, WordsAre
  <1> HIDE DEF clean, words, x
  <1>5. x \notin Symbol  BY <1>1, <1>2 DEF Symbol
  <1>6. words[1] \notin Three
    BY <1>3, <1>4, <1>5, HeadNoSymbol DEF Three, Lt, Gt, GtGt
  <1>7. words \in Seq(Seq(S \ {Space})) /\ words # <<>>  BY <1>4 DEF IsSplit
  <1> DEFINE R == Seq(S \ {Space})
  <1> HIDE DEF R
  <1>8. Len(words) >= 1
    <2>1. words \in Seq(R)  BY <1>7 DEF R
    <2> QED  BY <1>7, <2>1, EmptySeq
  <1> QED  BY <1>6, <1>7, <1>8 DEF words

LEMMA PlainIs ==
    ASSUME NEW R, NEW words \in Seq(R), Plain(words)
    PROVE  /\ \A i \in 1..Len(words) : words[i] # <<>>
           /\ Apart(words, Three)
           /\ SymbolsOf(words) = {i \in 1..Len(words) : words[i] \in Three}
  <1>1. DOMAIN words = 1..Len(words)  OBVIOUS
  <1>2. SymbolsOf(words) = {i \in 1..Len(words) : words[i] \in Three}
    BY <1>1, ThreeAre DEF SymbolsOf
  <1>3. /\ \A i \in DOMAIN words : words[i] # <<>>
        /\ \A i, j \in SymbolsOf(words) : j # i + 1 /\ (words[i] = words[j] => i = j)
    BY DEF Plain
  <1>4. Apart(words, Three)  BY <1>2, <1>3 DEF Apart
  <1> QED  BY <1>1, <1>2, <1>3, <1>4

LEMMA NoArgumentDropped ==
    ASSUME NEW W, <<>> \notin W, NEW args \in Seq(W)
    PROVE  Arguments(args) = args
  <1>1. args # <<>> => Last(args) \in W  BY FrontIs
  <1> QED  BY <1>1 DEF Arguments

LEMMA PieceRunsAsWritten ==
    ASSUME NEW piece \in Seq(Chars \ {"&"}), NEW tail \in {<<>>, Amp},
           StartsCommand(piece), Plain(Words(piece)),
           NEW background, (tail = Amp) \in background
    PROVE  RunAsWritten(Words(piece), background, Outcome(TypedPiece(piece, tail)))
  <1> DEFINE R == Seq((Chars \ {"&"}) \ {Space})
             words == Words(piece)
             n == Len(words)
             command == TypedPiece(piece, tail)
             tokens == GetLines(command, Space)
             parse == Redirected(words)
             o == Outcome(command)
             amp == Last(Last(tokens)) = "&"
             symbols == SymbolsOf(words)
  <1>1. words \in Seq(R) /\ n >= 1 /\ words # <<>> /\ words[1] \notin Three
    BY WordsBegin
  <1>2. ~Blank(piece)  BY DEF StartsCommand
  <1>3. Bare(tokens) = words /\ amp = (tail = Amp)
    <2>1. Bare(tokens) = words /\ (amp <=> tail = Amp)  BY <1>2, TypedWords
    <2>2. amp = (tail = Amp)  BY <2>1
    <2> QED  BY <2>1, <2>2
  <1>4. o = InterpretCommand(command)  BY OutcomeOfPiece
  <1>5. o = IF ~parse.ok THEN [do |-> "malformed"]
            ELSE [do |-> "run", cmd |-> Head(parse.tokens),
                  args |-> Arguments(Tail(parse.tokens)),
                  in |-> parse.in, out |-> parse.out, bg |-> amp]
    BY <1>3, <1>4, InterpretCommandIs, Zenon
  <1> HIDE DEF R, words, command, tokens, o, amp
  <1>6. /\ \A i \in 1..n : words[i] # <<>>
        /\ Apart(words, Three)
        /\ symbols = {i \in 1..n : words[i] \in Three}
    BY <1>1, PlainIs DEF words
  <1>7. n \in Nat /\ n \in 1..n /\ \A i \in 1..n : words[i] \in R  BY <1>1
  <1>8. /\ IsParse(R, parse) /\ Handled(words, Three, parse)
        /\ words[n] \notin Three =>
              /\ parse.in = Behind(words, Lt)
              /\ parse.out = IF Behind(words, Gt) # <<>>
                             THEN Behind(words, Gt) ELSE Behind(words, GtGt)
    BY <1>1, <1>6, RedirectedAll
  <1>9. StartsWith(R, parse, words[1])
    BY <1>1, RedirectedStartsWith DEF Three, Lt, Gt, GtGt
  <1>10. symbols \union {i + 1 : i \in symbols} = Taken(words, Three)
    BY <1>6 DEF Taken
  <1>11. n \in symbols <=> words[n] \in Three  BY <1>6, <1>7
  <1> HIDE DEF parse, symbols
  <1>12. CASE words[n] \in Three
    <2>1. ~parse.ok  BY <1>8, <1>12 DEF Handled
    <2>2. o = [do |-> "malformed"]  BY <1>5, <2>1, Zenon
    <2>3. o.do = "malformed"  BY <2>2
    <2> QED  BY <1>11, <1>12, <2>3 DEF RunAsWritten, symbols, o, command, words
  <1>13. CASE words[n] \notin Three
    <2> DEFINE t == parse.tokens
               cmd == Head(t)
               args == Arguments(Tail(t))
    <2>1. parse.ok /\ t = Others(words, Taken(words, Three))
      BY <1>8, <1>13 DEF Handled
    <2>2. t \in Seq(R \ {<<>>})
      <3> DEFINE W == R \ {<<>>}
                 taken == Taken(words, Three)
      <3>1. \A i \in 1..Len(words) : i \in taken \/ words[i] \in W
        BY <1>6, <1>7
      <3> HIDE DEF W, taken
      <3>2. Others(words, taken) \in Seq(W)  BY <1>1, <3>1, OthersAre
      <3> QED  BY <2>1, <3>2 DEF W, taken
    <2>3. t # <<>>  BY <1>9, SMTT(40) DEF StartsWith
    <2>4. <<cmd>> \o args = t
      <3> HIDE DEF t
      <3>1. Tail(t) \in Seq(R \ {<<>>}) /\ <<Head(t)>> \o Tail(t) = t
        BY <2>2, <2>3, HeadAndTail
      <3>2. args = Tail(t)
        <4> DEFINE W == R \ {<<>>}
        <4>1. <<>> \notin W  OBVIOUS
        <4> HIDE DEF W
        <4> QED  BY <3>1, <4>1, NoArgumentDropped DEF W
      <3> QED  BY <3>1, <3>2
    <2> HIDE DEF cmd, args
    <2>5. o = [do |-> "run", cmd |-> cmd, args |-> args, in |-> parse.in,
               out |-> parse.out, bg |-> amp]
      BY <1>5, <2>1, Zenon DEF cmd, args, t
    <2>6. /\ o.do = "run" /\ o.cmd = cmd /\ o.args = args /\ o.in = parse.in
          /\ o.out = parse.out /\ o.bg = amp  BY <2>5
    <2>7. <<o.cmd>> \o o.args = Others(words, Taken(words, Three))
      BY <2>1, <2>4, <2>6
    <2>8. /\ o.in = Behind(words, Lt)
          /\ o.out = IF Behind(words, Gt) # <<>>
                     THEN Behind(words, Gt) ELSE Behind(words, GtGt)
      BY <1>8, <1>13, <2>6
    <2>9. o.bg \in background  BY <1>3, <2>6
    <2>10. RunAsWritten(words, background, o)
      BY <1>10, <1>11, <1>13, <2>6, <2>7, <2>8, <2>9, Zenon
         DEF RunAsWritten, symbols, Lt, Gt, GtGt
    <2> QED  BY <2>10 DEF o, command, words
  <1> QED  BY <1>12, <1>13

(* Where the redirections and arguments of a command come from, for every  *)
(* line put together from the inputs.                                      *)
THEOREM RedirectionsStandAnywhere == Spec => []RedirectionsAsWritten
  <1>1. ASSUME InputType, IsLine PROVE RedirectionsAsWritten
    <2> DEFINE pieces == GetLines(Line, "&")
               outcomes == RunTyped(Line)
               n == Len(pieces)
               tail(p) == IF p < n THEN Amp ELSE <<>>
    <2>1. IsSplit(Chars, "&", pieces)  BY <1>1, LineIsSplit
    <2>2. \A p \in DOMAIN outcomes :
             p \in 1..n /\ outcomes[p] = Outcome(TypedPiece(pieces[p], tail(p)))
      BY <2>1, TypedEndsAtUnusable
    <2>3. \A p \in 1..n : pieces[p] \in Seq(Chars \ {"&"})  BY <2>1, PieceOf
    <2>4. \A p : tail(p) \in {<<>>, Amp} /\ (tail(p) = Amp <=> p < n)  BY AmpIs
    <2> HIDE DEF pieces, outcomes, tail, n
    <2>5. ASSUME NEW p \in DOMAIN outcomes, Plain(Words(pieces[p])),
                 outcomes[p].do \notin {"symbol", "abort"}
          PROVE  RunAsWritten(Words(pieces[p]), Backgrounds(p, n), outcomes[p])
      <3>1. /\ pieces[p] \in Seq(Chars \ {"&"}) /\ tail(p) \in {<<>>, Amp}
            /\ outcomes[p] = Outcome(TypedPiece(pieces[p], tail(p)))
        BY <2>2, <2>3, <2>4
      <3>2. StartsCommand(pieces[p])
        <4>1. ~StartsCommand(pieces[p]) =>
                 Outcome(TypedPiece(pieces[p], tail(p))).do =
                    IF Blank(pieces[p]) /\ tail(p) = <<>> THEN "abort" ELSE "symbol"
          BY <3>1, OutcomeOfPiece
        <4> QED  BY <2>5, <3>1, <4>1
      <3>3. (tail(p) = Amp) \in Backgrounds(p, n)
        <4>1. (tail(p) = Amp) = (p < n) /\ (p < n) \in BOOLEAN  BY <2>4
        <4> QED  BY <4>1, Zenon DEF Backgrounds
      <3> QED  BY <2>5, <3>1, <3>2, <3>3, PieceRunsAsWritten
    <2> QED  BY <2>5, Zenon DEF RedirectionsAsWritten, pieces, outcomes, n
  <1>2. InputType => RedirectionsAsWritten  BY <1>1 DEF RedirectionsAsWritten
  <1> QED  BY <1>2, InputInvariance, PTL

----
(* A line typed and in a batch file.                                       *)
LEMMA SameOutcomes ==
    ASSUME NEW n \in Nat, NEW c, NEW d, DOMAIN c = 1..n, DOMAIN d = 1..n,
           \A i \in 1..n : Outcome(c[i]) = Outcome(d[i])
    PROVE  EnsureAndTokenize(c) = EnsureAndTokenize(d)
  <1> DEFINE now(m) == After(<<"Interpret">>, <<>>, c, m)
             then(m) == After(<<"Interpret">>, <<>>, d, m)
             A == {m \in 0..n : now(m) = then(m)}
  <1>1. EnsureAndTokenize(c) = now(n) /\ EnsureAndTokenize(d) = then(n)
    BY InterpretLoop DEF EnsureAndTokenize
  <1>2. now(0) = <<>> /\ then(0) = <<>>  BY AfterNone
  <1>3. ASSUME NEW m \in Nat
        PROVE  /\ now(m + 1) = Interpret(now(m), c[m + 1])
               /\ then(m + 1) = Interpret(then(m), d[m + 1])
    <2>1. /\ now(m + 1) = Turn(<<"Interpret">>, now(m), c[m + 1])
          /\ then(m + 1) = Turn(<<"Interpret">>, then(m), d[m + 1])
      BY AfterNext
    <2> HIDE DEF now, then
    <2> QED  BY <2>1 DEF Turn
  <1> HIDE DEF now, then
  <1>4. 0 \in A  BY <1>2
  <1>5. ASSUME NEW m \in 0..(n - 1), m \in A PROVE m + 1 \in A
    <2>1. m \in Nat /\ m + 1 \in 1..n /\ m + 1 \in 0..n  OBVIOUS
    <2>2. now(m) = then(m)  BY <1>5
    <2>3. Outcome(c[m + 1]) = Outcome(d[m + 1])  BY <2>1
    <2>4. Interpret(now(m), c[m + 1]) = Interpret(then(m), d[m + 1])
      BY <2>2, <2>3 DEF Interpret
    <2> QED  BY <1>3, <2>1, <2>4
  <1> HIDE DEF A
  <1>6. 0..n \subseteq A  BY <1>4, <1>5, SetInductionUpTo
  <1>7. n \in A  BY <1>6
  <1> QED  BY <1>1, <1>7 DEF A

LEMMA SpacedSplit ==
    ASSUME NEW C, NEW line \in Seq(C), Spaced(line)
    PROVE  \A m \in 0..Len(line) :
              LET split == Split(line, "&", m)
                  l == Len(split)
              IN  /\ \A i \in 1..(l - 1) : Closed(split[i])
                  /\ EndOf(line, m, split[l])
  <1> DEFINE n == Len(line)
             now(m) == Split(line, "&", m)
             l(m) == Len(now(m))
             Good(m) == /\ \A i \in 1..(l(m) - 1) : Closed(now(m)[i])
                        /\ EndOf(line, m, now(m)[l(m)])
             A == {m \in 0..n : Good(m)}
  <1>1. n \in Nat /\ \A i \in 1..n : line[i] \in C  OBVIOUS
  <1>2. /\ \A m \in 0..n : IsSplit(C, "&", now(m))
        /\ \A m \in 0..(n - 1) : Added("&", line[m + 1], now(m), now(m + 1))
    <2>1. \A m \in 0..n : IsSplit(C, "&", now(m))  BY SplitSteps
    <2>2. n \in 0..n  BY <1>1
    <2>3. \A m \in 0..(n - 1) : Added("&", line[m + 1], now(m), now(m + 1))
      BY <2>2, SplitSteps
    <2> QED  BY <2>1, <2>3
  <1>3. \A i \in 1..n : line[i] = "&" => i > 2 /\ line[i - 1] = Space /\ line[i - 2] # Space
    BY DEF Spaced
  <1>4. 0 \in A
    <2>1. now(0) = <<<<>>>>  BY SplitStarts
    <2>2. l(0) = 1 /\ now(0)[l(0)] = <<>>
      <3>1. l(0) = 1 /\ now(0)[1] = <<>>  BY <2>1
      <3> HIDE DEF now, l
      <3> QED  BY <3>1
    <2> HIDE DEF now, l
    <2>3. Len(<<>>) = 0  OBVIOUS
    <2>4. EndOf(line, 0, <<>>)  BY <2>3 DEF EndOf
    <2>5. \A i \in 1..(l(0) - 1) : Closed(now(0)[i])  BY <2>2
    <2> QED  BY <1>1, <2>2, <2>4, <2>5
  <1>5. ASSUME NEW m \in 0..(n - 1), m \in A PROVE m + 1 \in A
    <2> DEFINE old == now(m)
               new == now(m + 1)
               c == line[m + 1]
               k == Len(old)
               z == old[k]
    <2>1. m \in Nat /\ m + 1 \in 1..n /\ m + 1 \in 0..n /\ m \in 0..n  BY <1>1
    <2>2. c \in C /\ IsSplit(C, "&", old) /\ Added("&", c, old, new)
      BY <1>1, <1>2, <2>1
    <2>3. (\A i \in 1..(k - 1) : Closed(old[i])) /\ EndOf(line, m, z)  BY <1>5
    <2>4. c = "&" => m + 1 > 2 /\ line[(m + 1) - 1] = Space /\ line[(m + 1) - 2] # Space
      BY <1>3, <2>1
    <2> HIDE DEF old, new, c, n
    <2>5. /\ k \in Nat /\ k >= 1
          /\ \A i \in 1..(k - 1) : new[i] = old[i]
          /\ c = "&" => /\ Len(new) = k + 1
                        /\ new[k] = z /\ new[k + 1] = <<>>
          /\ c # "&" => Len(new) = k /\ new[k] = Append(z, c)
      BY <2>2 DEF Added
    <2>6. z \in Seq(C \ {"&"})
      <3>1. k \in 1..Len(old)  BY <2>5
      <3> QED  BY <2>2, <3>1, PieceOf
    <2> HIDE DEF z, k
    <2> DEFINE h == Len(z)
    <2>7. /\ h \in Nat /\ h <= m
          /\ \A j \in 1..h : z[j] = line[m - h + j]
          /\ h < m => line[m - h] = "&"  BY <2>3, <2>6 DEF EndOf
    <2>8. CASE c = "&"
      <3>1. m >= 2 /\ line[m] = Space /\ line[m - 1] # Space
        <4>1. (m + 1) - 1 = m /\ (m + 1) - 2 = m - 1  BY <2>1
        <4> QED  BY <2>1, <2>4, <2>8, <4>1
      <3>2. h >= 1
        <4>1. ASSUME h = 0 PROVE FALSE
          <5>1. h < m /\ m - h = m  BY <3>1, <2>1, <4>1
          <5>2. line[m] = "&"  BY <2>7, <5>1
          <5> QED  BY <3>1, <5>2, SpaceIsNoAmp
        <4> QED  BY <2>7, <4>1
      <3> HIDE DEF h
      <3>3. z[h] = Space
        <4>1. h \in 1..h /\ m - h + h = m  BY <2>1, <2>7, <3>2
        <4> QED  BY <2>7, <3>1, <4>1
      <3>4. h > 1 => z[h - 1] # Space
        <4> SUFFICES ASSUME h > 1 PROVE z[h - 1] # Space  OBVIOUS
        <4>1. h - 1 \in 1..h /\ m - h + (h - 1) = m - 1  BY <2>1, <2>7
        <4> QED  BY <2>7, <3>1, <4>1
      <3>5. Closed(z)  BY <3>2, <3>3, <3>4 DEF Closed, h
      <3>6. \A i \in 1..((k + 1) - 1) : Closed(new[i])
        <4>1. \A i \in 1..((k + 1) - 1) : i \in 1..(k - 1) \/ i = k  BY <2>5
        <4> QED  BY <2>3, <2>5, <2>8, <3>5, <4>1
      <3>7. EndOf(line, m + 1, <<>>)
        <4>1. Len(<<>>) = 0  OBVIOUS
        <4>2. 0 <= m + 1 /\ (m + 1) - 0 = m + 1 /\ 1..0 = {}  BY <2>1
        <4> QED  BY <2>8, <4>1, <4>2 DEF EndOf, c
      <3>8. Good(m + 1)  BY <2>5, <2>8, <3>6, <3>7 DEF new
      <3> QED  BY <2>1, <3>8 DEF n
    <2>9. CASE c # "&"
      <3> DEFINE p == Append(z, c)
      <3>1. c \in C \ {"&"}  BY <2>2, <2>9
      <3>2. Len(p) = h + 1 /\ p[h + 1] = c /\ \A j \in 1..h : p[j] = z[j]
        BY <2>6, <3>1, AppendIs
      <3> HIDE DEF p, h
      <3>3. EndOf(line, m + 1, p)
        <4>1. h + 1 <= m + 1 /\ (m + 1) - (h + 1) = m - h  BY <2>1, <2>7
        <4>2. \A j \in 1..(h + 1) : p[j] = line[m - h + j]
          <5>1. p[h + 1] = line[m - h + (h + 1)]
            <6>1. m - h + (h + 1) = m + 1  BY <2>1, <2>7
            <6> QED  BY <3>2, <6>1 DEF c
          <5>2. \A j \in 1..(h + 1) : j = h + 1 \/ j \in 1..h  BY <2>7
          <5> QED  BY <2>7, <3>2, <5>1, <5>2
        <4>3. h + 1 < m + 1 => h < m  BY <2>1, <2>7
        <4> QED  BY <2>7, <3>2, <4>1, <4>2, <4>3 DEF EndOf
      <3>4. Len(new) = k /\ new[k] = p  BY <2>5, <2>9 DEF p
      <3>5. \A i \in 1..(k - 1) : Closed(new[i])  BY <2>3, <2>5
      <3>6. Good(m + 1)  BY <3>3, <3>4, <3>5 DEF new
      <3> QED  BY <2>1, <3>6 DEF n
    <2> QED  BY <2>8, <2>9
  <1> HIDE DEF A
  <1>6. 0..n \subseteq A  BY <1>1, <1>4, <1>5, SetInductionUpTo
  <1>7. \A m \in 0..n : Good(m)  BY <1>6 DEF A
  <1> QED  BY <1>7

LEMMA CleanEndsAt ==
    ASSUME NEW C, NEW q \in Seq(C), Solid(q) # {}, Last(q) # Space,
           NEW str \in Seq(C), NEW b, SolidUpTo(q, str, b)
    PROVE  /\ Min(Solid(q)) \in 1..Len(q)
           /\ IsSlice(C, str, Min(Solid(q)), b, CleanTrailingSpaces(str))
  <1> DEFINE l == Len(q)
             n == Len(str)
             a == Min(Solid(q))
             sq == Solid(q)
             ss == Solid(str)
             x == Min(ss)
             y == Max(ss)
             clean == CleanTrailingSpaces(str)
  <1>1. l \in Nat /\ n \in Nat  OBVIOUS
  <1>2. /\ a \in 1..l /\ q[a] # Space
        /\ \A i \in sq : a <= i  BY CleanIs
  <1>3. /\ \A i : i \in sq <=> i \in 1..l /\ q[i] # Space
        /\ \A i : i \in ss <=> i \in 1..n /\ str[i] # Space  BY DEF Solid
  <1>4. q[l] # Space  BY DEF Last
  <1>40. l >= 1
    <2> HIDE DEF l
    <2> QED  BY <1>1, <1>2
  <1>41. /\ b \in 1..n /\ b >= l
         /\ \A i \in 1..l : str[i] = q[i]
         /\ \A i \in (l + 1)..n : str[i] # Space => i = b
         /\ b > l => str[b] # Space  BY DEF SolidUpTo
  <1> HIDE DEF l, n, a, sq, ss
  <1>5. a \in 1..n /\ b \in ss /\ a \in ss
    <2>1. a \in 1..n /\ str[a] # Space  BY <1>1, <1>2, <1>41
    <2>2. b = l \/ b > l  BY <1>1, <1>41
    <2>3. l \in 1..l  BY <1>1, <1>40
    <2>4. str[b] # Space  BY <1>4, <1>41, <2>2, <2>3
    <2> QED  BY <1>3, <1>41, <2>1, <2>4
  <1>6. \A i \in ss : a <= i /\ i <= b
    <2> TAKE i \in ss
    <2>1. i \in 1..n /\ str[i] # Space  BY <1>3
    <2>2. CASE i <= l
      <3>1. i \in 1..l  BY <2>1, <2>2
      <3>2. i \in sq  BY <1>3, <1>41, <2>1, <3>1
      <3>3. a <= i  BY <1>2, <3>2
      <3> QED  BY <1>1, <1>41, <2>1, <2>2, <3>3
    <2>3. CASE ~(i <= l)
      <3>1. i \in (l + 1)..n  BY <1>1, <2>1, <2>3
      <3>2. i = b  BY <1>41, <2>1, <3>1
      <3> QED  BY <1>1, <1>2, <1>41, <3>2
    <2> QED  BY <2>2, <2>3
  <1>7. /\ x \in 1..n /\ y \in 1..n
        /\ \A i \in ss : x <= i /\ i <= y
        /\ str[x] # Space /\ str[y] # Space
        /\ clean \in Seq(C) /\ Len(clean) = y - x + 1
        /\ \A i \in 1..(y - x + 1) : clean[i] = str[x + i - 1]
    <2>1. Solid(str) # {}  BY <1>5 DEF ss
    <2> QED  BY <2>1, CleanIs DEF ss, n
  <1> HIDE DEF x, y, clean
  <1>8. x = a /\ y = b
    <2>1. x \in ss /\ y \in ss  BY <1>3, <1>7
    <2>2. a <= x /\ x <= a /\ y <= b /\ b <= y  BY <1>5, <1>6, <1>7, <2>1
    <2> QED  BY <1>1, <1>5, <1>7, <1>41, <2>2
  <1>9. IsSlice(C, str, a, b, clean)  BY <1>7, <1>8 DEF IsSlice
  <1> QED  BY <1>2, <1>9 DEF a, l, clean, sq

LEMMA CleanClosed ==
    ASSUME NEW C, NEW piece \in Seq(C), "&" \in C, Space \in C, Closed(piece)
    PROVE  LET clean == CleanTrailingSpaces(piece)
               given == CleanTrailingSpaces(Append(piece, "&"))
           IN  /\ Blank(piece) => given = Amp
               /\ ~Blank(piece) => given = Append(Append(clean, Space), "&")
  <1> DEFINE h == Len(piece)
             k == h - 1
             q == SubSeq(piece, 1, k)
             str == Append(piece, "&")
             clean == CleanTrailingSpaces(piece)
             given == CleanTrailingSpaces(str)
  <1>1. h \in Nat  OBVIOUS
  <1>2. h >= 1 /\ piece[h] = Space /\ (h > 1 => piece[h - 1] # Space)
    BY DEF Closed
  <1>3. str \in Seq(C) /\ Len(str) = h + 1 /\ str[h + 1] = "&"
        /\ \A i \in 1..h : str[i] = piece[i]  BY AppendIs
  <1>4. \A i : i \in Solid(piece) <=> i \in 1..h /\ piece[i] # Space
    BY DEF Solid
  <1>5. Blank(piece) <=> Solid(piece) = {}  BY BlankIs
  <1>6. CASE h = 1
    <2>1. Blank(piece)
      <3> HIDE DEF h
      <3>1. \A i \in 1..h : i = h  BY <1>6
      <3> QED  BY <1>2, <1>4, <1>5, <3>1
    <2> DEFINE x == Min(Solid(str))
               y == Max(Solid(str))
    <2>2. Solid(str) = {2}
      <3>1. \A i : i \in Solid(str) <=> i \in 1..(h + 1) /\ str[i] # Space
        BY <1>3 DEF Solid
      <3> HIDE DEF str, h
      <3>2. 1 \in 1..h /\ h + 1 = 2 /\ \A i \in 1..2 : i = 1 \/ i = 2  BY <1>6
      <3>3. str[1] = Space /\ str[2] = "&"  BY <1>2, <1>3, <1>6, <3>2
      <3>4. 1 \in 1..2 /\ 2 \in 1..2  OBVIOUS
      <3> QED  BY <3>1, <3>2, <3>3, <3>4, SpaceIsNoAmp
    <2>3. /\ x \in Solid(str) /\ y \in 1..Len(str) /\ str[y] # Space
          /\ given \in Seq(C) /\ Len(given) = y - x + 1
          /\ \A i \in 1..(y - x + 1) : given[i] = str[x + i - 1]
      <3>1. Solid(str) # {}  BY <2>2
      <3>2. /\ x \in 1..Len(str) /\ str[x] # Space /\ y \in 1..Len(str) /\ str[y] # Space
            /\ given \in Seq(C) /\ Len(given) = y - x + 1
            /\ \A i \in 1..(y - x + 1) : given[i] = str[x + i - 1]
        BY <1>3, <3>1, CleanIs
      <3> HIDE DEF x, y, given, str
      <3>3. x \in Solid(str)  BY <3>2 DEF Solid
      <3> QED  BY <3>2, <3>3
    <2>4. y \in Solid(str)  BY <2>3 DEF Solid
    <2> HIDE DEF x, y, given, str
    <2>5. x = 2 /\ y = 2  BY <2>2, <2>3, <2>4
    <2>6. given \in Seq(C) /\ Len(given) = 1 /\ given[1] = str[2]
      <3>1. y - x + 1 = 1 /\ 1 \in 1..1 /\ x + 1 - 1 = 2  BY <2>5
      <3> QED  BY <2>3, <3>1
    <2>7. str[2] = "&"  BY <1>3, <1>6
    <2>8. given = Amp
      <3>1. Amp = <<"&">>  BY DEF Amp
      <3> QED  BY <2>6, <2>7, <3>1
    <2> QED  BY <2>1, <2>8 DEF given, str
  <1>7. CASE h > 1
    <2>1. k \in Nat /\ k >= 1 /\ k <= h /\ k + 1 = h /\ h + 1 = k + 2
      <3> HIDE DEF h
      <3> QED  BY <1>1, <1>7
    <2>2. /\ q \in Seq(C) /\ Len(q) = k
          /\ \A i \in 1..k : q[i] = piece[i]
      <3> HIDE DEF k
      <3>1. /\ SubSeq(piece, 1, k) \in Seq(C)
            /\ Len(SubSeq(piece, 1, k)) = IF 1 <= k THEN k - 1 + 1 ELSE 0
            /\ \A i \in 1..(k - 1 + 1) : SubSeq(piece, 1, k)[i] = piece[1 + i - 1]
        BY <2>1, SubSeqIs
      <3> HIDE DEF q, h
      <3>2. k - 1 + 1 = k /\ \A i \in 1..k : 1 + i - 1 = i  BY <2>1
      <3> QED  BY <2>1, <3>1, <3>2 DEF q
    <2> HIDE DEF q, k, h, str
    <2> DEFINE a == Min(Solid(q))
    <2>3. piece[k] # Space /\ k \in 1..k
      <3>1. h - 1 = k  BY DEF k
      <3> QED  BY <1>2, <1>7, <2>1, <3>1
    <2>4. Last(q) # Space /\ Solid(q) # {}
      <3>1. q[k] # Space  BY <2>2, <2>3
      <3>2. k \in Solid(q)  BY <2>2, <2>3, <3>1 DEF Solid
      <3> QED  BY <2>2, <3>1, <3>2 DEF Last
    <2>5. ~Blank(piece)
      <3>1. k \in 1..h  BY <2>1
      <3> QED  BY <1>4, <1>5, <2>3, <3>1
    <2>6. /\ a \in 1..k
          /\ clean \in Seq(C) /\ Len(clean) = k - a + 1
          /\ \A i \in 1..(k - a + 1) : clean[i] = piece[a + i - 1]
      <3>0. Len(piece) = h  BY DEF h
      <3>1. /\ k \in 1..Len(piece) /\ k >= Len(q)
            /\ \A i \in 1..Len(q) : piece[i] = q[i]
            /\ \A i \in (Len(q) + 1)..Len(piece) : piece[i] # Space => i = k
            /\ ~(k > Len(q))
        <4>1. \A i \in (k + 1)..h : i = h  BY <2>1
        <4>2. k \in 1..h  BY <2>1
        <4> QED  BY <1>2, <2>1, <2>2, <3>0, <4>1, <4>2
      <3>2. SolidUpTo(q, piece, k)  BY <3>1 DEF SolidUpTo
      <3>3. a \in 1..Len(q) /\ IsSlice(C, piece, a, k, clean)
        BY <2>2, <2>4, <3>2, CleanEndsAt
      <3> HIDE DEF a, clean
      <3> QED  BY <2>2, <3>3 DEF IsSlice
    <2> DEFINE b == k + 2
    <2>7. /\ given \in Seq(C) /\ Len(given) = b - a + 1
          /\ \A i \in 1..(b - a + 1) : given[i] = str[a + i - 1]
      <3>1. /\ b \in 1..Len(str) /\ b >= Len(q)
            /\ \A i \in 1..Len(q) : str[i] = q[i]
            /\ \A i \in (Len(q) + 1)..Len(str) : str[i] # Space => i = b
            /\ str[b] # Space
        <4>1. Len(str) = b /\ b \in 1..b /\ b >= k  BY <1>3, <2>1
        <4>2. \A i \in 1..k : i \in 1..h  BY <2>1
        <4>3. \A i \in (k + 1)..b : i = h \/ i = b  BY <2>1
        <4>4. h \in 1..h /\ str[b] = "&"  BY <1>3, <2>1
        <4>5. str[h] = Space  BY <1>2, <1>3, <4>4
        <4> QED  BY <1>3, <2>2, <4>1, <4>2, <4>3, <4>4, <4>5, SpaceIsNoAmp
      <3> HIDE DEF b
      <3>2. SolidUpTo(q, str, b)  BY <3>1 DEF SolidUpTo
      <3>3. IsSlice(C, str, a, b, given)
        BY <1>3, <2>2, <2>4, <3>2, CleanEndsAt
      <3> QED  BY <3>3 DEF IsSlice
    <2> HIDE DEF a, clean, given
    <2> DEFINE l == k - a + 1
               c1 == Append(clean, Space)
               c2 == Append(c1, "&")
    <2>8. l \in Nat /\ b - a + 1 = (l + 1) + 1 /\ a \in Nat  BY <2>1, <2>6
    <2>9. Len(clean) = l  BY <2>6
    <2> HIDE DEF l
    <2>10. c1 \in Seq(C) /\ Len(c1) = l + 1 /\ c1[l + 1] = Space
           /\ \A i \in 1..l : c1[i] = clean[i]  BY <2>6, <2>9, AppendIs
    <2> HIDE DEF c1
    <2>11. c2 \in Seq(C) /\ Len(c2) = (l + 1) + 1 /\ c2[(l + 1) + 1] = "&"
           /\ \A i \in 1..(l + 1) : c2[i] = c1[i]  BY <2>10, AppendIs
    <2> HIDE DEF c2, b
    <2>12. /\ \A i \in 1..l : i \in 1..((l + 1) + 1) /\ a + i - 1 \in 1..k /\ a + i - 1 \in 1..h
           /\ a + (l + 1) - 1 = h /\ a + ((l + 1) + 1) - 1 = h + 1
           /\ h \in 1..h /\ l + 1 \in 1..(l + 1)
           /\ l + 1 \in 1..((l + 1) + 1) /\ (l + 1) + 1 \in 1..((l + 1) + 1)
           /\ \A i \in 1..((l + 1) + 1) : i \in 1..l \/ i = l + 1 \/ i = (l + 1) + 1
           /\ \A i \in 1..l : i \in 1..(l + 1)  BY <2>1, <2>6, <2>8 DEF l
    <2>13. \A i \in 1..l : given[i] = c2[i]
      <3> TAKE i \in 1..l
      <3>1. given[i] = str[a + i - 1] /\ str[a + i - 1] = piece[a + i - 1]
        BY <1>3, <2>7, <2>8, <2>12
      <3>2. clean[i] = piece[a + i - 1]  BY <2>6 DEF l
      <3> QED  BY <2>10, <2>11, <2>12, <3>1, <3>2
    <2>14. given[l + 1] = c2[l + 1]
      <3>1. given[l + 1] = str[h] /\ str[h] = piece[h]
        BY <1>3, <2>7, <2>8, <2>12
      <3> QED  BY <1>2, <2>10, <2>11, <2>12, <3>1
    <2>15. given[(l + 1) + 1] = c2[(l + 1) + 1]
      <3>1. given[(l + 1) + 1] = str[h + 1]  BY <2>7, <2>8, <2>12
      <3> QED  BY <1>3, <2>11, <3>1
    <2>16. \A i \in 1..((l + 1) + 1) : given[i] = c2[i]
      BY <2>12, <2>13, <2>14, <2>15
    <2>17. given = c2  BY <2>7, <2>8, <2>11, <2>16, EqualSeqs
    <2> QED  BY <2>5, <2>17 DEF c2, c1, given, str, clean
  <1>8. h = 1 \/ h > 1
    <2> HIDE DEF h
    <2> QED  BY <1>1, <1>2
  <1> QED  BY <1>6, <1>7, <1>8

LEMMA TidyIs ==
    ASSUME NEW R, NEW words \in Seq(R), Tidy(words)
    PROVE  Tidied(R, words)
  <1>1. DOMAIN words = 1..Len(words)  OBVIOUS
  <1>2. SymbolsOf(words) = {i \in 1..Len(words) : words[i] \in Three}
    BY <1>1, ThreeAre DEF SymbolsOf
  <1>3. /\ \A i \in DOMAIN words : words[i] # <<>>
        /\ \A i \in SymbolsOf(words) : i + 1 \in DOMAIN words \ SymbolsOf(words)
    BY DEF Tidy
  <1> QED  BY <1>1, <1>2, <1>3 DEF Tidied

LEMMA TidiedWithout ==
    ASSUME NEW R, NEW words, Tidied(R, words), NEW rest \in Seq(R),
           NEW m \in 1..(Len(words) - 1), words[m] \in Three,
           Without(words, m, rest)
    PROVE  Tidied(R, rest)
  <1> DEFINE n == Len(words)
             k == Len(rest)
  <1>1. /\ n \in Nat
        /\ \A i \in 1..n : /\ words[i] # <<>>
                           /\ words[i] \in Three =>
                                 i + 1 \in 1..n /\ words[i + 1] \notin Three
    BY DEF Tidied
  <1>2. /\ k = n - 2
        /\ \A i \in 1..(m - 1) : rest[i] = words[i]
        /\ \A i \in m..(n - 2) : rest[i] = words[i + 2]  BY DEF Without
  <1>3. m \in 1..(n - 1)  OBVIOUS
  <1> HIDE DEF n, k
  <1>4. m \in Nat /\ m >= 1 /\ m <= n - 1 /\ k \in Nat /\ k = n - 2 /\ m \in 1..n
    BY <1>1, <1>2, <1>3
  <1>5. ASSUME NEW i \in 1..k
        PROVE  /\ rest[i] # <<>>
               /\ rest[i] \in Three => i + 1 \in 1..k /\ rest[i + 1] \notin Three
    <2>1. CASE i <= m - 2
      <3>1. i \in 1..(m - 1) /\ i + 1 \in 1..(m - 1) /\ i \in 1..n /\ i + 1 \in 1..k
        BY <1>1, <1>4, <2>1
      <3> QED  BY <1>1, <1>2, <3>1
    <2>2. CASE i = m - 1
      <3>1. i \in 1..(m - 1) /\ i \in 1..n /\ i + 1 = m  BY <1>1, <1>4, <2>2
      <3>2. words[i] \notin Three  BY <1>1, <3>1
      <3> QED  BY <1>1, <1>2, <3>1, <3>2
    <2>3. CASE i >= m
      <3>1. i \in m..(n - 2) /\ i + 2 \in 1..n /\ (i + 2) + 1 = (i + 1) + 2
        BY <1>1, <1>4, <2>3
      <3>2. rest[i] = words[i + 2]  BY <1>2, <3>1
      <3>3. rest[i] \in Three => (i + 2) + 1 \in 1..n /\ words[(i + 2) + 1] \notin Three
        BY <1>1, <3>1, <3>2
      <3>4. (i + 2) + 1 \in 1..n => i + 1 \in m..(n - 2) /\ i + 1 \in 1..k
        BY <1>1, <1>4, <2>3
      <3> QED  BY <1>1, <1>2, <3>1, <3>2, <3>3, <3>4
    <2>4. i <= m - 2 \/ i = m - 1 \/ i >= m  BY <1>4
    <2> QED  BY <2>1, <2>2, <2>3, <2>4
  <1> QED  BY <1>5 DEF Tidied, k

LEMMA TrailingNext ==
    ASSUME NEW R, <<>> \in R, NEW parse, NEW other, Trailing(R, parse, other),
           NEW s \in Three
    PROVE  Trailing(R, CheckAndInterpretRedirect(parse, s),
                       CheckAndInterpretRedirect(other, s))
  <1> DEFINE w == parse.tokens
             v == other.tokens
             n == Len(w)
             at == At(w, s)
             m == Min(at)
             new == CheckAndInterpretRedirect(parse, s)
             also == CheckAndInterpretRedirect(other, s)
             e == <<>>
  <1>1. /\ IsParse(R, parse) /\ IsParse(R, other) /\ parse.ok /\ other.ok
        /\ Tidied(R, w) /\ v = Append(w, e)
        /\ other.in = parse.in /\ other.out = parse.out  BY DEF Trailing
  <1>2. IsParse(R, new) /\ Redirects(parse, s, new)  BY <1>1, RedirectIs
  <1>3. IsParse(R, also) /\ Redirects(other, s, also)  BY <1>1, RedirectIs
  <1>4. w \in Seq(R) /\ n \in Nat  BY <1>1 DEF IsParse
  <1>5. e \in R /\ e # s  BY ThreeAre DEF Three
  <1> HIDE DEF new, also, e
  <1>6. /\ v \in Seq(R) /\ Len(v) = n + 1 /\ v[n + 1] = e
        /\ \A i \in 1..n : v[i] = w[i]
    <2> HIDE DEF w
    <2> QED  BY <1>1, <1>4, <1>5, AppendIs
  <1> HIDE DEF w, v, n
  <1>7. at = {i \in 1..n : w[i] = s} /\ At(v, s) = {i \in 1..(n + 1) : v[i] = s}
    BY <1>6 DEF At, n
  <1>8. At(v, s) = at
    <2>1. \A i \in 1..(n + 1) : i \in 1..n \/ i = n + 1  BY <1>4
    <2>2. \A i \in 1..n : i \in 1..(n + 1)  BY <1>4
    <2> HIDE DEF at
    <2> QED  BY <1>5, <1>6, <1>7, <2>1, <2>2
  <1> HIDE DEF at
  <1>9. CASE at = {}
    <2>1. new = parse  BY <1>2, <1>9 DEF Redirects, at, w
    <2>2. also = other  BY <1>3, <1>8, <1>9 DEF Redirects, v
    <2> QED  BY <2>1, <2>2 DEF new, also
  <1>10. CASE at # {}
    <2>1. m \in at /\ \A i \in at : m <= i
      BY <1>1, <1>2, <1>10, Zenon DEF Redirects, at, w
    <2> HIDE DEF m
    <2>2. m \in 1..n /\ w[m] = s  BY <1>7, <2>1
    <2>3. m + 1 \in 1..n /\ m \in 1..(n - 1) /\ m # n /\ m # n + 1 /\ m \in Nat
      <3>1. m + 1 \in 1..n  BY <1>1, <2>2 DEF Tidied, n
      <3> QED  BY <1>4, <2>2, <3>1
    <2>4. /\ new.ok /\ Without(w, m, new.tokens)
          /\ new.in = IF s = <<"<">> /\ parse.in = <<>> THEN <<s, w[m + 1]>> ELSE parse.in
          /\ new.out = IF s # <<"<">> /\ parse.out = <<>> THEN <<s, w[m + 1]>> ELSE parse.out
      BY <1>1, <1>2, <1>10, <2>3, Zenon DEF Redirects, m, at, n, w
    <2>5. /\ also.ok /\ Without(v, m, also.tokens)
          /\ also.in = IF s = <<"<">> /\ other.in = <<>> THEN <<s, v[m + 1]>> ELSE other.in
          /\ also.out = IF s # <<"<">> /\ other.out = <<>> THEN <<s, v[m + 1]>> ELSE other.out
      <3>1. Min(At(v, s)) = m /\ At(v, s) # {} /\ m # Len(v)
        BY <1>6, <1>8, <1>10, <2>3 DEF m
      <3> QED  BY <1>1, <1>3, <3>1, Zenon DEF Redirects, v
    <2>6. v[m + 1] = w[m + 1]  BY <1>6, <2>3
    <2>7. also.in = new.in /\ also.out = new.out
      BY <1>1, <2>4, <2>5, <2>6, Zenon
    <2> DEFINE a == new.tokens
               b == also.tokens
               k == Len(a)
               z == Append(a, e)
    <2>8. a \in Seq(R) /\ b \in Seq(R)  BY <1>2, <1>3 DEF IsParse
    <2>9. Tidied(R, a)
      <3>1. m \in 1..(Len(w) - 1) /\ w[m] \in Three  BY <2>2, <2>3 DEF n
      <3> HIDE DEF a
      <3> QED  BY <1>1, <2>4, <2>8, <3>1, TidiedWithout DEF a
    <2>10. /\ k = n - 2
           /\ \A i \in 1..(m - 1) : a[i] = w[i]
           /\ \A i \in m..(n - 2) : a[i] = w[i + 2]  BY <2>4 DEF Without, n
    <2>11. /\ Len(b) = (n + 1) - 2
           /\ \A i \in 1..(m - 1) : b[i] = v[i]
           /\ \A i \in m..((n + 1) - 2) : b[i] = v[i + 2]
      BY <1>6, <2>5 DEF Without
    <2> HIDE DEF a, b
    <2>12. z \in Seq(R) /\ Len(z) = k + 1 /\ z[k + 1] = e /\ \A i \in 1..k : z[i] = a[i]
      BY <1>5, <2>8, AppendIs
    <2> HIDE DEF z, k
    <2>13. Len(b) = Len(z) /\ Len(b) = n - 1  BY <1>4, <2>10, <2>11, <2>12
    <2>14. ASSUME NEW i \in 1..(n - 1) PROVE b[i] = z[i]
      <3>1. CASE i < m
        <4>1. i \in 1..(m - 1) /\ i \in 1..n /\ i \in 1..k
          BY <1>4, <2>3, <2>10, <3>1
        <4> QED  BY <1>6, <2>10, <2>11, <2>12, <4>1
      <3>2. CASE ~(i < m) /\ i # n - 1
        <4>1. i \in m..(n - 2) /\ i \in m..((n + 1) - 2) /\ i + 2 \in 1..n /\ i \in 1..k
          BY <1>4, <2>3, <2>10, <3>2
        <4> QED  BY <1>6, <2>10, <2>11, <2>12, <4>1
      <3>3. CASE i = n - 1
        <4>1. i \in m..((n + 1) - 2) /\ i + 2 = n + 1 /\ i = k + 1
          BY <1>4, <2>3, <2>10, <3>3
        <4> QED  BY <1>6, <2>11, <2>12, <4>1
      <3> QED  BY <3>1, <3>2, <3>3
    <2>15. b = z
      <3>1. \A i \in 1..Len(b) : b[i] = z[i]  BY <2>13, <2>14
      <3> QED  BY <2>8, <2>12, <2>13, <3>1, EqualSeqs
    <2> QED  BY <1>2, <1>3, <2>4, <2>5, <2>7, <2>9, <2>15
             DEF Trailing, a, b, z, e, new, also
  <1> QED  BY <1>9, <1>10

LEMMA TrailingAll ==
    ASSUME NEW R, <<>> \in R, NEW words, Tidied(R, words)
    PROVE  Trailing(R, Redirected(words), Redirected(Append(words, <<>>)))
  <1> DEFINE e == <<>>
             also == Append(words, e)
             zero(t) == Unredirected(t)
             one(t) == CheckAndInterpretRedirect(zero(t), Lt)
             two(t) == CheckAndInterpretRedirect(one(t), Gt)
             three(t) == CheckAndInterpretRedirect(two(t), GtGt)
  <1>1. \A t : Redirected(t) = three(t)  BY RedirectedIs DEF Lt, Gt, GtGt
  <1>2. words \in Seq(R) /\ also \in Seq(R)
    <2>1. words \in Seq(R)  BY DEF Tidied
    <2> QED  BY <2>1, AppendIs
  <1>3. Trailing(R, zero(words), zero(also))
    <2>1. \A t : /\ zero(t).tokens = t /\ zero(t).ok = TRUE
                 /\ zero(t).in = e /\ zero(t).out = e
                 /\ zero(t) = [tokens |-> zero(t).tokens, in |-> zero(t).in,
                               out |-> zero(t).out, ok |-> zero(t).ok]
      BY DEF Unredirected
    <2> HIDE DEF zero, also
    <2>2. IsParse(R, zero(words)) /\ IsParse(R, zero(also))
      BY <1>2, <2>1 DEF IsParse
    <2>3. also = Append(words, <<>>)  BY DEF also, e
    <2> QED  BY <2>1, <2>2, <2>3 DEF Trailing
  <1>4. Lt \in Three /\ Gt \in Three /\ GtGt \in Three  BY DEF Three
  <1> HIDE DEF zero, also
  <1>5. Trailing(R, one(words), one(also))  BY <1>3, <1>4, TrailingNext
  <1> HIDE DEF one
  <1>6. Trailing(R, two(words), two(also))  BY <1>4, <1>5, TrailingNext
  <1> HIDE DEF two
  <1>7. Trailing(R, three(words), three(also))  BY <1>4, <1>6, TrailingNext
  <1> HIDE DEF three
  <1> QED  BY <1>1, <1>7 DEF also

(* The words of a command with a blank before its &.                       *)
LEMMA SpacedWords ==
    ASSUME NEW piece \in Seq(Chars \ {"&"}), ~Blank(piece)
    PROVE  LET command == Append(Append(CleanTrailingSpaces(piece), Space), "&")
               tokens == GetLines(command, Space)
           IN  /\ command \in Seq(Chars) /\ command # <<>>
               /\ Head(command) = Head(CleanTrailingSpaces(piece))
               /\ Bare(tokens) = Append(Words(piece), <<>>)
               /\ Last(Last(tokens)) = "&"
  <1> DEFINE S == Chars \ {"&"}
             clean == CleanTrailingSpaces(piece)
             words == Words(piece)
             text == Append(clean, Space)
             command == Append(text, "&")
             tokens == GetLines(command, Space)
             W == Seq(Chars)
             e == <<>>
             w1 == Append(words, e)
  <1>1. clean \in Seq(S) /\ clean # <<>>
    <2>1. <<>> \in {<<>>, Amp}  OBVIOUS
    <2> QED  BY <2>1, TypedPieceIs
  <1>2. /\ words = Split(clean, Space, Len(clean)) /\ IsSplit(S, Space, words)
    BY <1>1, WordsAre
  <1>3. "&" \in Chars /\ Space \in Chars /\ "&" # Space
    BY SpaceIsNoAmp DEF Chars
  <1>4. clean \in Seq(Chars)
    <2>1. S \subseteq Chars  OBVIOUS
    <2> HIDE DEF clean, S
    <2> QED  BY <1>1, <2>1, WiderSeq
  <1>5. words \in Seq(W)
    <2>1. words \in Seq(Seq(S \ {Space}))  BY <1>2 DEF IsSplit
    <2>2. Seq(S \ {Space}) \subseteq W  BY WiderSeq
    <2> HIDE DEF words, W, S
    <2> QED  BY <2>1, <2>2, WiderSeq
  <1>6. e \in W  OBVIOUS
  <1> HIDE DEF clean, words, S, W
  <1>7. text \in Seq(Chars) /\ text # <<>> /\ (\A i \in 1..Len(clean) : text[i] = clean[i])
        /\ Split(text, Space, Len(text)) = AddChar(Space, words, Space)
    <2>1. Split(Append(clean, Space), Space, Len(Append(clean, Space))) =
             AddChar(Space, Split(clean, Space, Len(clean)), Space)
      BY <1>3, <1>4, SplitAppend
    <2> QED  BY <1>2, <1>3, <1>4, <2>1, AppendIs
  <1> HIDE DEF text
  <1>8. command \in Seq(Chars) /\ command # <<>> /\ Ends(command, "&")
        /\ (\A i \in 1..Len(text) : command[i] = text[i])
        /\ Split(command, Space, Len(command)) = AddChar(Space, AddChar(Space, words, Space), "&")
    <2>1. Split(Append(text, "&"), Space, Len(Append(text, "&"))) =
             AddChar(Space, Split(text, Space, Len(text)), "&")
      BY <1>3, <1>7, SplitAppend
    <2>2. Ends(command, "&")  BY <1>3, <1>7, AppendBegins
    <2> QED  BY <1>3, <1>7, <2>1, <2>2, AppendIs
  <1> HIDE DEF command
  <1>9. tokens = AddChar(Space, AddChar(Space, words, Space), "&")
    <2>1. Last(command) # Space  BY <1>3, <1>8 DEF Ends
    <2> QED  BY <1>8, <2>1, GetLinesOfSome
  <1> HIDE DEF tokens
  <1> DEFINE a == Append(e, "&")
  <1>10. w1 \in Seq(W) /\ Front(w1) = words /\ Last(w1) = e
    <2> HIDE DEF e
    <2> QED  BY <1>5, <1>6, FrontLast, AppendIs
  <1>11. a \in W /\ Front(a) = e /\ Last(a) = "&"
    <2>1. e \in Seq(Chars)  BY <1>6 DEF W
    <2> HIDE DEF e
    <2>2. Front(a) = e /\ Last(a) = "&"  BY <1>3, <2>1, FrontLast
    <2>3. a \in Seq(Chars)  BY <1>3, <2>1, AppendIs
    <2> QED  BY <2>2, <2>3 DEF W
  <1>12. tokens = Append(words, a)
    <2>1. AddChar(Space, words, Space) = w1  BY DEF AddChar
    <2>2. AddChar(Space, w1, "&") = Append(Front(w1), Append(Last(w1), "&"))
      BY <1>3, Zenon DEF AddChar
    <2> HIDE DEF w1
    <2> QED  BY <1>9, <1>10, <2>1, <2>2
  <1> HIDE DEF a
  <1>13. Front(tokens) = words /\ Last(tokens) = a
    BY <1>5, <1>11, <1>12, FrontLast
  <1>14. Bare(tokens) = w1  BY <1>11, <1>13, Zenon DEF Bare
  <1>15. Head(command) = Head(clean)
    <2>1. 1 \in 1..Len(clean) /\ Head(clean) = clean[1]
      BY <1>1, <1>4, EmptySeq
    <2>2. 1 \in 1..Len(text)  BY <1>7, EmptySeq
    <2>3. command[1] = clean[1]  BY <1>7, <1>8, <2>1, <2>2
    <2> QED  BY <1>8, <2>1, <2>3
  <1> QED  BY <1>8, <1>11, <1>13, <1>14, <1>15 DEF command, text, clean, words, tokens

LEMMA SpacedCommand ==
    ASSUME NEW piece \in Seq(Chars \ {"&"}), ~Blank(piece), Tidy(Words(piece))
    PROVE  Outcome(Append(Append(CleanTrailingSpaces(piece), Space), "&")) =
              Outcome(TypedPiece(piece, Amp))
  <1> DEFINE clean == CleanTrailingSpaces(piece)
             typed == TypedPiece(piece, Amp)
             batch == Append(Append(clean, Space), "&")
             words == Words(piece)
             R == Seq((Chars \ {"&"}) \ {Space})
             e == <<>>
             p == Redirected(words)
             q == Redirected(Append(words, e))
  <1>1. Amp \in {<<>>, Amp}  OBVIOUS
  <1>2. typed \in Seq(Chars) /\ Begins(typed, Head(clean))
    BY <1>1, TypedPieceIs
  <1>3. LET tokens == GetLines(typed, Space)
        IN  Bare(tokens) = words /\ (Last(Last(tokens)) = "&" <=> Amp = Amp)
    BY <1>1, TypedWords
  <1>4. /\ batch \in Seq(Chars) /\ batch # <<>> /\ Head(batch) = Head(clean)
        /\ Bare(GetLines(batch, Space)) = Append(words, e)
        /\ Last(Last(GetLines(batch, Space))) = "&"  BY SpacedWords
  <1>5. typed # <<>> /\ Head(typed) = Head(clean)
    <2> HIDE DEF typed, clean
    <2>1. typed # <<>> /\ typed[1] = Head(clean)  BY <1>2 DEF Begins
    <2> QED  BY <1>2, <2>1
  <1>6. /\ InterpretCommand(typed) =
              IF ~p.ok THEN [do |-> "malformed"]
              ELSE [do |-> "run", cmd |-> Head(p.tokens),
                    args |-> Arguments(Tail(p.tokens)), in |-> p.in, out |-> p.out,
                    bg |-> Last(Last(GetLines(typed, Space))) = "&"]
        /\ InterpretCommand(batch) =
              IF ~q.ok THEN [do |-> "malformed"]
              ELSE [do |-> "run", cmd |-> Head(q.tokens),
                    args |-> Arguments(Tail(q.tokens)), in |-> q.in, out |-> q.out,
                    bg |-> Last(Last(GetLines(batch, Space))) = "&"]
    <2>1. \A c : InterpretCommand(c) =
             LET r == Redirected(Bare(GetLines(c, Space)))
             IN  IF ~r.ok THEN [do |-> "malformed"]
                 ELSE [do |-> "run", cmd |-> Head(r.tokens),
                       args |-> Arguments(Tail(r.tokens)), in |-> r.in, out |-> r.out,
                       bg |-> Last(Last(GetLines(c, Space))) = "&"]
      BY InterpretCommandIs
    <2> QED  BY <1>3, <1>4, <2>1, Zenon
  <1>7. (Last(Last(GetLines(typed, Space))) = "&") = (Last(Last(GetLines(batch, Space))) = "&")
    BY <1>3, <1>4
  <1> DEFINE starts == Head(clean) \notin Symbol
  <1>8. \A c : Outcome(c) = IF c = <<>> THEN [do |-> "abort"]
                            ELSE IF Head(c) \in Symbol THEN [do |-> "symbol"]
                            ELSE InterpretCommand(c)  BY DEF Outcome, Symbol
  <1>9. CASE ~starts
    <2> HIDE DEF typed, batch
    <2>1. Outcome(typed) = [do |-> "symbol"]  BY <1>5, <1>8, <1>9, Zenon
    <2>2. Outcome(batch) = [do |-> "symbol"]  BY <1>4, <1>8, <1>9, Zenon
    <2> QED  BY <2>1, <2>2 DEF typed, batch, clean
  <1>10. CASE starts
    <2>1. StartsCommand(piece)  BY <1>10 DEF StartsCommand, Symbol
    <2>2. words \in Seq(R) /\ Len(words) >= 1 /\ words # <<>> /\ words[1] \notin Three
      BY <2>1, WordsBegin
    <2>3. Tidied(R, words)  BY <2>2, TidyIs
    <2>4. e \in R  OBVIOUS
    <2>5. Trailing(R, p, q)  BY <2>3, <2>4, TrailingAll
    <2>6. StartsWith(R, p, words[1])
      BY <2>2, RedirectedStartsWith DEF Three, Lt, Gt, GtGt
    <2> HIDE DEF typed, batch, clean, words, p, q, R, e
    <2> DEFINE t == p.tokens
               u == q.tokens
               h == Tail(t)
    <2>7. /\ p.ok /\ q.ok /\ u = Append(t, e) /\ q.in = p.in /\ q.out = p.out
          /\ t \in Seq(R) /\ t # <<>> /\ \A i \in 1..Len(t) : t[i] # e
      BY <2>5, <2>6 DEF Trailing, Tidied, IsParse, StartsWith, e
    <2> HIDE DEF t, u
    <2>8. /\ Head(u) = Head(t) /\ Tail(u) = Append(h, e) /\ h \in Seq(R)
          /\ \A i \in 1..Len(h) : h[i] # e
      <3>1. Head(u) = Head(t) /\ Tail(u) = Append(h, e)
        BY <2>4, <2>7, HeadTailAppend
      <3>2. h \in Seq(R) /\ Len(h) = Len(t) - 1  BY <2>7
      <3>3. Len(t) \in Nat /\ Len(t) >= 1  BY <2>7, EmptySeq
      <3>4. \A i \in 1..Len(h) : h[i] = t[i + 1] /\ i + 1 \in 1..Len(t)
        BY <2>7, <3>2, <3>3
      <3> QED  BY <2>7, <3>1, <3>2, <3>4
    <2> HIDE DEF h
    <2>9. Arguments(h) = h
      <3>1. h # <<>> => Last(h) # e
        <4> SUFFICES ASSUME h # <<>> PROVE Last(h) # e  OBVIOUS
        <4>1. Len(h) \in Nat /\ Len(h) >= 1 /\ Last(h) = h[Len(h)]
          BY <2>8, FrontIs
        <4> QED  BY <2>8, <4>1
      <3> QED  BY <3>1, Zenon DEF Arguments, e
    <2>10. Arguments(Append(h, e)) = h
      <3>1. Front(Append(h, e)) = h /\ Last(Append(h, e)) = e
        BY <2>4, <2>8, FrontLast
      <3>2. Append(h, e) # <<>>  BY <2>4, <2>8, AppendIs
      <3> QED  BY <3>1, <3>2, Zenon DEF Arguments, e
    <2>11. InterpretCommand(typed) = InterpretCommand(batch)
      <3>1. Arguments(Tail(t)) = Arguments(Tail(u)) /\ Head(t) = Head(u)
        BY <2>8, <2>9, <2>10 DEF h
      <3> QED  BY <1>6, <1>7, <2>7, <3>1, Zenon DEF t, u
    <2>12. Outcome(typed) = InterpretCommand(typed)
      BY <1>5, <1>8, <1>10, Zenon
    <2>13. Outcome(batch) = InterpretCommand(batch)
      BY <1>4, <1>8, <1>10, Zenon
    <2> QED  BY <2>11, <2>12, <2>13 DEF typed, batch, clean
  <1> QED  BY <1>9, <1>10

(* A piece of the line, typed and read from a batch file.                   *)
LEMMA ClosedPiece ==
    ASSUME NEW piece \in Seq(Chars \ {"&"}), Closed(piece), Tidy(Words(piece))
    PROVE  /\ Last(piece) = Space
           /\ Outcome(TypedPiece(piece, Amp)) =
                 Outcome(CleanTrailingSpaces(Append(piece, "&")))
  <1> DEFINE given == CleanTrailingSpaces(Append(piece, "&"))
             clean == CleanTrailingSpaces(piece)
  <1>1. Last(piece) = Space  BY DEF Closed, Last
  <1>2. piece \in Seq(Chars) /\ "&" \in Chars /\ Space \in Chars
    <2>1. Chars \ {"&"} \subseteq Chars  OBVIOUS
    <2>2. "&" \in Chars /\ Space \in Chars  BY DEF Chars
    <2>3. piece \in Seq(Chars)  BY <2>1, WiderSeq
    <2> QED  BY <2>2, <2>3
  <1>3. /\ Blank(piece) => given = Amp
        /\ ~Blank(piece) => given = Append(Append(clean, Space), "&")
    BY <1>2, CleanClosed
  <1>4. CASE Blank(piece)
    <2>1. Amp \in {<<>>, Amp}  OBVIOUS
    <2>2. TypedPiece(piece, Amp) = Amp  BY <1>4, <2>1, TypedPieceIs
    <2> QED  BY <1>1, <1>3, <1>4, <2>2
  <1>5. CASE ~Blank(piece)
    <2>1. Outcome(Append(Append(clean, Space), "&")) = Outcome(TypedPiece(piece, Amp))
      BY <1>5, SpacedCommand
    <2>2. given = Append(Append(clean, Space), "&")  BY <1>3, <1>5
    <2> QED  BY <1>1, <2>1, <2>2
  <1> QED  BY <1>4, <1>5

LEMMA LastPiece ==
    ASSUME NEW piece \in Seq(Chars \ {"&"}), piece # <<>>, Last(piece) # Space
    PROVE  TypedPiece(piece, <<>>) = CleanTrailingSpaces(piece)
  <1> DEFINE n == Len(piece)
  <1>1. n \in 1..n /\ Last(piece) = piece[n]
    <2>1. n \in Nat /\ n >= 1 /\ Last(piece) = piece[n]  BY FrontIs
    <2> QED  BY <2>1
  <1>2. Solid(piece) # {}  BY <1>1 DEF Solid
  <1>3. ~Blank(piece)  BY <1>2, BlankIs
  <1>4. <<>> \in {<<>>, Amp}  OBVIOUS
  <1> QED  BY <1>3, <1>4, TypedPieceIs

(* A line of tidy pieces, one blank before every &, means the same typed    *)
(* and in a batch file, for every line put together from the inputs.        *)
THEOREM TypedAndBatchGoTogether == Spec => []TypedAndBatchAgree
  <1> DEFINE pieces == GetLines(Line, "&")
             n == Len(pieces)
             m == Len(Line)
             Fits == /\ \A i \in DOMAIN Line : Line[i] = "&" =>
                           i > 2 /\ Line[i - 1] = Space /\ Line[i - 2] # Space
                     /\ Last(Line) \notin {Space, "&"}
                     /\ \A piece \in ToSet(pieces) : Tidy(Words(piece))
  <1>1. ASSUME InputType, IsLine, Fits PROVE RunTyped(Line) = RunBatch(Line)
    <2>1. Line \in Seq(Chars) /\ Line # <<>> /\ IsSplit(Chars, "&", pieces)
      BY <1>1, LineIsSplit
    <2>2. /\ pieces = Split(Line, "&", m) /\ Ends(Last(pieces), Last(Line))
      BY <1>1, <2>1, GetLinesOfSome
    <2>3. m \in 0..m /\ DOMAIN Line = 1..m  BY <2>1
    <2>4. Spaced(Line)  BY <1>1, <2>3 DEF Spaced
    <2>5. \A i \in 1..(n - 1) : Closed(pieces[i])
      <3>1. \A k \in 0..m :
               /\ \A i \in 1..(Len(Split(Line, "&", k)) - 1) : Closed(Split(Line, "&", k)[i])
               /\ EndOf(Line, k, Split(Line, "&", k)[Len(Split(Line, "&", k))])
        BY <2>1, <2>4, SpacedSplit
      <3> QED  BY <2>2, <2>3, <3>1
    <2>6. \A i \in 1..n : /\ pieces[i] \in Seq(Chars \ {"&"})
                          /\ Tidy(Words(pieces[i]))
      <3>1. \A i \in 1..n : pieces[i] \in Seq(Chars \ {"&"})  BY <2>1, PieceOf
      <3>2. \A i \in 1..n : pieces[i] \in ToSet(pieces)
        <4>1. DOMAIN pieces = 1..n  BY <2>1 DEF IsSplit
        <4> QED  BY <4>1 DEF ToSet
      <3> QED  BY <1>1, <3>1, <3>2
    <2>7. /\ n \in Nat /\ n >= 1
          /\ DOMAIN Typed(Line) = 1..n
          /\ \A i \in 1..n : Typed(Line)[i] =
                TypedPiece(pieces[i], IF i < n THEN Amp ELSE <<>>)
      BY <2>1, TypedIs
    <2>8. Last(pieces) = pieces[n]  BY DEF Last
    <2>9. InBatchFile(Line) =
             [i \in 1..n |-> CleanTrailingSpaces(IF Last(pieces[i]) = Space
                                THEN Append(pieces[i], "&") ELSE pieces[i])]
      BY DEF InBatchFile
    <2> DEFINE typed == Typed(Line)
               given == InBatchFile(Line)
    <2>10. DOMAIN given = 1..n  BY <2>9
    <2>11. ASSUME NEW i \in 1..n
           PROVE  pieces[i] # <<>> /\ Outcome(typed[i]) = Outcome(given[i])
      <3> DEFINE p == pieces[i]
      <3>1. given[i] = CleanTrailingSpaces(IF Last(p) = Space THEN Append(p, "&") ELSE p)
        BY <2>9
      <3>2. typed[i] = TypedPiece(p, IF i < n THEN Amp ELSE <<>>)  BY <2>7
      <3>3. p \in Seq(Chars \ {"&"}) /\ Tidy(Words(p))  BY <2>6
      <3>4. i < n => Closed(p)  BY <2>5, <2>7
      <3>5. ~(i < n) => p # <<>> /\ Last(p) # Space
        <4>1. ~(i < n) => i = n  BY <2>7
        <4>3. pieces[n] # <<>> /\ Last(pieces[n]) # Space
          BY <1>1, <2>2, <2>8 DEF Ends
        <4> QED  BY <4>1, <4>3
      <3> HIDE DEF p, pieces, n, typed, given
      <3>6. CASE i < n
        <4>1. p # <<>>  BY <3>3, <3>4, <3>6 DEF Closed
        <4>2. Last(p) = Space /\ Outcome(TypedPiece(p, Amp)) =
                 Outcome(CleanTrailingSpaces(Append(p, "&")))
          BY <3>3, <3>4, <3>6, ClosedPiece
        <4> QED  BY <3>1, <3>2, <3>6, <4>1, <4>2 DEF p
      <3>7. CASE ~(i < n)
        <4>1. TypedPiece(p, <<>>) = CleanTrailingSpaces(p)
          BY <3>3, <3>5, <3>7, LastPiece
        <4> QED  BY <3>1, <3>2, <3>5, <3>7, <4>1 DEF p
      <3> QED  BY <3>6, <3>7
    <2>12. ~BatchAborts(Line)
      <3>1. \A p \in ToSet(pieces) : p # <<>>
        <4>1. DOMAIN pieces = 1..n  BY <2>1 DEF IsSplit
        <4> QED  BY <2>11, <4>1 DEF ToSet
      <3> QED  BY <3>1 DEF BatchAborts
    <2>13. EnsureAndTokenize(typed) = EnsureAndTokenize(given)
      <3> HIDE DEF typed, given, n, pieces
      <3>1. DOMAIN typed = 1..n  BY <2>7 DEF typed
      <3> QED  BY <2>7, <2>10, <2>11, <3>1, SameOutcomes
    <2> QED  BY <2>12, <2>13 DEF RunTyped, RunBatch
  <1>2. InputType => TypedAndBatchAgree  BY <1>1 DEF TypedAndBatchAgree
  <1> QED  BY <1>2, InputInvariance, PTL

----
(* The configuration file.                                                 *)
LEMMA GetValueLoop ==
    ASSUME NEW base, NEW seq, NEW n \in Nat, DOMAIN seq = 1..n
    PROVE  FoldLeft(GetValue, base, seq) = After(<<"GetValue">>, base, seq, n)
  <1>1. \A f, x : GetValue(f, x) = Turn(<<"GetValue">>, f, x)  BY DEF Turn
  <1>2. \E g : LoopEq(<<"GetValue">>, base, seq, n, g)  BY LoopExists
  <1>3. \E g : /\ LoopEq(<<"GetValue">>, base, seq, n, g)
               /\ FoldLeft(GetValue, base, seq) = g[1..n]
    BY <1>1, <1>2, Zenon DEF FoldLeft, MapThenFoldSet, LoopEq
  <1> QED  BY <1>3, LoopIs

LEMMA ReadLineLoop ==
    ASSUME NEW var, NEW base, NEW seq, NEW n \in Nat, DOMAIN seq = 1..n
    PROVE  FoldLeft(LAMBDA loop, line : ReadLine(var, loop, line), base, seq) =
              After(<<"ReadLine", var>>, base, seq, n)
  <1> DEFINE Eq(g) == g = [s \in SUBSET (1..n) |->
                              IF s = {} THEN base
                              ELSE ReadLine(var, g[s \ {Max(s)}], seq[Max(s)])]
             g == CHOOSE g : Eq(g)
  <1>1. \A f : Eq(f) <=> LoopEq(<<"ReadLine", var>>, base, seq, n, f)
    BY DEF Turn, LoopEq
  <1>2. FoldLeft(LAMBDA loop, line : ReadLine(var, loop, line), base, seq) = g[1..n]
    BY DEF FoldLeft, MapThenFoldSet
  <1> HIDE DEF Eq
  <1>3. Eq(g)  BY <1>1, LoopExists
  <1> HIDE DEF g
  <1> QED  BY <1>1, <1>2, <1>3, LoopIs

(* A loop through the whole file is left at the first of them, if any.     *)
LEMMA SearchIs ==
    ASSUME NEW L, NEW lines \in Seq(L), NEW var
    PROVE  LET loop == Search(lines, Stream(0, FALSE), var)
               with == With(lines, var)
           IN  /\ loop.left <=> with # {}
               /\ with # {} => loop.rest = lines[Min(with)].value
  <1> DEFINE n == Len(lines)
             base == [read |-> 0, left |-> FALSE, rest |-> NotANumber]
             now(m) == After(<<"ReadLine", var>>, base, lines, m)
             before(m) == {i \in 1..m : lines[i].name = var}
             A == {m \in 0..n :
                     /\ now(m).left <=> before(m) # {}
                     /\ before(m) # {} =>
                           \E i \in before(m) : /\ \A j \in before(m) : i <= j
                                                /\ now(m).rest = lines[i].value}
  <1>1. n \in Nat /\ DOMAIN lines = 1..n  OBVIOUS
  <1>2. Search(lines, Stream(0, FALSE), var) = now(n)
    <2>1. SubSeq(lines, 0 + 1, n) = lines  OBVIOUS
    <2>2. Stream(0, FALSE).failed = FALSE /\ Stream(0, FALSE).position = 0
      BY DEF Stream
    <2>3. Search(lines, Stream(0, FALSE), var) =
             FoldLeft(LAMBDA loop, line : ReadLine(var, loop, line), base, lines)
      BY <2>1, <2>2 DEF Search
    <2> QED  BY <1>1, <2>3, ReadLineLoop
  <1>3. now(0) = base  BY AfterNone
  <1>4. ASSUME NEW m \in 0..(n - 1)
        PROVE  now(m + 1) = ReadLine(var, now(m), lines[m + 1])
    <2>1. now(m + 1) = Turn(<<"ReadLine", var>>, now(m), lines[m + 1])
      BY <1>1, AfterNext
    <2> HIDE DEF now
    <2> QED  BY <2>1 DEF Turn
  <1> HIDE DEF now, n
  <1>5. 0 \in A  BY <1>1, <1>3
  <1>6. ASSUME NEW m \in 0..(n - 1), m \in A PROVE m + 1 \in A
    <2> DEFINE line == lines[m + 1]
               x == now(m)
               y == now(m + 1)
    <2>1. m \in Nat /\ m + 1 \in 0..n /\ m + 1 \in 1..(m + 1) /\ m + 1 \notin 1..m
          /\ 1..(m + 1) = (1..m) \union {m + 1} /\ \A j \in 1..m : j <= m + 1
      BY <1>1
    <2>2. /\ x.left => y = x
          /\ ~x.left => (y.left <=> line.name = var) /\ y.rest = line.value
      <3>1. y = ReadLine(var, x, line)  BY <1>4
      <3> HIDE DEF x, y, line
      <3>2. x.left => y = x  BY <3>1 DEF ReadLine
      <3>3. ASSUME ~x.left
            PROVE  (y.left <=> line.name = var) /\ y.rest = line.value
        <4>1. y = [read |-> x.read + 1, left |-> line.name = var, rest |-> line.value]
          BY <3>1, <3>3, Zenon DEF ReadLine
        <4>2. y.left = (line.name = var) /\ y.rest = line.value  BY <4>1
        <4> QED  BY <4>2
      <3> QED  BY <3>2, <3>3
    <2>3. before(m + 1) = before(m) \union {i \in {m + 1} : line.name = var}
      BY <2>1
    <2>4. /\ x.left <=> before(m) # {}
          /\ before(m) # {} =>
                \E i \in before(m) : /\ \A j \in before(m) : i <= j
                                     /\ x.rest = lines[i].value  BY <1>6
    <2>5. before(m) \subseteq 1..m  OBVIOUS
    <2> HIDE DEF before, x, y, line, A
    <2>6. CASE before(m) # {}
      <3>1. PICK i \in before(m) : /\ \A j \in before(m) : i <= j
                                   /\ x.rest = lines[i].value  BY <2>4, <2>6
      <3>2. i \in before(m + 1) /\ (\A j \in before(m + 1) : i <= j)
        BY <2>1, <2>3, <2>5, <3>1
      <3>3. y = x /\ x.left /\ before(m + 1) # {}  BY <2>2, <2>4, <2>6, <3>2
      <3>4. \E k \in before(m + 1) : /\ \A j \in before(m + 1) : k <= j
                                     /\ y.rest = lines[k].value
        BY <3>1, <3>2, <3>3
      <3> QED  BY <2>1, <3>3, <3>4 DEF A, y
    <2>7. CASE before(m) = {}
      <3>1. ~x.left /\ before(m + 1) = {i \in {m + 1} : line.name = var}
        BY <2>3, <2>4, <2>7
      <3>2. y.left <=> before(m + 1) # {}  BY <2>2, <3>1
      <3>3. ASSUME before(m + 1) # {}
            PROVE  \E k \in before(m + 1) : /\ \A j \in before(m + 1) : k <= j
                                            /\ y.rest = lines[k].value
        <4>1. m + 1 \in before(m + 1) /\ \A j \in before(m + 1) : j = m + 1
          BY <3>1, <3>3
        <4>2. y.rest = lines[m + 1].value  BY <2>2, <3>1 DEF line
        <4> QED  BY <2>1, <4>1, <4>2
      <3> QED  BY <2>1, <3>2, <3>3 DEF A, y
    <2> QED  BY <2>6, <2>7
  <1> HIDE DEF A
  <1>7. n \in A
    <2>1. 0..n \subseteq A  BY <1>1, <1>5, <1>6, SetInductionUpTo
    <2> QED  BY <1>1, <2>1
  <1>8. before(n) = With(lines, var)  BY <1>1 DEF With
  <1>9. /\ now(n).left <=> before(n) # {}
        /\ before(n) # {} => now(n).rest = lines[Min(before(n))].value
    <2>1. ASSUME NEW i \in before(n), \A j \in before(n) : i <= j
          PROVE  i = Min(before(n))
      <3>1. before(n) \subseteq Nat  BY <1>1
      <3> HIDE DEF before
      <3>2. Min(before(n)) \in before(n) /\ \A y \in before(n) : Min(before(n)) <= y
        BY <3>1, <2>1, MinIsIn
      <3> QED  BY <2>1, <3>1, <3>2
    <2> HIDE DEF before
    <2>2. /\ now(n).left <=> before(n) # {}
          /\ before(n) # {} =>
                \E i \in before(n) : /\ \A j \in before(n) : i <= j
                                     /\ now(n).rest = lines[i].value
      BY <1>7 DEF A
    <2> QED  BY <2>1, <2>2
  <1> QED  BY <1>2, <1>8, <1>9

LEMMA GetValueStep ==
    ASSUME NEW L, NEW lines \in Seq(L), NEW values, NEW var
    PROVE  LET first == FirstValue(lines, var)
               next == GetValue(Reader(lines, values), var)
           IN  IF first = NotANumber
               THEN next.thrown = TRUE /\ next.values = values
               ELSE next = Reader(lines, Append(values, first))
  <1> DEFINE reader == Reader(lines, values)
             loop == Search(lines, Stream(0, FALSE), var)
             with == With(lines, var)
             first == FirstValue(lines, var)
             at == Stream(0 + loop.read, ~loop.left)
  <1>1. /\ loop.left <=> with # {}
        /\ with # {} => loop.rest = lines[Min(with)].value  BY SearchIs
  <1>2. first = IF with = {} THEN -1 ELSE lines[Min(with)].value
    BY DEF FirstValue, With
  <1>3. /\ reader.lines = lines /\ reader.stream = Stream(0, FALSE)
        /\ reader.values = values /\ reader.thrown = FALSE
        /\ reader.stream.position = 0  BY DEF Reader, Stream
  <1> HIDE DEF loop, with, first
  <1>4. SeekStart(Cleared(at)) = Stream(0, FALSE)
    <2>1. Cleared(at).failed = FALSE  BY DEF Cleared, Stream
    <2> QED  BY <2>1 DEF SeekStart
  <1>5. first = IF loop.left THEN loop.rest ELSE -1  BY <1>1, <1>2
  <1>6. first = NotANumber <=> loop.left /\ loop.rest = NotANumber
    BY <1>5, NumberAssumption
  <1> HIDE DEF at
  <1>7. GetValue(reader, var) =
           IF loop.left /\ loop.rest = NotANumber
           THEN [reader EXCEPT !.thrown = TRUE]
           ELSE [lines |-> lines, thrown |-> FALSE,
                 stream |-> SeekStart(Cleared(at)),
                 values |-> Append(values, IF loop.left THEN loop.rest ELSE -1)]
    BY <1>3 DEF GetValue, loop, at
  <1>8. [reader EXCEPT !.thrown = TRUE].thrown = TRUE
        /\ [reader EXCEPT !.thrown = TRUE].values = values  BY DEF Reader
  <1> QED  BY <1>4, <1>5, <1>6, <1>7, <1>8 DEF Reader, reader, first

(* One call more, after m calls.                                           *)
LEMMA CallNext ==
    ASSUME NEW L, NEW lines \in Seq(L), NEW m \in Nat, NEW reader
    PROVE  LET next == GetValue(reader, ConfigVars[m + 1])
           IN  /\ reader.thrown = TRUE => next = reader
               /\ (AllNumbers(lines, m) /\ reader = Reader(lines, FirstValues(lines, m))) =>
                     IF FirstValue(lines, ConfigVars[m + 1]) = NotANumber
                     THEN next.thrown = TRUE /\ next.values = FirstValues(lines, m)
                     ELSE next = Reader(lines, FirstValues(lines, m + 1))
  <1> DEFINE f(v) == FirstValue(lines, ConfigVars[v])
             x == f(m + 1)
             next == GetValue(reader, ConfigVars[m + 1])
  <1>1. reader.thrown = TRUE => next = reader  BY DEF GetValue
  <1>2. ASSUME reader = Reader(lines, FirstValues(lines, m))
        PROVE  IF x = NotANumber
               THEN next.thrown = TRUE /\ next.values = FirstValues(lines, m)
               ELSE next = Reader(lines, Append(FirstValues(lines, m), x))
    <2> DEFINE values == FirstValues(lines, m)
               var == ConfigVars[m + 1]
    <2> HIDE DEF values, var
    <2>1. IF FirstValue(lines, var) = NotANumber
          THEN GetValue(Reader(lines, values), var).thrown = TRUE
               /\ GetValue(Reader(lines, values), var).values = values
          ELSE GetValue(Reader(lines, values), var) =
                  Reader(lines, Append(values, FirstValue(lines, var)))
      BY GetValueStep
    <2>2. next = GetValue(Reader(lines, values), var) /\ x = FirstValue(lines, var)
      BY <1>2 DEF values, var
    <2> HIDE DEF next, x
    <2> QED  BY <2>1, <2>2 DEF values
  <1>3. Append(FirstValues(lines, m), x) = FirstValues(lines, m + 1)
    <2> DEFINE g == [v \in 1..(m + 1) |-> f(v)]
               h == [v \in 1..(m + 1) |-> IF v <= m THEN g[v] ELSE x]
    <2>1. \A v \in 1..(m + 1) : v <= m \/ v = m + 1  OBVIOUS
    <2>2. \A v \in 1..m : v \in 1..(m + 1)  OBVIOUS
    <2> HIDE DEF f
    <2>3. FirstValues(lines, m) = [v \in 1..m |-> g[v]]
      BY <2>2 DEF FirstValues, f
    <2>4. Append([v \in 1..m |-> g[v]], x) = h
      <3> HIDE DEF g, x
      <3> QED  BY AppendToFunction
    <2>5. h = g  BY <2>1
    <2> QED  BY <2>3, <2>4, <2>5 DEF FirstValues, f
  <1> HIDE DEF next, x
  <1> QED  BY <1>1, <1>2, <1>3 DEF x, next

LEMMA CallsAre ==
    ASSUME NEW L, NEW lines \in Seq(L)
    PROVE  LET n == Len(ConfigVars)
               read == ReadConfig(lines)
           IN  /\ AllNumbers(lines, n) => read = Reader(lines, FirstValues(lines, n))
               /\ \A k \in 1..n : FirstBad(lines, k) =>
                     read.thrown = TRUE /\ read.values = FirstValues(lines, k - 1)
  <1> DEFINE n == Len(ConfigVars)
             now(m) == After(<<"GetValue">>, Reader(lines, <<>>), ConfigVars, m)
             good(m) == AllNumbers(lines, m)
             ended(m, k) == now(m).thrown = TRUE /\ now(m).values = FirstValues(lines, k - 1)
             A == {m \in 0..n :
                     /\ good(m) => now(m) = Reader(lines, FirstValues(lines, m))
                     /\ \A k \in 1..m : FirstBad(lines, k) => ended(m, k)}
  <1>1. n \in Nat /\ DOMAIN ConfigVars = 1..n  BY ConfigVarsAssumption
  <1>2. ReadConfig(lines) = now(n)
    <2>1. ReadConfig(lines) = FoldLeft(GetValue, Reader(lines, <<>>), ConfigVars)
      BY DEF ReadConfig, Reader
    <2> QED  BY <1>1, <2>1, GetValueLoop
  <1>3. now(0) = Reader(lines, <<>>)  BY AfterNone
  <1>4. ASSUME NEW m \in 0..(n - 1)
        PROVE  now(m + 1) = GetValue(now(m), ConfigVars[m + 1])
    <2>1. m \in Nat  BY <1>1
    <2>2. now(m + 1) = Turn(<<"GetValue">>, now(m), ConfigVars[m + 1])
      BY <2>1, AfterNext
    <2> HIDE DEF now
    <2> QED  BY <2>2 DEF Turn
  <1> HIDE DEF now, n
  <1>5. 0 \in A
    <2>1. FirstValues(lines, 0) = <<>>  BY DEF FirstValues
    <2> QED  BY <1>1, <1>3, <2>1
  <1>6. ASSUME NEW m \in 0..(n - 1), m \in A PROVE m + 1 \in A
    <2>1. m \in Nat /\ m + 1 \in 0..n /\ \A k \in 1..(m + 1) : k \in 1..m \/ k = m + 1
      BY <1>1
    <2> DEFINE x == now(m)
               y == now(m + 1)
               bad == FirstValue(lines, ConfigVars[m + 1]) = NotANumber
    <2>2. /\ x.thrown = TRUE => y = x
          /\ (good(m) /\ x = Reader(lines, FirstValues(lines, m))) =>
                IF bad
                THEN y.thrown = TRUE /\ y.values = FirstValues(lines, m)
                ELSE y = Reader(lines, FirstValues(lines, m + 1))
      <3>1. y = GetValue(x, ConfigVars[m + 1])  BY <1>4
      <3> HIDE DEF x, y
      <3> QED  BY <2>1, <3>1, CallNext
    <2>3. /\ good(m) => x = Reader(lines, FirstValues(lines, m))
          /\ \A k \in 1..m : FirstBad(lines, k) => ended(m, k)  BY <1>6
    <2>4. good(m + 1) => good(m) /\ ~bad
      <3>1. m + 1 \in 1..(m + 1) /\ \A v \in 1..m : v \in 1..(m + 1)  BY <2>1
      <3> QED  BY <3>1 DEF AllNumbers
    <2>5. FirstBad(lines, m + 1) => good(m) /\ bad
      <3>1. (m + 1) - 1 = m  BY <2>1
      <3> QED  BY <3>1 DEF FirstBad
    <2> HIDE DEF A, good, bad
    <2>6. good(m + 1) => y = Reader(lines, FirstValues(lines, m + 1))
      BY <2>2, <2>3, <2>4
    <2>7. ASSUME NEW k \in 1..(m + 1), FirstBad(lines, k)
          PROVE  y.thrown = TRUE /\ y.values = FirstValues(lines, k - 1)
      <3>1. CASE k \in 1..m  BY <2>2, <2>3, <2>7, <3>1
      <3>2. CASE k = m + 1
        <4>1. k - 1 = m  BY <2>1, <3>2
        <4> QED  BY <2>2, <2>3, <2>5, <2>7, <3>2, <4>1
      <3> QED  BY <2>1, <3>1, <3>2
    <2> QED  BY <2>1, <2>6, <2>7 DEF A, y
  <1> HIDE DEF A
  <1>7. n \in A
    <2>1. 0..n \subseteq A  BY <1>1, <1>5, <1>6, SetInductionUpTo
    <2> QED  BY <1>1, <2>1
  <1> QED  BY <1>2, <1>7 DEF A, good, ended, n

(* Each call of main finds the first line with its name, wherever the      *)
(* calls before it have left the stream, for every file and list of names. *)
THEOREM FirstLineWins == Spec => []ConfigInAnyOrder
  <1>1. ASSUME InputType, kind = "config" PROVE ConfigInAnyOrder
    <2> DEFINE read == ReadConfig(input)
               n == Len(ConfigVars)
               first == [v \in DOMAIN ConfigVars |-> FirstValue(input, ConfigVars[v])]
               bad == {v \in DOMAIN ConfigVars : first[v] = NotANumber}
    <2>1. input \in Seq(Inputs[kind])  BY <1>1 DEF InputType
    <2>2. /\ AllNumbers(input, n) => read = Reader(input, FirstValues(input, n))
          /\ \A k \in 1..n : FirstBad(input, k) =>
                read.thrown = TRUE /\ read.values = FirstValues(input, k - 1)
      BY <2>1, CallsAre
    <2>3. n \in Nat /\ DOMAIN ConfigVars = 1..n  BY ConfigVarsAssumption
    <2>4. \A v \in 1..n : first[v] = FirstValue(input, ConfigVars[v])  BY <2>3
    <2>5. /\ bad \subseteq 1..n
          /\ \A v \in 1..n : v \in bad <=> FirstValue(input, ConfigVars[v]) = NotANumber
      BY <2>3, <2>4
    <2> HIDE DEF read, n, first, bad
    <2>6. ASSUME NEW m \in 0..n
          PROVE  /\ Len(FirstValues(input, m)) = m
                 /\ DOMAIN FirstValues(input, m) = 1..m
                 /\ \A v \in 1..m : FirstValues(input, m)[v] = first[v]
      BY <2>3, <2>4 DEF FirstValues
    <2>7. CASE bad = {}
      <3>1. AllNumbers(input, n)  BY <2>5, <2>7 DEF AllNumbers
      <3>2. read.values = FirstValues(input, n) /\ read.thrown = FALSE
        BY <2>2, <3>1 DEF Reader
      <3>3. n \in 0..n  BY <2>3
      <3>4. /\ read.thrown <=> bad # {}
            /\ Len(read.values) = n
            /\ \A v \in DOMAIN read.values : read.values[v] = first[v]
        BY <2>6, <2>7, <3>2, <3>3
      <3> QED  BY <2>7, <3>4 DEF ConfigInAnyOrder, read, n, first, bad
    <2>8. CASE bad # {}
      <3> DEFINE k == Min(bad)
      <3>1. k \in bad /\ \A v \in bad : k <= v
        <4>1. bad \subseteq Nat  BY <2>3, <2>5
        <4> QED  BY <2>8, <4>1, MinIsIn
      <3> HIDE DEF k
      <3>2. k \in 1..n /\ k - 1 \in 0..n /\ \A v \in 1..(k - 1) : v \in 1..n /\ v \notin bad
        BY <2>3, <2>5, <3>1
      <3>3. FirstBad(input, k)  BY <2>5, <3>1, <3>2 DEF FirstBad, AllNumbers
      <3>4. read.thrown = TRUE /\ read.values = FirstValues(input, k - 1)
        BY <2>2, <3>2, <3>3
      <3>5. /\ read.thrown <=> bad # {}
            /\ Len(read.values) = k - 1
            /\ \A v \in DOMAIN read.values : read.values[v] = first[v]
        BY <2>6, <2>8, <3>2, <3>4
      <3> QED  BY <2>8, <3>5 DEF ConfigInAnyOrder, read, n, first, bad, k
    <2> QED  BY <2>7, <2>8
  <1>2. InputType => ConfigInAnyOrder  BY <1>1 DEF ConfigInAnyOrder
  <1> QED  BY <1>2, InputInvariance, PTL
=============================================================================
