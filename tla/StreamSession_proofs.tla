------------------------ MODULE StreamSession_proofs ------------------------
(***************************************************************************)
(* Every method of the StreamSession aggregate preserves SessionInv, for   *)
(* every set of documents and stream identifiers, every stream limit and   *)
(* every timeout.  The proofs are about the value-level methods, so that   *)
(* each specification that calls them can cite the lemmas.  Then what the  *)
(* two frame commits produce: the stable sort of the patches, their        *)
(* chunks, and the contract of a batch that follows from both.  Last the   *)
(* sums: what one more stream, frame or event adds to a total over all of  *)
(* them, and that every method keeps the session's totals equal to the     *)
(* sums over its streams and events.                                       *)
(***************************************************************************)
EXTENDS StreamSession, FiniteSetTheorems, SequenceTheorems, WellFoundedInduction, TLAPS

-----------------------------------------------------------------------------
(* Sums over finite sets, as Functions defines them. *)

(* Induction on the subsets of a finite set, as a fact about a set of      *)
(* subsets: what holds of a subset when it holds without any one element.  *)
LEMMA SubsetInduct ==
  ASSUME NEW S, IsFiniteSet(S), NEW Good,
         \A U \in SUBSET S : (\A x \in U : U \ {x} \in Good) => U \in Good
  PROVE  SUBSET S \subseteq Good
<1> SUFFICES ASSUME ~(SUBSET S \subseteq Good) PROVE FALSE
  OBVIOUS
<1> DEFINE Bad == {Cardinality(U) : U \in (SUBSET S) \ Good}
<1>1. \A U \in SUBSET S : IsFiniteSet(U) /\ Cardinality(U) \in Nat
  BY FS_Subset, FS_CardinalityType
<1>2. Bad \subseteq Nat /\ Bad # {}
  BY <1>1
<1> HIDE DEF Bad
<1>3. PICK n \in Bad : \A m \in Bad : ~(<<m, n>> \in OpToRel(<, Nat))
  BY <1>2, WFMin, NatLessThanWellFounded
<1>4. PICK U \in SUBSET S : U \notin Good /\ n = Cardinality(U)
  BY <1>3 DEF Bad
<1>5. PICK x \in U : U \ {x} \notin Good
  BY <1>4
<1>6. Cardinality(U \ {x}) = Cardinality(U) - 1
  BY <1>1, <1>5, FS_RemoveElement
<1>7. Cardinality(U \ {x}) \in Bad
  BY <1>5 DEF Bad
<1>8. <<Cardinality(U \ {x}), n>> \in OpToRel(<, Nat)
  BY <1>1, <1>4, <1>6 DEF OpToRel
<1> QED
  BY <1>3, <1>7, <1>8

(* The same for the natural numbers. *)
LEMMA NatInduct ==
  ASSUME NEW Good, 0 \in Good, \A n \in Nat : n \in Good => n + 1 \in Good
  PROVE  Nat \subseteq Good
<1> SUFFICES ASSUME ~(Nat \subseteq Good) PROVE FALSE
  OBVIOUS
<1>1. PICK n \in Nat \ Good : \A m \in Nat \ Good : ~(<<m, n>> \in OpToRel(<, Nat))
  BY WFMin, NatLessThanWellFounded
<1>2. n # 0 /\ n - 1 \in Nat /\ n - 1 < n /\ (n - 1) + 1 = n
  OBVIOUS
<1>3. n - 1 \notin Good
  BY <1>2
<1> QED
  BY <1>1, <1>2, <1>3 DEF OpToRel

(* The element the fold of Folds takes first, and its recursive function. *)
Chosen(s) == CHOOSE x \in s : TRUE

IsSum(g, f, S) ==
  g = [s \in SUBSET S |-> IF s = {} THEN 0 ELSE f[Chosen(s)] + g[s \ {Chosen(s)}]]

(* SumFunctionOnSet is the value of that function. *)
LEMMA SumUnfold ==
  ASSUME NEW f, NEW S
  PROVE  SumFunctionOnSet(f, S) = (CHOOSE g : IsSum(g, f, S))[S]
  BY DEF SumFunctionOnSet, FoldFunctionOnSet, MapThenFoldSet, IsSum, Chosen

(* The recursive function exists: it is built size by size. *)
LEMMA SumExists ==
  ASSUME NEW f, NEW S, IsFiniteSet(S)
  PROVE  \E g : IsSum(g, f, S)
<1> DEFINE Follow(g, s) == IF s = {} THEN 0 ELSE f[Chosen(s)] + g[s \ {Chosen(s)}]
           UpTo(n) == {s \in SUBSET S : Cardinality(s) <= n}
           Reached(n) == \E g : \A s \in UpTo(n) : g[s] = Follow(g, s)
           Good == {n \in Nat : Reached(n)}
<1>1. \A s \in SUBSET S : IsFiniteSet(s) /\ Cardinality(s) \in Nat
  BY FS_Subset, FS_CardinalityType
<1>2. \A s \in SUBSET S : s # {} => /\ Chosen(s) \in s
                                   /\ s \ {Chosen(s)} \in SUBSET S
                                   /\ Cardinality(s \ {Chosen(s)}) = Cardinality(s) - 1
  BY <1>1, FS_RemoveElement DEF Chosen
<1>3. 0 \in Good
  <2>1. \A s \in UpTo(0) : s = {}
    BY <1>1, FS_EmptySet
  <2>2. \A s \in UpTo(0) : [t \in SUBSET S |-> 0][s] = Follow([t \in SUBSET S |-> 0], s)
    BY <2>1
  <2> QED
    BY <2>2
<1>4. ASSUME NEW n \in Nat, n \in Good PROVE n + 1 \in Good
  <2>1. PICK g : \A s \in UpTo(n) : g[s] = Follow(g, s)
    BY <1>4
  <2> DEFINE h == [s \in SUBSET S |-> Follow(g, s)]
  <2>2. \A s \in UpTo(n) : h[s] = g[s]
    BY <2>1
  <2>3. ASSUME NEW s \in UpTo(n + 1) PROVE h[s] = Follow(h, s)
    <3>1. CASE s = {}
      BY <3>1
    <3>2. CASE s # {}
      <4>1. s \ {Chosen(s)} \in UpTo(n)
        BY <1>1, <1>2, <3>2
      <4>2. h[s \ {Chosen(s)}] = g[s \ {Chosen(s)}]
        BY <2>2, <4>1
      <4>3. h[s] = Follow(g, s)
        OBVIOUS
      <4> HIDE DEF h
      <4> QED
        BY <4>2, <4>3, <3>2
    <3> QED
      BY <3>1, <3>2
  <2> HIDE DEF h
  <2>4. Reached(n + 1)
    BY <2>3
  <2> HIDE DEF Reached
  <2> QED
    BY <2>4
<1>5. Cardinality(S) \in Good
  <2> HIDE DEF Good
  <2> QED
    BY <1>1, <1>3, <1>4, NatInduct
<1>6. PICK g : \A s \in UpTo(Cardinality(S)) : g[s] = Follow(g, s)
  BY <1>5
<1>7. \A s \in SUBSET S : s \in UpTo(Cardinality(S))
  BY <1>1, FS_Subset
<1> DEFINE h == [s \in SUBSET S |-> g[s]]
<1>8. ASSUME NEW s \in SUBSET S PROVE h[s] = Follow(h, s)
  <2>1. h[s] = Follow(g, s)
    BY <1>6, <1>7
  <2>2. s # {} => h[s \ {Chosen(s)}] = g[s \ {Chosen(s)}]
    BY <1>2
  <2> HIDE DEF h
  <2> QED
    BY <2>1, <2>2
<1>9. h = [s \in SUBSET S |-> Follow(h, s)]
  <2>1. h = [s \in SUBSET S |-> h[s]]
    OBVIOUS
  <2> HIDE DEF h
  <2> QED
    BY <1>8, <2>1
<1> QED
  BY <1>9 DEF IsSum

(* It counts in natural numbers and does not depend on the element chosen. *)
LEMMA SumProperties ==
  ASSUME NEW f, NEW S, IsFiniteSet(S), \A x \in S : f[x] \in Nat,
         NEW g, IsSum(g, f, S)
  PROVE  /\ g[{}] = 0
         /\ \A s \in SUBSET S : g[s] \in Nat
         /\ \A s \in SUBSET S : \A x \in s : g[s] = f[x] + g[s \ {x}]
<1>1. \A s \in SUBSET S : g[s] = IF s = {} THEN 0 ELSE f[Chosen(s)] + g[s \ {Chosen(s)}]
  BY DEF IsSum
<1>2. \A s : s # {} => Chosen(s) \in s
  BY DEF Chosen
<1> DEFINE T == {s \in SUBSET S : g[s] \in Nat}
<1>3. SUBSET S \subseteq T
  <2>1. ASSUME NEW U \in SUBSET S, \A x \in U : U \ {x} \in T PROVE U \in T
    <3>1. CASE U = {}
      <4>1. g[U] = 0
        BY <1>1, <3>1
      <4> QED
        BY <4>1
    <3>2. CASE U # {}
      <4> DEFINE c == Chosen(U)
      <4>1. c \in U /\ g[U] = f[c] + g[U \ {c}]
        BY <1>1, <1>2, <3>2
      <4> HIDE DEF c
      <4>2. f[c] \in Nat /\ g[U \ {c}] \in Nat
        BY <2>1, <4>1
      <4>3. f[c] + g[U \ {c}] \in Nat
        BY <4>2
      <4> QED
        BY <4>1, <4>3
    <3> QED
      BY <3>1, <3>2
  <2> HIDE DEF T
  <2> QED
    BY <2>1, SubsetInduct
<1>4. \A s \in SUBSET S : g[s] \in Nat
  BY <1>3
<1> DEFINE C == {s \in SUBSET S : \A x \in s : g[s] = f[x] + g[s \ {x}]}
<1>5. SUBSET S \subseteq C
  <2>1. ASSUME NEW U \in SUBSET S, \A x \in U : U \ {x} \in C PROVE U \in C
    <3> SUFFICES ASSUME NEW x \in U PROVE g[U] = f[x] + g[U \ {x}]
      OBVIOUS
    <3> DEFINE c == Chosen(U)
    <3>1. c \in U /\ g[U] = f[c] + g[U \ {c}]
      BY <1>1, <1>2
    <3> HIDE DEF c
    <3>2. CASE x = c
      BY <3>1, <3>2
    <3>3. CASE x # c
      <4>1. g[U \ {c}] = f[x] + g[(U \ {c}) \ {x}]
        BY <2>1, <3>1, <3>3
      <4>2. g[U \ {x}] = f[c] + g[(U \ {x}) \ {c}]
        BY <2>1, <3>1, <3>3
      <4>3. (U \ {c}) \ {x} = (U \ {x}) \ {c}
        OBVIOUS
      <4>4. f[x] \in Nat /\ f[c] \in Nat /\ g[(U \ {x}) \ {c}] \in Nat
        BY <1>4, <3>1
      <4> DEFINE u == g[U]
                 ux == g[U \ {x}]
                 uc == g[U \ {c}]
                 rest == g[(U \ {x}) \ {c}]
                 fx == f[x]
                 fc == f[c]
      <4>5. u = fc + uc /\ uc = fx + rest /\ ux = fc + rest
        BY <3>1, <4>1, <4>2, <4>3
      <4>6. fx \in Nat /\ fc \in Nat /\ rest \in Nat
        BY <4>4
      <4> HIDE DEF u, ux, uc, rest, fx, fc
      <4>7. u = fx + ux
        BY <4>5, <4>6
      <4> QED
        BY <4>7 DEF u, fx, ux
    <3> QED
      BY <3>2, <3>3
  <2> HIDE DEF C
  <2> QED
    BY <2>1, SubsetInduct
<1> QED
  BY <1>1, <1>4, <1>5

(* A sum over a finite set: empty, typed, and with one element taken out. *)
LEMMA SumStep ==
  ASSUME NEW f, NEW S, IsFiniteSet(S), \A x \in S : f[x] \in Nat
  PROVE  /\ SumFunctionOnSet(f, {}) = 0
         /\ SumFunctionOnSet(f, S) \in Nat
         /\ \A x \in S : SumFunctionOnSet(f, S) = f[x] + SumFunctionOnSet(f, S \ {x})
<1> DEFINE G(U) == CHOOSE g : IsSum(g, f, U)
<1>1. \A U \in SUBSET S : IsFiniteSet(U)
  BY FS_Subset
<1>2. \A U \in SUBSET S : IsSum(G(U), f, U)
  BY <1>1, SumExists
<1>3. \A U \in SUBSET S : SumFunctionOnSet(f, U) = G(U)[U]
  BY SumUnfold
<1> HIDE DEF G
<1>4. ASSUME NEW U \in SUBSET S
      PROVE  /\ G(U)[{}] = 0
             /\ \A s \in SUBSET U : G(U)[s] \in Nat
             /\ \A s \in SUBSET U : \A x \in s : G(U)[s] = f[x] + G(U)[s \ {x}]
  <2>1. \A x \in U : f[x] \in Nat
    OBVIOUS
  <2> QED
    BY <1>1, <1>2, <2>1, SumProperties
<1>5. ASSUME NEW x \in S PROVE G(S)[S \ {x}] = G(S \ {x})[S \ {x}]
  <2> DEFINE R == S \ {x}
             Good == {s \in SUBSET R : G(S)[s] = G(R)[s]}
  <2>0. R \in SUBSET S /\ S \in SUBSET S
    OBVIOUS
  <2>1. ASSUME NEW U \in SUBSET R, \A y \in U : U \ {y} \in Good PROVE U \in Good
    <3>1. CASE U = {}
      BY <1>4, <2>0, <3>1
    <3>2. CASE U # {}
      <4>1. PICK y \in U : TRUE
        BY <3>2
      <4>2. G(S)[U] = f[y] + G(S)[U \ {y}]
        <5>1. U \in SUBSET S
          OBVIOUS
        <5> QED
          BY <1>4, <2>0, <5>1
      <4>3. G(R)[U] = f[y] + G(R)[U \ {y}]
        BY <1>4, <2>0
      <4> QED
        BY <2>1, <4>1, <4>2, <4>3
    <3> QED
      BY <3>1, <3>2
  <2>2. SUBSET R \subseteq Good
    <3> HIDE DEF Good
    <3> QED
      BY <1>1, <2>0, <2>1, SubsetInduct
  <2> QED
    BY <2>2
<1>6. S \in SUBSET S /\ {} \in SUBSET S /\ \A x \in S : S \ {x} \in SUBSET S
  OBVIOUS
<1>7. SumFunctionOnSet(f, {}) = 0
  BY <1>3, <1>4, <1>6
<1>8. SumFunctionOnSet(f, S) \in Nat
  BY <1>3, <1>4, <1>6
<1>9. ASSUME NEW x \in S
      PROVE  SumFunctionOnSet(f, S) = f[x] + SumFunctionOnSet(f, S \ {x})
  <2>1. G(S)[S] = f[x] + G(S)[S \ {x}]
    BY <1>4, <1>6
  <2> QED
    BY <1>3, <1>5, <1>6, <2>1
<1> QED
  BY <1>7, <1>8, <1>9

(* Equal terms, equal sums. *)
LEMMA SumSame ==
  ASSUME NEW f, NEW g, NEW S, IsFiniteSet(S),
         \A x \in S : f[x] \in Nat /\ g[x] = f[x]
  PROVE  SumFunctionOnSet(g, S) = SumFunctionOnSet(f, S)
<1> DEFINE Good == {U \in SUBSET S : SumFunctionOnSet(g, U) = SumFunctionOnSet(f, U)}
<1>1. ASSUME NEW U \in SUBSET S, \A x \in U : U \ {x} \in Good PROVE U \in Good
  <2>1. IsFiniteSet(U)
    BY FS_Subset
  <2>2. CASE U = {}
    BY <2>1, <2>2, SumStep
  <2>3. CASE U # {}
    <3>1. PICK x \in U : TRUE
      BY <2>3
    <3>2. SumFunctionOnSet(f, U) = f[x] + SumFunctionOnSet(f, U \ {x})
      BY <2>1, SumStep
    <3>3. SumFunctionOnSet(g, U) = g[x] + SumFunctionOnSet(g, U \ {x})
      <4>1. \A y \in U : g[y] \in Nat
        OBVIOUS
      <4> QED
        BY <2>1, <4>1, SumStep
    <3> QED
      BY <1>1, <3>2, <3>3
  <2> QED
    BY <2>2, <2>3
<1>2. SUBSET S \subseteq Good
  <2> HIDE DEF Good
  <2> QED
    BY <1>1, SubsetInduct
<1> QED
  BY <1>2

(* One term changes. *)
LEMMA SumChange ==
  ASSUME NEW f, NEW g, NEW S, IsFiniteSet(S), NEW x \in S,
         \A y \in S : f[y] \in Nat, g[x] \in Nat,
         \A y \in S \ {x} : g[y] = f[y]
  PROVE  SumFunctionOnSet(g, S) = SumFunctionOnSet(f, S) - f[x] + g[x]
<1>1. \A y \in S : g[y] \in Nat
  OBVIOUS
<1> DEFINE rest == SumFunctionOnSet(f, S \ {x})
<1>2. IsFiniteSet(S \ {x})
  BY FS_Subset
<1>3. SumFunctionOnSet(f, S) = f[x] + rest
  BY SumStep
<1>4. SumFunctionOnSet(g, S \ {x}) = rest
  BY <1>2, SumSame
<1>5. SumFunctionOnSet(g, S) = g[x] + rest
  BY <1>1, <1>4, SumStep
<1>6. rest \in Nat /\ f[x] \in Nat
  BY <1>2, SumStep
<1> HIDE DEF rest
<1> QED
  BY <1>3, <1>5, <1>6

(* One term is added. *)
LEMMA SumInsert ==
  ASSUME NEW f, NEW g, NEW S, IsFiniteSet(S), NEW x, x \notin S,
         \A y \in S : f[y] \in Nat /\ g[y] = f[y], g[x] \in Nat
  PROVE  SumFunctionOnSet(g, S \union {x}) = SumFunctionOnSet(f, S) + g[x]
<1> DEFINE T == S \union {x}
<1>1. IsFiniteSet(T) /\ x \in T /\ T \ {x} = S /\ \A y \in T : g[y] \in Nat
  BY FS_AddElement
<1>2. SumFunctionOnSet(g, T) = g[x] + SumFunctionOnSet(g, T \ {x})
  BY <1>1, SumStep
<1>3. SumFunctionOnSet(g, S) = SumFunctionOnSet(f, S) /\ SumFunctionOnSet(f, S) \in Nat
  BY SumSame, SumStep
<1> QED
  BY <1>1, <1>2, <1>3

(* Sums are added term by term. *)
LEMMA SumAdd ==
  ASSUME NEW f, NEW g, NEW h, NEW S, IsFiniteSet(S),
         \A x \in S : f[x] \in Nat /\ g[x] \in Nat /\ h[x] = f[x] + g[x]
  PROVE  SumFunctionOnSet(h, S) = SumFunctionOnSet(f, S) + SumFunctionOnSet(g, S)
<1> DEFINE Good == {U \in SUBSET S : SumFunctionOnSet(h, U)
                                     = SumFunctionOnSet(f, U) + SumFunctionOnSet(g, U)}
<1>0. \A x \in S : f[x] \in Nat /\ g[x] \in Nat /\ h[x] \in Nat
  OBVIOUS
<1>1. ASSUME NEW U \in SUBSET S, \A x \in U : U \ {x} \in Good PROVE U \in Good
  <2>1. IsFiniteSet(U) /\ \A x \in U : IsFiniteSet(U \ {x})
    BY FS_Subset
  <2>2. CASE U = {}
    <3>1. SumFunctionOnSet(h, U) = 0 /\ SumFunctionOnSet(f, U) = 0 /\ SumFunctionOnSet(g, U) = 0
      BY <1>0, <2>1, <2>2, SumStep
    <3> QED
      BY <3>1
  <2>3. CASE U # {}
    <3>1. PICK x \in U : TRUE
      BY <2>3
    <3> DEFINE V == U \ {x}
               sf == SumFunctionOnSet(f, V)
               sg == SumFunctionOnSet(g, V)
               sh == SumFunctionOnSet(h, V)
    <3>2. /\ SumFunctionOnSet(f, U) = f[x] + sf
          /\ SumFunctionOnSet(g, U) = g[x] + sg
          /\ SumFunctionOnSet(h, U) = h[x] + sh
      BY <1>0, <2>1, SumStep
    <3>3. sf \in Nat /\ sg \in Nat /\ sh \in Nat
      BY <1>0, <2>1, SumStep
    <3>4. sh = sf + sg
      BY <1>1
    <3> HIDE DEF sf, sg, sh
    <3>5. h[x] + sh = (f[x] + sf) + (g[x] + sg)
      BY <1>0, <3>3, <3>4
    <3> QED
      BY <3>2, <3>5
  <2> QED
    BY <2>2, <2>3
<1>2. SUBSET S \subseteq Good
  <2> HIDE DEF Good
  <2> QED
    BY <1>1, SubsetInduct
<1> QED
  BY <1>2

(* A cardinality is a sum of ones. *)
LEMMA SumOnes ==
  ASSUME NEW f, NEW S, IsFiniteSet(S), \A x \in S : f[x] = 1
  PROVE  SumFunctionOnSet(f, S) = Cardinality(S)
<1> DEFINE Good == {U \in SUBSET S : SumFunctionOnSet(f, U) = Cardinality(U)}
<1>1. ASSUME NEW U \in SUBSET S, \A x \in U : U \ {x} \in Good PROVE U \in Good
  <2>1. IsFiniteSet(U) /\ Cardinality(U) \in Nat
    BY FS_Subset, FS_CardinalityType
  <2>2. CASE U = {}
    BY <2>1, <2>2, SumStep, FS_EmptySet
  <2>3. CASE U # {}
    <3>1. PICK x \in U : TRUE
      BY <2>3
    <3>2. SumFunctionOnSet(f, U) = 1 + SumFunctionOnSet(f, U \ {x})
      BY <2>1, SumStep
    <3>3. Cardinality(U \ {x}) = Cardinality(U) - 1
      BY <2>1, FS_RemoveElement
    <3>4. SumFunctionOnSet(f, U \ {x}) = Cardinality(U \ {x})
      BY <1>1
    <3> QED
      BY <2>1, <3>2, <3>3, <3>4
  <2> QED
    BY <2>2, <2>3
<1>2. SUBSET S \subseteq Good
  <2> HIDE DEF Good
  <2> QED
    BY <1>1, SubsetInduct
<1> QED
  BY <1>2

(* Summing over an image without collisions is summing over the original. *)
LEMMA SumImage ==
  ASSUME NEW S, IsFiniteSet(S), NEW m, NEW e, NEW f,
         \A x, y \in S : m[x] = m[y] => x = y,
         \A x \in S : f[x] \in Nat /\ e[m[x]] = f[x]
  PROVE  SumFunctionOnSet(e, {m[x] : x \in S}) = SumFunctionOnSet(f, S)
<1> DEFINE Im(U) == {m[x] : x \in U}
           Good == {U \in SUBSET S : IsFiniteSet(Im(U)) /\ SumFunctionOnSet(e, Im(U)) = SumFunctionOnSet(f, U)}
<1>1. ASSUME NEW U \in SUBSET S, \A x \in U : U \ {x} \in Good PROVE U \in Good
  <2>1. IsFiniteSet(U)
    BY FS_Subset
  <2>2. CASE U = {}
    <3>1. Im(U) = {}
      BY <2>2
    <3>2. SumFunctionOnSet(e, {}) = 0 /\ SumFunctionOnSet(f, {}) = 0 /\ IsFiniteSet({})
      BY FS_EmptySet, SumStep
    <3> QED
      BY <2>2, <3>1, <3>2
  <2>3. CASE U # {}
    <3>1. PICK x \in U : TRUE
      BY <2>3
    <3> DEFINE V == U \ {x}
               iu == Im(U)
               iv == Im(V)
    <3>2. iu = iv \union {m[x]} /\ m[x] \notin iv /\ \A y \in iv : e[y] \in Nat
      OBVIOUS
    <3>3. IsFiniteSet(iv) /\ SumFunctionOnSet(e, iv) = SumFunctionOnSet(f, V)
      BY <1>1
    <3>4. e[m[x]] \in Nat /\ e[m[x]] = f[x]
      OBVIOUS
    <3>5. SumFunctionOnSet(f, U) = f[x] + SumFunctionOnSet(f, V)
      BY <2>1, SumStep
    <3>6. SumFunctionOnSet(f, V) \in Nat
      BY <2>1, FS_Subset, SumStep
    <3> HIDE DEF iu, iv
    <3>7. IsFiniteSet(iu)
      BY <3>2, <3>3, FS_AddElement
    <3>8. SumFunctionOnSet(e, iv \union {m[x]}) = SumFunctionOnSet(e, iv) + e[m[x]]
      BY <3>2, <3>3, <3>4, SumInsert
    <3>9. SumFunctionOnSet(e, iu) = SumFunctionOnSet(f, U)
      BY <3>2, <3>3, <3>4, <3>5, <3>6, <3>8
    <3> QED
      BY <3>7, <3>9 DEF iu
  <2> QED
    BY <2>2, <2>3
<1>2. SUBSET S \subseteq Good
  <2> HIDE DEF Good
  <2> QED
    BY <1>1, SubsetInduct
<1> QED
  BY <1>2

(* The sums over the parts of a partition add up to the whole sum. *)
LEMMA SumParts ==
  ASSUME NEW K, IsFiniteSet(K), NEW D, IsFiniteSet(D), NEW f, NEW owner,
         \A k \in K : f[k] \in Nat /\ owner[k] \in D
  PROVE  SumFunctionOnSet([d \in D |-> SumFunctionOnSet(f, {k \in K : owner[k] = d})], D)
           = SumFunctionOnSet(f, K)
<1> DEFINE Of(U, d) == {k \in U : owner[k] = d}
           P(U) == [d \in D |-> SumFunctionOnSet(f, Of(U, d))]
           Good == {U \in SUBSET K : SumFunctionOnSet(P(U), D) = SumFunctionOnSet(f, U)}
<1>0. \A U \in SUBSET K : /\ IsFiniteSet(U)
                          /\ SumFunctionOnSet(f, U) \in Nat
                          /\ \A d \in D : IsFiniteSet(Of(U, d)) /\ P(U)[d] \in Nat
  <2>1. \A U \in SUBSET K : IsFiniteSet(U) /\ SumFunctionOnSet(f, U) \in Nat
    BY FS_Subset, SumStep
  <2>2. \A U \in SUBSET K : \A d \in D : Of(U, d) \in SUBSET K
    OBVIOUS
  <2> QED
    BY <2>1, <2>2
<1>1. ASSUME NEW U \in SUBSET K, \A x \in U : U \ {x} \in Good PROVE U \in Good
  <2>1. CASE U = {}
    <3>1. \A d \in D : P(U)[d] = 0
      <4>1. \A d \in D : Of(U, d) = {}
        BY <2>1
      <4> QED
        BY <4>1, SumStep
    <3>2. SumFunctionOnSet(P(U), D) = 0
      <4> DEFINE z == P(U)
                 Zero == {E \in SUBSET D : SumFunctionOnSet(z, E) = 0}
      <4>1. \A d \in D : z[d] = 0
        BY <3>1
      <4> HIDE DEF z
      <4>2. ASSUME NEW E \in SUBSET D, \A x \in E : E \ {x} \in Zero PROVE E \in Zero
        <5>1. IsFiniteSet(E) /\ \A d \in E : z[d] \in Nat
          BY <4>1, FS_Subset
        <5>2. CASE E = {}
          BY <5>1, <5>2, SumStep
        <5>3. CASE E # {}
          <6>1. PICK d \in E : TRUE
            BY <5>3
          <6>2. SumFunctionOnSet(z, E) = z[d] + SumFunctionOnSet(z, E \ {d})
            BY <5>1, SumStep
          <6>3. SumFunctionOnSet(z, E \ {d}) = 0 /\ z[d] = 0
            BY <4>1, <4>2
          <6> QED
            BY <6>2, <6>3
        <5> QED
          BY <5>2, <5>3
      <4>3. SUBSET D \subseteq Zero
        <5> HIDE DEF Zero
        <5> QED
          BY <4>2, SubsetInduct
      <4> QED
        BY <4>3 DEF z
    <3>3. SumFunctionOnSet(f, U) = 0
      BY <2>1, SumStep
    <3> QED
      BY <3>2, <3>3
  <2>2. CASE U # {}
    <3>1. PICK x \in U : TRUE
      BY <2>2
    <3> DEFINE V == U \ {x}
               o == owner[x]
               pu == P(U)
               pv == P(V)
    <3>2. V \in SUBSET K /\ o \in D /\ f[x] \in Nat
      OBVIOUS
    <3>3. SumFunctionOnSet(f, U) = f[x] + SumFunctionOnSet(f, V)
      BY <1>0, SumStep
    <3>4. \A d \in D \ {o} : pu[d] = pv[d]
      <4>1. \A d \in D \ {o} : Of(U, d) = Of(V, d)
        OBVIOUS
      <4> QED
        BY <4>1
    <3>5. pu[o] = f[x] + pv[o]
      <4>1. Of(U, o) \ {x} = Of(V, o) /\ x \in Of(U, o)
        OBVIOUS
      <4>2. \A k \in Of(U, o) : f[k] \in Nat
        OBVIOUS
      <4>3. SumFunctionOnSet(f, Of(U, o)) = f[x] + SumFunctionOnSet(f, Of(U, o) \ {x})
        BY <1>0, <3>2, <4>1, <4>2, SumStep
      <4> QED
        BY <3>2, <4>1, <4>3
    <3>6. \A d \in D : pv[d] \in Nat /\ pu[d] \in Nat
      BY <1>0, <3>2
    <3>7. SumFunctionOnSet(pv, D) = SumFunctionOnSet(f, V)
      BY <1>1
    <3>8. SumFunctionOnSet(f, V) \in Nat
      BY <1>0, <3>2
    <3> HIDE DEF pu, pv
    <3>9. SumFunctionOnSet(pu, D) = SumFunctionOnSet(pv, D) - pv[o] + pu[o]
      BY <3>2, <3>4, <3>6, SumChange
    <3>10. pv[o] \in Nat
      BY <3>2, <3>6
    <3> HIDE DEF V, o
    <3>11. SumFunctionOnSet(pu, D) = SumFunctionOnSet(f, U)
      BY <3>2, <3>3, <3>5, <3>7, <3>8, <3>9, <3>10
    <3> QED
      BY <3>11 DEF pu
  <2> QED
    BY <2>1, <2>2
<1>2. SUBSET K \subseteq Good
  <2> HIDE DEF Good
  <2> QED
    BY <1>1, SubsetInduct
<1>3. K \in Good
  BY <1>2
<1> QED
  BY <1>3

(* The same, with the parts and their sums named. *)
LEMMA SumPartition ==
  ASSUME NEW K, IsFiniteSet(K), NEW D, IsFiniteSet(D), NEW f, NEW owner, NEW own, NEW g,
         \A k \in K : f[k] \in Nat /\ owner[k] \in D,
         \A d \in D : /\ own[d] \subseteq K /\ g[d] = SumFunctionOnSet(f, own[d])
                      /\ \A k \in K : k \in own[d] <=> owner[k] = d
  PROVE  SumFunctionOnSet(g, D) = SumFunctionOnSet(f, K)
<1> DEFINE h == [d \in D |-> SumFunctionOnSet(f, {k \in K : owner[k] = d})]
<1>1. SumFunctionOnSet(h, D) = SumFunctionOnSet(f, K)
  BY SumParts
<1>2. ASSUME NEW d \in D PROVE g[d] \in Nat /\ h[d] = g[d]
  <2>1. own[d] = {k \in K : owner[k] = d}
    OBVIOUS
  <2>2. h[d] = g[d]
    BY <2>1
  <2>3. IsFiniteSet(own[d])
    BY FS_Subset
  <2>4. \A k \in own[d] : f[k] \in Nat
    OBVIOUS
  <2>5. SumFunctionOnSet(f, own[d]) \in Nat
    BY <2>3, <2>4, SumStep
  <2> QED
    BY <2>2, <2>5
<1> HIDE DEF h
<1>3. SumFunctionOnSet(h, D) = SumFunctionOnSet(g, D)
  BY <1>2, SumSame
<1> QED
  BY <1>1, <1>3

-----------------------------------------------------------------------------
(* What the counters count. *)

(* The streams of a session and the parts its counters count are finite. *)
LEMMA FiniteParts ==
  ASSUME NEW ss, DOMAIN ss.streams \subseteq StreamId
  PROVE  /\ IsFiniteSet(DOMAIN ss.streams)
         /\ IsFiniteSet(ActiveStreams(ss))
         /\ \A s : IsFiniteSet(InState(ss, s))
         /\ Cardinality(DOMAIN ss.streams) \in Nat
         /\ Cardinality(ActiveStreams(ss)) \in Nat
         /\ \A s : Cardinality(InState(ss, s)) \in Nat
<1>1. IsFiniteSet(DOMAIN ss.streams)
  BY StreamIdAssumption, FS_Subset
<1>2. /\ ActiveStreams(ss) \subseteq DOMAIN ss.streams
      /\ \A s : InState(ss, s) \subseteq DOMAIN ss.streams
  BY DEF ActiveStreams, InState
<1>3. IsFiniteSet(ActiveStreams(ss)) /\ \A s : IsFiniteSet(InState(ss, s))
  BY <1>1, <1>2, FS_Subset
<1> QED
  BY <1>1, <1>3, FS_CardinalityType

(* Queueing or draining events touches no field that SessionInv reads. *)
LEMMA EventsKeepInv ==
  ASSUME NEW ss, NEW e, SessionInv(ss)
  PROVE  SessionInv(add_event(ss, e)) /\ SessionInv(take_events(ss))
<1>1. \A q : SessionInv([ss EXCEPT !.pending_events = q])
  <2> TAKE q
  <2> DEFINE t == [ss EXCEPT !.pending_events = q]
  <2>1. /\ DOMAIN t = SessionField /\ t.state = ss.state /\ t.expires_at = ss.expires_at
        /\ t.streams = ss.streams /\ t.total_streams = ss.total_streams
        /\ t.active_streams = ss.active_streams
        /\ t.completed_streams = ss.completed_streams
        /\ t.failed_streams = ss.failed_streams /\ t.total_frames = ss.total_frames
    BY DEF SessionInv, SessionOK, SessionField
  <2> HIDE DEF t
  <2>2. ActiveStreams(t) = ActiveStreams(ss) /\ \A s : InState(t, s) = InState(ss, s)
    BY <2>1 DEF ActiveStreams, InState
  <2>3. SessionOK(t)
    BY <2>1 DEF SessionInv, SessionOK
  <2>4. ActiveCountOK(t) /\ CountersOK(t) /\ ClosedIdle(t)
    BY <2>1, <2>2 DEF SessionInv, ActiveCountOK, CountersOK, ClosedIdle
  <2>5. SequencesOK(t)
    BY <2>1 DEF SessionInv, SequencesOK
  <2> QED
    BY <2>3, <2>4, <2>5 DEF SessionInv, t
<1> QED
  BY <1>1 DEF add_event, take_events

(* A new session satisfies the invariant. *)
LEMMA NewSessionInv ==
  ASSUME NEW now \in Nat
  PROVE  SessionInv(NewSession(now))
<1> DEFINE t == NewSession(now)
<1>1. SessionOK(t) /\ SequencesOK(t)
  BY TimeoutAssumption
     DEF NewSession, SessionOK, SessionField, SessionState, SequencesOK
<1>2. /\ t.state = "Initializing" /\ DOMAIN t.streams = {} /\ t.total_streams = 0
      /\ t.active_streams = 0 /\ t.completed_streams = 0 /\ t.failed_streams = 0
  BY DEF NewSession
<1> HIDE DEF t
<1>3. ActiveStreams(t) = {} /\ \A s : InState(t, s) = {}
  BY <1>2 DEF ActiveStreams, InState
<1>4. ActiveCountOK(t) /\ CountersOK(t) /\ ClosedIdle(t)
  BY <1>2, <1>3, FS_EmptySet DEF ActiveCountOK, CountersOK, ClosedIdle
<1> QED
  BY <1>1, <1>4 DEF SessionInv, t

-----------------------------------------------------------------------------
(* Session lifecycle. *)

(* activate changes no stream and no counter. *)
LEMMA ActivateInv ==
  ASSUME NEW ss, SessionInv(ss), CanActivate(ss)
  PROVE  SessionInv(activate(ss))
<1> DEFINE t == [ss EXCEPT !.state = "Active"]
<1>1. /\ DOMAIN t = SessionField /\ t.state = "Active" /\ t.expires_at = ss.expires_at
      /\ t.streams = ss.streams /\ t.total_streams = ss.total_streams
      /\ t.active_streams = ss.active_streams
      /\ t.completed_streams = ss.completed_streams
      /\ t.failed_streams = ss.failed_streams /\ t.total_frames = ss.total_frames
  BY DEF SessionInv, SessionOK, SessionField
<1> HIDE DEF t
<1>2. ActiveStreams(t) = ActiveStreams(ss) /\ \A s : InState(t, s) = InState(ss, s)
  BY <1>1 DEF ActiveStreams, InState
<1>3. SessionOK(t) /\ SequencesOK(t)
  BY <1>1 DEF SessionInv, SessionOK, SessionState, SequencesOK
<1>4. ActiveCountOK(t) /\ CountersOK(t) /\ ClosedIdle(t)
  BY <1>1, <1>2
     DEF SessionInv, CanActivate, ActiveCountOK, CountersOK, ClosedIdle, ClosedState
<1>5. SessionInv(t)
  BY <1>3, <1>4 DEF SessionInv
<1> QED
  BY <1>5, EventsKeepInv DEF activate, t

(* close cancels every active stream: nothing active is left, and the      *)
(* completed and failed streams are the ones there were.                   *)
LEMMA CloseInv ==
  ASSUME NEW ss, SessionInv(ss), CanClose(ss)
  PROVE  SessionInv(close(ss))
<1> DEFINE t == [ss EXCEPT !.state = "Completed", !.streams = CancelActive(@)]
<1>1. /\ DOMAIN t = SessionField /\ t.state = "Completed" /\ t.expires_at = ss.expires_at
      /\ t.streams = CancelActive(ss.streams) /\ t.total_streams = ss.total_streams
      /\ t.active_streams = ss.active_streams
      /\ t.completed_streams = ss.completed_streams
      /\ t.failed_streams = ss.failed_streams /\ t.total_frames = ss.total_frames
  BY DEF SessionInv, SessionOK, SessionField
<1> HIDE DEF t
<1>2. DOMAIN t.streams = DOMAIN ss.streams
  BY <1>1 DEF CancelActive
<1>3. \A id \in DOMAIN ss.streams : StreamOK(id, ss.streams[id])
  BY DEF SessionInv, SessionOK
<1>4. ASSUME NEW id \in DOMAIN ss.streams
      PROVE  /\ StreamOK(id, t.streams[id])
             /\ ~is_active(t.streams[id])
             /\ is_active(ss.streams[id]) => t.streams[id].state = "Cancelled"
             /\ ~is_active(ss.streams[id]) => t.streams[id] = ss.streams[id]
             /\ t.streams[id].next_sequence = ss.streams[id].next_sequence
             /\ t.streams[id].total_frames = ss.streams[id].total_frames
             /\ t.streams[id].patch_frames = ss.streams[id].patch_frames
  <2>1. CASE is_active(ss.streams[id])
    <3>1. t.streams[id] = [ss.streams[id] EXCEPT !.state = "Cancelled"]
      BY <2>1, <1>1 DEF CancelActive, CanCancel, cancel, is_active
    <3> QED
      BY <3>1, <2>1, <1>3 DEF StreamOK, StreamField, StreamState, is_active
  <2>2. CASE ~is_active(ss.streams[id])
    <3>1. t.streams[id] = ss.streams[id]
      BY <2>2, <1>1 DEF CancelActive, CanCancel, is_active
    <3> QED
      BY <3>1, <2>2, <1>3
  <2> QED
    BY <2>1, <2>2
<1>5. SessionOK(t)
  BY <1>1, <1>2, <1>4 DEF SessionInv, SessionOK, SessionState
<1>6. ActiveStreams(t) = {}
  BY <1>2, <1>4 DEF ActiveStreams
<1>7. /\ InState(t, "Completed") = InState(ss, "Completed")
      /\ InState(t, "Failed") = InState(ss, "Failed")
  BY <1>2, <1>4 DEF InState, is_active
<1>8. ActiveCountOK(t) /\ CountersOK(t) /\ ClosedIdle(t)
  BY <1>1, <1>2, <1>6, <1>7
     DEF SessionInv, CanClose, ActiveCountOK, CountersOK, ClosedIdle, ClosedState
<1>9. SequencesOK(t)
  BY <1>2, <1>4 DEF SessionInv, SequencesOK
<1>10. SessionInv(t)
  BY <1>5, <1>8, <1>9 DEF SessionInv
<1> QED
  BY <1>10, EventsKeepInv DEF close, t

(* force_close_expired drops the streams and keeps the counters. *)
LEMMA ForceCloseInv ==
  ASSUME NEW ss, SessionInv(ss)
  PROVE  SessionInv(force_close_expired(ss))
<1> DEFINE t == [ss EXCEPT !.state = "Failed", !.streams = <<>>]
<1>1. /\ DOMAIN t = SessionField /\ t.state = "Failed" /\ t.expires_at = ss.expires_at
      /\ DOMAIN t.streams = {} /\ t.total_streams = ss.total_streams
      /\ t.active_streams = ss.active_streams
      /\ t.completed_streams = ss.completed_streams
      /\ t.failed_streams = ss.failed_streams /\ t.total_frames = ss.total_frames
  BY DEF SessionInv, SessionOK, SessionField
<1> HIDE DEF t
<1>2. ActiveStreams(t) = {}
  BY <1>1 DEF ActiveStreams
<1>3. SessionOK(t) /\ SequencesOK(t)
  BY <1>1 DEF SessionInv, SessionOK, SessionState, SequencesOK
<1>4. ActiveCountOK(t) /\ CountersOK(t) /\ ClosedIdle(t)
  BY <1>1, <1>2 DEF SessionInv, ActiveCountOK, CountersOK, ClosedIdle, ClosedState
<1>5. SessionInv(t)
  BY <1>3, <1>4 DEF SessionInv
<1> QED
  BY <1>5, EventsKeepInv DEF force_close_expired, t

(* extend_timeout moves the expiry instant and nothing else. *)
LEMMA ExtendTimeoutInv ==
  ASSUME NEW ss, NEW additional \in Nat, SessionInv(ss)
  PROVE  SessionInv(extend_timeout(ss, additional))
<1> DEFINE t == [ss EXCEPT !.expires_at = @ + additional]
<1>1. /\ DOMAIN t = SessionField /\ t.state = ss.state /\ t.expires_at \in Nat
      /\ t.streams = ss.streams /\ t.total_streams = ss.total_streams
      /\ t.active_streams = ss.active_streams
      /\ t.completed_streams = ss.completed_streams
      /\ t.failed_streams = ss.failed_streams /\ t.total_frames = ss.total_frames
  BY DEF SessionInv, SessionOK, SessionField
<1> HIDE DEF t
<1>2. ActiveStreams(t) = ActiveStreams(ss) /\ \A s : InState(t, s) = InState(ss, s)
  BY <1>1 DEF ActiveStreams, InState
<1>3. SessionOK(t) /\ SequencesOK(t)
  BY <1>1 DEF SessionInv, SessionOK, SequencesOK
<1>4. ActiveCountOK(t) /\ CountersOK(t) /\ ClosedIdle(t)
  BY <1>1, <1>2 DEF SessionInv, ActiveCountOK, CountersOK, ClosedIdle
<1>5. SessionInv(t)
  BY <1>3, <1>4 DEF SessionInv
<1> QED
  BY <1>5, EventsKeepInv DEF extend_timeout, t

-----------------------------------------------------------------------------
(* Stream lifecycle. *)

(* A new stream is Preparing: one more stream, one more active stream. *)
LEMMA CreateStreamInv ==
  ASSUME NEW ss, NEW now, NEW id \in StreamId, NEW source \in Source,
         NEW rules, RulesOK(rules),
         SessionInv(ss), ~HasStream(ss, id), CanCreateStream(ss, now)
  PROVE  SessionInv(create_stream(ss, id, source, rules))
<1> DEFINE st == NewStream(id, source, rules)
           t == [ss EXCEPT !.streams        = WithStream(@, id, st),
                           !.total_streams  = @ + 1,
                           !.active_streams = @ + 1]
<1>1. /\ DOMAIN t = SessionField /\ t.state = ss.state /\ t.expires_at = ss.expires_at
      /\ t.streams = WithStream(ss.streams, id, st)
      /\ t.total_streams = ss.total_streams + 1
      /\ t.active_streams = ss.active_streams + 1
      /\ t.completed_streams = ss.completed_streams
      /\ t.failed_streams = ss.failed_streams /\ t.total_frames = ss.total_frames
  BY DEF SessionInv, SessionOK, SessionField
<1>2. StreamOK(id, st) /\ st.state = "Preparing" /\ st.next_sequence = 1
      /\ st.total_frames = 0 /\ st.patch_frames = 0
  BY DEF StreamOK, NewStream, StreamField, StreamState
<1> HIDE DEF t, st
<1>3. /\ DOMAIN t.streams = DOMAIN ss.streams \union {id}
      /\ t.streams[id] = st
      /\ \A i \in DOMAIN ss.streams : t.streams[i] = ss.streams[i]
      /\ id \notin DOMAIN ss.streams
  BY <1>1 DEF WithStream, HasStream
<1>4. SessionOK(t)
  BY <1>1, <1>2, <1>3 DEF SessionInv, SessionOK
<1>5. SequencesOK(t)
  BY <1>2, <1>3 DEF SessionInv, SequencesOK
<1>6. /\ ActiveStreams(t) = ActiveStreams(ss) \union {id}
      /\ id \notin ActiveStreams(ss)
      /\ InState(t, "Completed") = InState(ss, "Completed")
      /\ InState(t, "Failed") = InState(ss, "Failed")
  BY <1>2, <1>3 DEF ActiveStreams, InState, is_active
<1>7. ss.state = "Active"
  BY DEF CanCreateStream, SessionActive
<1>8. /\ IsFiniteSet(DOMAIN ss.streams) /\ IsFiniteSet(ActiveStreams(ss))
      /\ Cardinality(DOMAIN ss.streams) \in Nat /\ Cardinality(ActiveStreams(ss)) \in Nat
  BY FiniteParts DEF SessionInv, SessionOK
<1>9. /\ Cardinality(ActiveStreams(t)) = Cardinality(ActiveStreams(ss)) + 1
      /\ Cardinality(DOMAIN t.streams) = Cardinality(DOMAIN ss.streams) + 1
  BY <1>3, <1>6, <1>8, FS_AddElement
<1>10. ActiveCountOK(t) /\ ClosedIdle(t)
  BY <1>1, <1>7, <1>9 DEF SessionInv, ActiveCountOK, ClosedIdle, ClosedState
<1>11. CountersOK(t)
  BY <1>1, <1>6, <1>7, <1>9 DEF SessionInv, SessionOK, CountersOK
<1>12. SessionInv(t)
  BY <1>4, <1>5, <1>10, <1>11 DEF SessionInv
<1> QED
  BY <1>12, EventsKeepInv DEF create_stream, t, st

(***************************************************************************)
(* A change that keeps every stream active, completed or failed as it was, *)
(* and every stream's numbers consistent, preserves the invariant: t is    *)
(* the session after it.                                                   *)
(***************************************************************************)
LEMMA SameKindsInv ==
  ASSUME NEW ss, NEW t, SessionInv(ss),
         DOMAIN t = SessionField,
         t.state = ss.state, t.expires_at = ss.expires_at,
         t.total_streams = ss.total_streams, t.active_streams = ss.active_streams,
         t.completed_streams = ss.completed_streams,
         t.failed_streams = ss.failed_streams,
         t.total_frames \in Nat,
         DOMAIN t.streams = DOMAIN ss.streams,
         \A i \in DOMAIN ss.streams :
           /\ StreamOK(i, t.streams[i])
           /\ t.streams[i].next_sequence = t.streams[i].total_frames + 1
           /\ t.streams[i].total_frames = t.streams[i].patch_frames
           /\ \/ t.streams[i].state = ss.streams[i].state
              \/ is_active(ss.streams[i]) /\ is_active(t.streams[i])
  PROVE  SessionInv(t)
<1>1. /\ ActiveStreams(t) = ActiveStreams(ss)
      /\ InState(t, "Completed") = InState(ss, "Completed")
      /\ InState(t, "Failed") = InState(ss, "Failed")
  BY DEF ActiveStreams, InState, is_active
<1>2. SessionOK(t)
  BY DEF SessionInv, SessionOK
<1>3. SequencesOK(t)
  BY DEF SequencesOK
<1>4. ActiveCountOK(t) /\ CountersOK(t) /\ ClosedIdle(t)
  BY <1>1 DEF SessionInv, ActiveCountOK, CountersOK, ClosedIdle
<1> QED
  BY <1>2, <1>3, <1>4 DEF SessionInv

(* The same for one stream that is active before and after. *)
LEMMA OneActiveStreamInv ==
  ASSUME NEW ss, NEW id, NEW st, SessionInv(ss), HasStream(ss, id),
         is_active(ss.streams[id]), is_active(st), StreamOK(id, st),
         st.next_sequence = st.total_frames + 1, st.total_frames = st.patch_frames
  PROVE  SessionInv([ss EXCEPT !.streams[id] = st])
<1> DEFINE t == [ss EXCEPT !.streams[id] = st]
<1>1. /\ DOMAIN t = SessionField /\ t.state = ss.state /\ t.expires_at = ss.expires_at
      /\ t.streams = [ss.streams EXCEPT ![id] = st]
      /\ t.total_streams = ss.total_streams
      /\ t.active_streams = ss.active_streams
      /\ t.completed_streams = ss.completed_streams
      /\ t.failed_streams = ss.failed_streams /\ t.total_frames = ss.total_frames
  BY DEF SessionInv, SessionOK, SessionField
<1> HIDE DEF t
<1>2. /\ DOMAIN t.streams = DOMAIN ss.streams
      /\ \A i \in DOMAIN ss.streams :
           t.streams[i] = IF i = id THEN st ELSE ss.streams[i]
  BY <1>1
<1>3. \A i \in DOMAIN ss.streams :
           /\ StreamOK(i, t.streams[i])
           /\ t.streams[i].next_sequence = t.streams[i].total_frames + 1
           /\ t.streams[i].total_frames = t.streams[i].patch_frames
           /\ \/ t.streams[i].state = ss.streams[i].state
              \/ is_active(ss.streams[i]) /\ is_active(t.streams[i])
  BY <1>2 DEF SessionInv, SessionOK, SequencesOK
<1>4. t.total_frames \in Nat
  BY <1>1 DEF SessionInv, SessionOK
<1>5. SessionInv(t)
  BY <1>1, <1>2, <1>3, <1>4, SameKindsInv
<1> QED
  BY <1>5 DEF t

(* start_stream: a Preparing stream becomes Streaming, active all the while. *)
LEMMA StartStreamInv ==
  ASSUME NEW ss, NEW id, SessionInv(ss), CanStartStream(ss, id)
  PROVE  SessionInv(start_stream(ss, id))
<1> DEFINE old == ss.streams[id]
           st == start_streaming(old)
<1>1. HasStream(ss, id) /\ StreamOK(id, old) /\ is_active(old)
      /\ old.next_sequence = old.total_frames + 1 /\ old.total_frames = old.patch_frames
  BY DEF SessionInv, SessionOK, SequencesOK, CanStartStream, CanStartStreaming,
         HasStream, is_active
<1>2. /\ StreamOK(id, st) /\ is_active(st)
      /\ st.next_sequence = st.total_frames + 1 /\ st.total_frames = st.patch_frames
  BY <1>1 DEF start_streaming, StreamOK, StreamField, StreamState, is_active
<1>3. SessionInv([ss EXCEPT !.streams[id] = st])
  BY <1>1, <1>2, OneActiveStreamInv
<1> QED
  BY <1>3, EventsKeepInv DEF start_stream

(* update_stream_config replaces the rules of an active stream. *)
LEMMA UpdateStreamConfigInv ==
  ASSUME NEW ss, NEW id, NEW rules, RulesOK(rules), SessionInv(ss),
         CanUpdateStreamConfig(ss, id)
  PROVE  SessionInv(update_stream_config(ss, id, rules))
<1> DEFINE old == ss.streams[id]
           st == update_config(old, rules)
<1>1. HasStream(ss, id) /\ StreamOK(id, old) /\ is_active(old)
      /\ old.next_sequence = old.total_frames + 1 /\ old.total_frames = old.patch_frames
  BY DEF SessionInv, SessionOK, SequencesOK, CanUpdateStreamConfig, CanUpdateConfig,
         HasStream
<1>2. /\ StreamOK(id, st) /\ is_active(st)
      /\ st.next_sequence = st.total_frames + 1 /\ st.total_frames = st.patch_frames
  BY <1>1 DEF update_config, StreamOK, StreamField, is_active
<1>3. SessionInv([ss EXCEPT !.streams[id] = st])
  BY <1>1, <1>2, OneActiveStreamInv
<1> QED
  BY <1>3, EventsKeepInv DEF update_stream_config

(* The update that follows the creation finds the new stream, Preparing. *)
LEMMA CreateStreamWithConfigInv ==
  ASSUME NEW ss, NEW now, NEW id \in StreamId, NEW source \in Source,
         NEW rules, RulesOK(rules),
         SessionInv(ss), ~HasStream(ss, id), CanCreateStream(ss, now)
  PROVE  SessionInv(create_stream_with_config(ss, id, source, rules))
<1> DEFINE t == create_stream(ss, id, source, <<>>)
<1>0. RulesOK(<<>>)
  BY DEF RulesOK
<1>1. SessionInv(t)
  BY <1>0, CreateStreamInv
<1>2. t.streams = WithStream(ss.streams, id, NewStream(id, source, <<>>))
  BY DEF create_stream, add_event, SessionInv, SessionOK, SessionField
<1>3. id \in DOMAIN t.streams /\ t.streams[id].state = "Preparing"
  BY <1>2 DEF WithStream, NewStream
<1>4. CanUpdateStreamConfig(t, id)
  BY <1>3 DEF CanUpdateStreamConfig, HasStream, CanUpdateConfig, is_active
<1> QED
  BY <1>1, <1>4, UpdateStreamConfigInv DEF create_stream_with_config

(***************************************************************************)
(* An active stream completes: the session is not closed, so its active    *)
(* counter is exact and at least one, and the subtraction does not         *)
(* saturate.                                                               *)
(***************************************************************************)
LEMMA CompleteStreamInv ==
  ASSUME NEW ss, NEW id, SessionInv(ss), CanCompleteStream(ss, id)
  PROVE  SessionInv(complete_stream(ss, id))
<1> DEFINE old == ss.streams[id]
           st == complete(old)
           t == [ss EXCEPT !.streams[id]       = st,
                           !.active_streams    = SaturatingSub(@, 1),
                           !.completed_streams = @ + 1]
<1>1. /\ id \in DOMAIN ss.streams /\ id \in StreamId /\ StreamOK(id, old)
      /\ is_active(old) /\ old.state \notin FinishedState
      /\ old.next_sequence = old.total_frames + 1 /\ old.total_frames = old.patch_frames
  BY DEF SessionInv, SessionOK, SequencesOK, CanCompleteStream, CanComplete, HasStream,
         is_active, FinishedState
<1>2. /\ StreamOK(id, st) /\ st.state = "Completed"
      /\ st.next_sequence = st.total_frames + 1 /\ st.total_frames = st.patch_frames
  BY <1>1 DEF complete, StreamOK, StreamField, StreamState
<1>3. /\ DOMAIN t = SessionField /\ t.state = ss.state /\ t.expires_at = ss.expires_at
      /\ t.streams = [ss.streams EXCEPT ![id] = st]
      /\ t.total_streams = ss.total_streams
      /\ t.active_streams = SaturatingSub(ss.active_streams, 1)
      /\ t.completed_streams = ss.completed_streams + 1
      /\ t.failed_streams = ss.failed_streams /\ t.total_frames = ss.total_frames
  BY DEF SessionInv, SessionOK, SessionField
<1> HIDE DEF t, st
<1>4. /\ DOMAIN t.streams = DOMAIN ss.streams
      /\ \A i \in DOMAIN ss.streams :
           t.streams[i] = IF i = id THEN st ELSE ss.streams[i]
  BY <1>3
<1>5. /\ ActiveStreams(t) = ActiveStreams(ss) \ {id} /\ id \in ActiveStreams(ss)
      /\ InState(t, "Completed") = InState(ss, "Completed") \union {id}
      /\ id \notin InState(ss, "Completed")
      /\ InState(t, "Failed") = InState(ss, "Failed")
  BY <1>1, <1>2, <1>4 DEF ActiveStreams, InState, is_active, FinishedState
<1>6. /\ IsFiniteSet(ActiveStreams(ss)) /\ Cardinality(ActiveStreams(ss)) \in Nat
      /\ IsFiniteSet(InState(ss, "Completed"))
      /\ Cardinality(InState(ss, "Completed")) \in Nat
  BY FiniteParts DEF SessionInv, SessionOK
<1>7. /\ Cardinality(ActiveStreams(t)) = Cardinality(ActiveStreams(ss)) - 1
      /\ Cardinality(InState(t, "Completed")) = Cardinality(InState(ss, "Completed")) + 1
  <2>1. Cardinality(ActiveStreams(t)) = Cardinality(ActiveStreams(ss)) - 1
    BY <1>5, <1>6, FS_RemoveElement
  <2>2. Cardinality(InState(t, "Completed")) = Cardinality(InState(ss, "Completed")) + 1
    BY <1>5, <1>6, FS_AddElement
  <2> QED
    BY <2>1, <2>2
<1>8. IsFiniteSet(ActiveStreams(ss) \ {id}) /\ Cardinality(ActiveStreams(t)) \in Nat
  BY <1>5, <1>6, FS_RemoveElement, FS_CardinalityType
<1>9. ss.state \notin ClosedState
  BY <1>5 DEF SessionInv, ClosedIdle
<1>10. ss.active_streams = Cardinality(ActiveStreams(ss)) /\ ss.active_streams \in Nat
  BY <1>9 DEF SessionInv, ActiveCountOK, SessionOK
<1>11. t.active_streams = ss.active_streams - 1 /\ t.active_streams \in Nat
  BY <1>3, <1>6, <1>7, <1>8, <1>10 DEF SaturatingSub
<1>12. SessionOK(t) /\ SequencesOK(t)
  BY <1>2, <1>3, <1>4, <1>11 DEF SessionInv, SessionOK, SequencesOK
<1>13. ActiveCountOK(t) /\ ClosedIdle(t)
  BY <1>3, <1>7, <1>9, <1>10, <1>11 DEF ActiveCountOK, ClosedIdle
<1>14. CountersOK(t)
  BY <1>3, <1>4, <1>5, <1>7, <1>9, <1>10, <1>11
     DEF SessionInv, SessionOK, CountersOK, ClosedState
<1>15. SessionInv(t)
  BY <1>12, <1>13, <1>14 DEF SessionInv
<1> QED
  BY <1>15, EventsKeepInv DEF complete_stream, t, st

(* An active stream fails: the same argument. *)
LEMMA FailStreamInv ==
  ASSUME NEW ss, NEW id, SessionInv(ss), CanFailStream(ss, id)
  PROVE  SessionInv(fail_stream(ss, id))
<1> DEFINE old == ss.streams[id]
           st == fail(old)
           t == [ss EXCEPT !.streams[id]       = st,
                           !.active_streams    = SaturatingSub(@, 1),
                           !.failed_streams    = @ + 1]
<1>1. /\ id \in DOMAIN ss.streams /\ id \in StreamId /\ StreamOK(id, old)
      /\ is_active(old) /\ old.state \notin FinishedState
      /\ old.next_sequence = old.total_frames + 1 /\ old.total_frames = old.patch_frames
  BY DEF SessionInv, SessionOK, SequencesOK, CanFailStream, CanFail, HasStream,
         is_active, FinishedState
<1>2. /\ StreamOK(id, st) /\ st.state = "Failed"
      /\ st.next_sequence = st.total_frames + 1 /\ st.total_frames = st.patch_frames
  BY <1>1 DEF fail, StreamOK, StreamField, StreamState
<1>3. /\ DOMAIN t = SessionField /\ t.state = ss.state /\ t.expires_at = ss.expires_at
      /\ t.streams = [ss.streams EXCEPT ![id] = st]
      /\ t.total_streams = ss.total_streams
      /\ t.active_streams = SaturatingSub(ss.active_streams, 1)
      /\ t.failed_streams = ss.failed_streams + 1
      /\ t.completed_streams = ss.completed_streams /\ t.total_frames = ss.total_frames
  BY DEF SessionInv, SessionOK, SessionField
<1> HIDE DEF t, st
<1>4. /\ DOMAIN t.streams = DOMAIN ss.streams
      /\ \A i \in DOMAIN ss.streams :
           t.streams[i] = IF i = id THEN st ELSE ss.streams[i]
  BY <1>3
<1>5. /\ ActiveStreams(t) = ActiveStreams(ss) \ {id} /\ id \in ActiveStreams(ss)
      /\ InState(t, "Failed") = InState(ss, "Failed") \union {id}
      /\ id \notin InState(ss, "Failed")
      /\ InState(t, "Completed") = InState(ss, "Completed")
  BY <1>1, <1>2, <1>4 DEF ActiveStreams, InState, is_active, FinishedState
<1>6. /\ IsFiniteSet(ActiveStreams(ss)) /\ Cardinality(ActiveStreams(ss)) \in Nat
      /\ IsFiniteSet(InState(ss, "Failed"))
      /\ Cardinality(InState(ss, "Failed")) \in Nat
  BY FiniteParts DEF SessionInv, SessionOK
<1>7. /\ Cardinality(ActiveStreams(t)) = Cardinality(ActiveStreams(ss)) - 1
      /\ Cardinality(InState(t, "Failed")) = Cardinality(InState(ss, "Failed")) + 1
  <2>1. Cardinality(ActiveStreams(t)) = Cardinality(ActiveStreams(ss)) - 1
    BY <1>5, <1>6, FS_RemoveElement
  <2>2. Cardinality(InState(t, "Failed")) = Cardinality(InState(ss, "Failed")) + 1
    BY <1>5, <1>6, FS_AddElement
  <2> QED
    BY <2>1, <2>2
<1>8. IsFiniteSet(ActiveStreams(ss) \ {id}) /\ Cardinality(ActiveStreams(t)) \in Nat
  BY <1>5, <1>6, FS_RemoveElement, FS_CardinalityType
<1>9. ss.state \notin ClosedState
  BY <1>5 DEF SessionInv, ClosedIdle
<1>10. ss.active_streams = Cardinality(ActiveStreams(ss)) /\ ss.active_streams \in Nat
  BY <1>9 DEF SessionInv, ActiveCountOK, SessionOK
<1>11. t.active_streams = ss.active_streams - 1 /\ t.active_streams \in Nat
  BY <1>3, <1>6, <1>7, <1>8, <1>10 DEF SaturatingSub
<1>12. SessionOK(t) /\ SequencesOK(t)
  BY <1>2, <1>3, <1>4, <1>11 DEF SessionInv, SessionOK, SequencesOK
<1>13. ActiveCountOK(t) /\ ClosedIdle(t)
  BY <1>3, <1>7, <1>9, <1>10, <1>11 DEF ActiveCountOK, ClosedIdle
<1>14. CountersOK(t)
  BY <1>3, <1>4, <1>5, <1>7, <1>9, <1>10, <1>11
     DEF SessionInv, SessionOK, CountersOK, ClosedState
<1>15. SessionInv(t)
  BY <1>12, <1>13, <1>14 DEF SessionInv
<1> QED
  BY <1>15, EventsKeepInv DEF fail_stream, t, st

-----------------------------------------------------------------------------
(* Frames. *)

(* The image of a finite set under a function is finite. *)
LEMMA FiniteImage ==
  ASSUME NEW S, IsFiniteSet(S), NEW f, DOMAIN f = S
  PROVE  IsFiniteSet({f[x] : x \in S})
<1> DEFINE T == {f[x] : x \in S}
           g == [x \in S |-> f[x]]
<1>1. g \in Surjection(S, T)
  BY DEF Surjection
<1> QED
  BY <1>1, FS_Surjection

(***************************************************************************)
(* Recording a set of patch frames advances the stream's next sequence     *)
(* number and its frame counts alike, and leaves the rest of what the      *)
(* invariant reads alone.                                                  *)
(***************************************************************************)
LEMMA RecordFramesOK ==
  ASSUME NEW id, NEW st, NEW frames, StreamOK(id, st),
         st.next_sequence = st.total_frames + 1, st.total_frames = st.patch_frames,
         IsFiniteSet(frames), \A f \in frames : f.type = "Patch"
  PROVE  LET rec == record_frames_created(st, frames)
         IN  /\ StreamOK(id, rec)
             /\ rec.state = st.state
             /\ rec.next_sequence = rec.total_frames + 1
             /\ rec.total_frames = rec.patch_frames
<1> DEFINE rec == record_frames_created(st, frames)
           patch == {f \in frames : f.type = "Patch"}
<1>1. patch = frames
  OBVIOUS
<1>2. Cardinality(frames) \in Nat
  BY FS_CardinalityType
<1>3. /\ DOMAIN rec = StreamField /\ rec.id = st.id /\ rec.state = st.state
      /\ rec.source = st.source /\ rec.rules = st.rules
      /\ rec.next_sequence = st.next_sequence + Cardinality(frames)
      /\ rec.total_frames = st.total_frames + Cardinality(frames)
      /\ rec.patch_frames = st.patch_frames + Cardinality(patch)
  BY DEF record_frames_created, StreamOK, StreamField
<1> HIDE DEF rec, patch
<1>4. /\ StreamOK(id, rec)
      /\ rec.state = st.state
      /\ rec.next_sequence = rec.total_frames + 1
      /\ rec.total_frames = rec.patch_frames
  BY <1>1, <1>2, <1>3 DEF StreamOK
<1> QED
  BY <1>4 DEF rec

(* A function on 1..n is a sequence of length n. *)
LEMMA IntervalLen ==
  ASSUME NEW s, NEW n \in Nat, s = [i \in 1..n |-> s[i]]
  PROVE  Len(s) = n /\ \E R : s \in Seq(R)
<1> DEFINE R == {s[i] : i \in 1..n}
<1>1. s \in [1..n -> R]
  OBVIOUS
<1>2. s \in Seq(R)
  BY <1>1, SeqDef
<1>3. Len(s) \in Nat /\ DOMAIN s = 1..Len(s)
  BY <1>2, LenProperties
<1>4. Len(s) = n
  BY <1>1, <1>3
<1>5. \E X : s \in Seq(X)
  BY <1>2
<1> QED
  BY <1>4, <1>5

(* Extraction returns a sequence. *)
LEMMA ExtractIsSeq ==
  ASSUME NEW source \in Seq(Patch(Path)), NEW rules, NEW threshold
  PROVE  \E R : extract_patches(source, rules, threshold) \in Seq(R)
<1> DEFINE c == collect_patches(source, rules, threshold)
           patches == extract_patches(source, rules, threshold)
           n == Cardinality(DOMAIN c)
<1>1. DOMAIN c \subseteq DOMAIN source
  BY DEF collect_patches
<1>2. IsFiniteSet(DOMAIN source)
  BY LenProperties, FS_Interval
<1>3. n \in Nat
  BY <1>1, <1>2, FS_Subset, FS_CardinalityType
<1>4. patches = [i \in 1..n |-> patches[i]]
  BY DEF extract_patches, SortByPriorityDesc
<1> HIDE DEF patches, n
<1>5. \E R : patches \in Seq(R)
  BY <1>3, <1>4, IntervalLen
<1> QED
  BY <1>5 DEF patches

(* div_ceil of two positive numbers is positive. *)
LEMMA DivCeilPositive ==
  ASSUME NEW a \in Nat \ {0}, NEW b \in Nat \ {0}
  PROVE  DivCeil(a, b) \in Nat \ {0}
  BY DEF DivCeil

(* Chunking a sequence gives a sequence. *)
LEMMA ChunksAreSeq ==
  ASSUME NEW R, NEW patches \in Seq(R), NEW max_frames \in Nat
  PROVE  \E n \in Nat : DOMAIN chunk_patches_for_commit(patches, max_frames) = 1..n
<1> DEFINE chunks == chunk_patches_for_commit(patches, max_frames)
<1>1. CASE patches = <<>> \/ max_frames = 0
  BY <1>1 DEF chunk_patches_for_commit
<1>2. CASE ~(patches = <<>> \/ max_frames = 0)
  <2>1. Len(patches) \in Nat \ {0}
    BY <1>2, EmptySeq, LenProperties
  <2>2. ChunkSize(Len(patches), max_frames) \in Nat \ {0}
    BY <2>1, <1>2, DivCeilPositive DEF ChunkSize
  <2>3. DivCeil(Len(patches), ChunkSize(Len(patches), max_frames)) \in Nat
    BY <2>1, <2>2, DivCeilPositive
  <2> QED
    BY <1>2, <2>3 DEF chunk_patches_for_commit
<1> QED
  BY <1>1, <1>2

(***************************************************************************)
(* commit_patch_frames_for_stream: the frames are patch frames of the one  *)
(* stream, which stays Streaming.                                          *)
(***************************************************************************)
LEMMA CommitForStreamInv ==
  ASSUME NEW ss, NEW id, NEW R, NEW patches \in Seq(R), NEW max_frames \in Nat,
         SessionInv(ss), CanCommitForStream(ss, id)
  PROVE  SessionInv(commit_for_stream(ss, id, patches, max_frames))
<1> DEFINE old == ss.streams[id]
           frames == PatchFrames(old, patches, max_frames)
           created == {frames[k] : k \in DOMAIN frames}
           st == record_frames_created(old, created)
           n == Len(frames)
           t == [ss EXCEPT !.streams[id]  = st,
                           !.total_frames = @ + n,
                           !.total_bytes  = @ + st.total_bytes - old.total_bytes]
<1>1. PICK k \in Nat : DOMAIN chunk_patches_for_commit(patches, max_frames) = 1..k
  BY ChunksAreSeq
<1>2. DOMAIN frames = 1..k /\ frames = [i \in 1..k |-> frames[i]]
      /\ \A i \in 1..k : frames[i].type = "Patch"
  BY <1>1 DEF PatchFrames, PatchFrame
<1> HIDE DEF frames
<1>3. n \in Nat
  BY <1>2, IntervalLen
<1>4. IsFiniteSet(created) /\ \A f \in created : f.type = "Patch"
  <2>1. IsFiniteSet(1..k)
    BY FS_Interval
  <2> QED
    BY <1>2, <2>1, FiniteImage
<1> HIDE DEF created, n
<1>5. /\ id \in DOMAIN ss.streams /\ StreamOK(id, old) /\ is_active(old)
      /\ old.next_sequence = old.total_frames + 1 /\ old.total_frames = old.patch_frames
  BY DEF SessionInv, SessionOK, SequencesOK, CanCommitForStream, CanCreateFrames,
         HasStream, is_active
<1>6. /\ StreamOK(id, st) /\ st.state = old.state
      /\ st.next_sequence = st.total_frames + 1 /\ st.total_frames = st.patch_frames
  BY <1>4, <1>5, RecordFramesOK
<1> HIDE DEF st
<1>7. /\ DOMAIN t = SessionField /\ t.state = ss.state /\ t.expires_at = ss.expires_at
      /\ t.streams = [ss.streams EXCEPT ![id] = st]
      /\ t.total_streams = ss.total_streams
      /\ t.active_streams = ss.active_streams
      /\ t.completed_streams = ss.completed_streams
      /\ t.failed_streams = ss.failed_streams /\ t.total_frames = ss.total_frames + n
  BY DEF SessionInv, SessionOK, SessionField
<1> HIDE DEF t
<1>8. t.total_frames \in Nat
  BY <1>3, <1>7 DEF SessionInv, SessionOK
<1>9. /\ DOMAIN t.streams = DOMAIN ss.streams
      /\ \A i \in DOMAIN ss.streams :
           t.streams[i] = IF i = id THEN st ELSE ss.streams[i]
  BY <1>7
<1>10. \A i \in DOMAIN ss.streams :
           /\ StreamOK(i, t.streams[i])
           /\ t.streams[i].next_sequence = t.streams[i].total_frames + 1
           /\ t.streams[i].total_frames = t.streams[i].patch_frames
           /\ t.streams[i].state = ss.streams[i].state
  BY <1>6, <1>9 DEF SessionInv, SessionOK, SequencesOK
<1>11. SessionInv(t)
  BY <1>7, <1>8, <1>9, <1>10, SameKindsInv
<1>12. commit_for_stream(ss, id, patches, max_frames) = WithBatchEvent(t, n)
  BY DEF commit_for_stream, commit_patch_frames, FramesForStream, t, st, n, created, frames
<1> QED
  BY <1>11, <1>12, EventsKeepInv DEF WithBatchEvent

(***************************************************************************)
(* commit_priority_frames: whichever candidates survive the cut, every     *)
(* stream records patch frames and keeps its state.                        *)
(***************************************************************************)
LEMMA CommitPriorityFramesInv ==
  ASSUME NEW ss, NEW candidates, NEW batch_size,
         SessionInv(ss), IsFiniteSet(DOMAIN candidates)
  PROVE  SessionInv(commit_priority_frames(ss, candidates, batch_size))
<1> DEFINE kept == Survivors(candidates, batch_size)
           FramesOf(id) == {FinalizedFrame(ss, candidates, kept, k) :
                              k \in OfStream(candidates, kept, id)}
           recorded == [id \in DOMAIN ss.streams |->
                          IF OfStream(candidates, kept, id) = {}
                          THEN ss.streams[id]
                          ELSE record_frames_created(ss.streams[id], FramesOf(id))]
           bytes == SumFunction([k \in kept |-> Len(candidates[k].patches)])
           n == Cardinality(kept)
           t == [ss EXCEPT !.streams      = recorded,
                           !.total_frames = @ + n,
                           !.total_bytes  = @ + bytes]
<1>1. IsFiniteSet(kept) /\ n \in Nat
  <2>1. kept \subseteq DOMAIN candidates
    BY DEF Survivors
  <2> QED
    BY <2>1, FS_Subset, FS_CardinalityType
<1>2. ASSUME NEW id \in DOMAIN ss.streams
      PROVE  /\ StreamOK(id, recorded[id])
             /\ recorded[id].state = ss.streams[id].state
             /\ recorded[id].next_sequence = recorded[id].total_frames + 1
             /\ recorded[id].total_frames = recorded[id].patch_frames
  <2> DEFINE own == OfStream(candidates, kept, id)
             final == [k \in own |-> FinalizedFrame(ss, candidates, kept, k)]
  <2>1. IsFiniteSet(own)
    BY <1>1, FS_Subset DEF OfStream
  <2>2. IsFiniteSet({final[k] : k \in own})
    BY <2>1, FiniteImage
  <2>3. FramesOf(id) = {final[k] : k \in own}
    OBVIOUS
  <2>4. \A f \in FramesOf(id) : f.type = "Patch"
    <3>1. \A k \in own : FinalizedFrame(ss, candidates, kept, k).type = "Patch"
      BY DEF FinalizedFrame, PatchFrame
    <3> QED
      BY <3>1
  <2>5. /\ StreamOK(id, ss.streams[id])
        /\ ss.streams[id].next_sequence = ss.streams[id].total_frames + 1
        /\ ss.streams[id].total_frames = ss.streams[id].patch_frames
    BY DEF SessionInv, SessionOK, SequencesOK
  <2>6. \/ recorded[id] = ss.streams[id]
        \/ recorded[id] = record_frames_created(ss.streams[id], FramesOf(id))
    OBVIOUS
  <2>7. IsFiniteSet(FramesOf(id))
    BY <2>2, <2>3
  <2> HIDE DEF FramesOf, recorded
  <2> QED
    BY <2>4, <2>5, <2>6, <2>7, RecordFramesOK
<1>3. DOMAIN recorded = DOMAIN ss.streams
  OBVIOUS
<1> HIDE DEF recorded, n, bytes
<1>4. /\ DOMAIN t = SessionField /\ t.state = ss.state /\ t.expires_at = ss.expires_at
      /\ t.streams = recorded
      /\ t.total_streams = ss.total_streams
      /\ t.active_streams = ss.active_streams
      /\ t.completed_streams = ss.completed_streams
      /\ t.failed_streams = ss.failed_streams /\ t.total_frames = ss.total_frames + n
  BY DEF SessionInv, SessionOK, SessionField
<1>5. t.total_frames \in Nat
  BY <1>1, <1>4 DEF SessionInv, SessionOK
<1> HIDE DEF t
<1>6. SessionInv(t)
  BY <1>2, <1>3, <1>4, <1>5, SameKindsInv
<1>7. commit_priority_frames(ss, candidates, batch_size) = WithBatchEvent(t, n)
  BY DEF commit_priority_frames, t, n, bytes, recorded
<1> QED
  BY <1>6, <1>7, EventsKeepInv DEF WithBatchEvent

(* The candidates of a batch are finitely many. *)
LEMMA CandidatesFinite ==
  ASSUME NEW ss, NEW extracted, NEW R, NEW order \in Seq(R)
  PROVE  IsFiniteSet(DOMAIN Candidates(ss, extracted, order))
<1>1. DOMAIN Candidates(ss, extracted, order)
        \subseteq 1..(MaxCandidatesPerStream * Len(order))
  BY DEF Candidates
<1>2. MaxCandidatesPerStream * Len(order) \in Int
  BY LenProperties DEF MaxCandidatesPerStream
<1> QED
  BY <1>1, <1>2, FS_Interval, FS_Subset

-----------------------------------------------------------------------------
(* The stable sort by descending priority, and the chunks of what it sorts. *)

(* What SortByPriorityDesc is applied to. *)
Sortable(s) ==
  /\ IsFiniteSet(DOMAIN s)
  /\ DOMAIN s \subseteq Int
  /\ \A i \in DOMAIN s : s[i].priority \in Int

(* The order of a stable sort: the earlier of two equal priorities first. *)
Before(s, i, j) ==
  s[i].priority > s[j].priority \/ (s[i].priority = s[j].priority /\ i < j)

(* No two entries have the same rank, and ranks follow the order. *)
LEMMA RankOrder ==
  ASSUME NEW s, Sortable(s), NEW i \in DOMAIN s, NEW j \in DOMAIN s, Before(s, i, j)
  PROVE  Rank(s, i) < Rank(s, j)
<1> DEFINE UpTo(k) == {m \in DOMAIN s : \/ s[m].priority > s[k].priority
                                        \/ s[m].priority = s[k].priority /\ m <= k}
<1>1. IsFiniteSet(UpTo(i)) /\ IsFiniteSet(UpTo(j))
  <2>1. UpTo(i) \subseteq DOMAIN s /\ UpTo(j) \subseteq DOMAIN s
    OBVIOUS
  <2> QED
    BY <2>1, FS_Subset DEF Sortable
<1>2. UpTo(i) \subseteq UpTo(j)
  BY DEF Sortable, Before
<1>3. j \in UpTo(j) /\ j \notin UpTo(i)
  BY DEF Sortable, Before
<1>4. Rank(s, i) = Cardinality(UpTo(i)) /\ Rank(s, j) = Cardinality(UpTo(j))
  BY DEF Rank
<1> HIDE DEF UpTo
<1>5. Cardinality(UpTo(i)) <= Cardinality(UpTo(j)) /\ Cardinality(UpTo(i)) # Cardinality(UpTo(j))
  BY <1>1, <1>2, <1>3, FS_Subset
<1>6. Cardinality(UpTo(i)) \in Nat /\ Cardinality(UpTo(j)) \in Nat
  BY <1>1, FS_CardinalityType
<1> QED
  BY <1>4, <1>5, <1>6

(* Ranks number the entries from 1, without a gap. *)
LEMMA RankOnto ==
  ASSUME NEW s, Sortable(s)
  PROVE  LET n == Cardinality(DOMAIN s)
         IN  /\ n \in Nat
             /\ \A i \in DOMAIN s : Rank(s, i) \in 1..n
             /\ \A i, j \in DOMAIN s : Rank(s, i) = Rank(s, j) => i = j
             /\ \A r \in 1..n : \E i \in DOMAIN s : Rank(s, i) = r
<1> DEFINE n == Cardinality(DOMAIN s)
           rank == [i \in DOMAIN s |-> Rank(s, i)]
<1>1. n \in Nat
  BY FS_CardinalityType DEF Sortable
<1>2. ASSUME NEW i \in DOMAIN s
      PROVE  Rank(s, i) \in 1..n
  <2> DEFINE UpTo == {m \in DOMAIN s : \/ s[m].priority > s[i].priority
                                       \/ s[m].priority = s[i].priority /\ m <= i}
  <2>1. UpTo \subseteq DOMAIN s
    OBVIOUS
  <2>2. i \in UpTo
    BY DEF Sortable
  <2>3. Rank(s, i) = Cardinality(UpTo)
    BY DEF Rank
  <2> HIDE DEF UpTo
  <2>4. IsFiniteSet(UpTo) /\ Cardinality(UpTo) <= n
    BY <2>1, FS_Subset DEF Sortable
  <2>5. Cardinality(UpTo) \in Nat /\ Cardinality(UpTo) # 0
    BY <2>2, <2>4, FS_CardinalityType, FS_EmptySet
  <2> QED
    BY <1>1, <2>3, <2>4, <2>5
<1>3. ASSUME NEW i \in DOMAIN s, NEW j \in DOMAIN s, Rank(s, i) = Rank(s, j)
      PROVE  i = j
  <2> SUFFICES ASSUME i # j PROVE FALSE
    OBVIOUS
  <2>1. Before(s, i, j) \/ Before(s, j, i)
    BY DEF Sortable, Before
  <2>2. Rank(s, i) \in Int /\ Rank(s, j) \in Int
    BY <1>1, <1>2
  <2>3. Rank(s, i) < Rank(s, j) \/ Rank(s, j) < Rank(s, i)
    BY <2>1, RankOrder
  <2> QED
    BY <1>3, <2>2, <2>3
<1>4. \A r \in 1..n : \E i \in DOMAIN s : Rank(s, i) = r
  <2>1. rank \in Injection(DOMAIN s, 1..n)
    BY <1>2, <1>3 DEF Injection, IsInjective
  <2>2. IsFiniteSet(1..n) /\ Cardinality(1..n) = n
    BY <1>1, FS_Interval
  <2> HIDE DEF rank
  <2>3. rank \in Surjection(DOMAIN s, 1..n)
    BY <2>1, <2>2, FS_Injection
  <2> QED
    BY <2>3 DEF Surjection, rank
<1> QED
  BY <1>1, <1>2, <1>3, <1>4

(* The sort moves every entry to its rank. *)
LEMMA SortMoves ==
  ASSUME NEW s, Sortable(s)
  PROVE  LET t == SortByPriorityDesc(s)
         IN  /\ t = [r \in 1..Cardinality(DOMAIN s) |-> t[r]]
             /\ \A i \in DOMAIN s : t[Rank(s, i)] = s[i]
<1> DEFINE t == SortByPriorityDesc(s)
           n == Cardinality(DOMAIN s)
<1>1. t = [r \in 1..n |-> s[CHOOSE i \in DOMAIN s : [k \in DOMAIN s |-> Rank(s, k)][i] = r]]
  BY DEF SortByPriorityDesc
<1>2. ASSUME NEW i \in DOMAIN s
      PROVE  t[Rank(s, i)] = s[i]
  <2> DEFINE at == CHOOSE k \in DOMAIN s : [m \in DOMAIN s |-> Rank(s, m)][k] = Rank(s, i)
  <2>1. at \in DOMAIN s /\ [m \in DOMAIN s |-> Rank(s, m)][at] = Rank(s, i)
    OBVIOUS
  <2>2. t[Rank(s, i)] = s[at]
    BY <1>1, RankOnto
  <2> HIDE DEF at
  <2>3. Rank(s, at) = Rank(s, i)
    BY <2>1
  <2> QED
    BY <2>1, <2>2, <2>3, RankOnto
<1> HIDE DEF t
<1>3. t = [r \in 1..n |-> t[r]]
  BY <1>1
<1> QED
  BY <1>2, <1>3 DEF t

(* What is sorted is in descending priority. *)
LEMMA SortDescends ==
  ASSUME NEW s, Sortable(s)
  PROVE  LET t == SortByPriorityDesc(s)
         IN  \A q, r \in DOMAIN t : q < r => t[q].priority >= t[r].priority
<1> DEFINE t == SortByPriorityDesc(s)
           n == Cardinality(DOMAIN s)
<1>1. DOMAIN t = 1..n
  BY SortMoves
<1> SUFFICES ASSUME NEW q \in 1..n, NEW r \in 1..n, q < r
             PROVE  t[q].priority >= t[r].priority
  BY <1>1
<1>2. PICK i \in DOMAIN s : Rank(s, i) = q
  BY RankOnto
<1>3. PICK j \in DOMAIN s : Rank(s, j) = r
  BY RankOnto
<1>4. t[q] = s[i] /\ t[r] = s[j]
  BY <1>2, <1>3, SortMoves
<1>5. n \in Nat
  BY RankOnto
<1>6. ~Before(s, j, i)
  <2>1. ~(r < q)
    BY <1>5
  <2> QED
    BY <1>2, <1>3, <2>1, RankOrder
<1> HIDE DEF t
<1> QED
  BY <1>4, <1>6 DEF Before, Sortable

(* A sequence of patches or chunks in descending priority. *)
Descending(s) ==
  /\ \A i \in DOMAIN s : s[i].priority \in Int
  /\ \A i, j \in DOMAIN s : i < j => s[i].priority >= s[j].priority

(* The priorities that rules and documents give are integers. *)
LEMMA ExtractDescends ==
  ASSUME NEW source \in Seq(Patch(Path)), NEW rules, RulesOK(rules), NEW threshold
  PROVE  Descending(extract_patches(source, rules, threshold))
<1> DEFINE c == collect_patches(source, rules, threshold)
           t == SortByPriorityDesc(c)
<1>1. /\ DOMAIN c \subseteq DOMAIN source
      /\ \A i \in DOMAIN c : c[i].priority = compute_priority(rules, source[i])
  BY DEF collect_patches
<1>2. DOMAIN source = 1..Len(source) /\ Len(source) \in Nat
  BY LenProperties
<1>3. IsFiniteSet(DOMAIN c) /\ DOMAIN c \subseteq Int
  <2>1. IsFiniteSet(1..Len(source))
    BY <1>2, FS_Interval
  <2> QED
    BY <1>1, <1>2, <2>1, FS_Subset
<1>4. \A i \in DOMAIN source : source[i] \in Patch(Path)
  BY <1>2, ElementOfSeq
<1>5. \A i \in DOMAIN source : compute_priority(rules, source[i]) \in Int
  <2>1. \A i \in DOMAIN source : source[i].priority \in Priority
    BY <1>4 DEF Patch
  <2>2. \A i \in DOMAIN source : compute_priority(rules, source[i]) \in Priority
    BY <2>1 DEF compute_priority, RulesOK
  <2> QED
    <3>1. Priority \subseteq Int
      BY DEF Priority
    <3> QED
      BY <2>2, <3>1
<1>6. Sortable(c)
  BY <1>1, <1>3, <1>5 DEF Sortable
<1> HIDE DEF c
<1>7. ASSUME NEW r \in DOMAIN t
      PROVE  t[r].priority \in Int
  <2>0. DOMAIN t = 1..Cardinality(DOMAIN c)
    BY <1>6, SortMoves
  <2>1. PICK i \in DOMAIN c : Rank(c, i) = r
    BY <1>6, <2>0, RankOnto
  <2> QED
    BY <1>6, <2>1, SortMoves DEF Sortable
<1>8. Descending(t)
  BY <1>6, <1>7, SortDescends DEF Descending
<1> QED
  BY <1>8 DEF extract_patches, c

(* The extraction of a stream of a session is sorted. *)
LEMMA ExtractedDescends ==
  ASSUME NEW ss, SessionInv(ss), NEW id \in DOMAIN ss.streams, NEW threshold
  PROVE  LET patches == extract_prioritized_patches(ss.streams[id], threshold)
         IN  Descending(patches) /\ \E R : patches \in Seq(R)
<1>1. ss.streams[id].source \in Seq(Patch(Path)) /\ RulesOK(ss.streams[id].rules)
  BY SourceAssumption DEF SessionInv, SessionOK, StreamOK
<1> QED
  BY <1>1, ExtractDescends, ExtractIsSeq DEF extract_prioritized_patches

(* div_ceil leaves no empty chunk: the last one starts inside. *)
LEMMA ChunkStarts ==
  ASSUME NEW len \in Nat \ {0}, NEW size \in Nat \ {0}, NEW k \in 1..DivCeil(len, size)
  PROVE  (k - 1) * size + 1 \in 1..len
<1>1. DivCeil(len, size) \in Nat
  BY DivCeilPositive
<1>2. k \in Nat /\ k >= 1 /\ k <= DivCeil(len, size)
  BY <1>1
<1>3. (DivCeil(len, size)) * size <= len + size - 1
  <2>1. \A a \in Int : (a \div size) * size <= a
    OBVIOUS
  <2> QED
    BY <2>1 DEF DivCeil
<1>4. k * size <= DivCeil(len, size) * size
  <2>1. \A a, b \in Nat : a <= b => a * size <= b * size
    OBVIOUS
  <2> QED
    BY <1>1, <1>2, <2>1
<1>5. (k - 1) * size = k * size - size /\ (k - 1) * size >= 0
  BY <1>2
<1>6. k * size \in Int /\ DivCeil(len, size) * size \in Int /\ (k - 1) * size \in Int
  BY <1>1, <1>2
<1> QED
  BY <1>3, <1>4, <1>5, <1>6

(* The priority of a chunk of sorted patches is that of its first one. *)
LEMMA ChunkPriority ==
  ASSUME NEW R, NEW patches \in Seq(R), Descending(patches), NEW size \in Nat \ {0},
         NEW k \in Nat \ {0}, (k - 1) * size + 1 \in 1..Len(patches)
  PROVE  Chunk(patches, size, k).priority = patches[(k - 1) * size + 1].priority
<1> DEFINE first == (k - 1) * size + 1
           last == IF k * size < Len(patches) THEN k * size ELSE Len(patches)
           part == SubSeq(patches, first, last)
           best == patches[first].priority
<1>1. Len(patches) \in Nat /\ DOMAIN patches = 1..Len(patches)
  BY LenProperties
<1>2. first \in Int /\ 1 <= first /\ first <= Len(patches)
  BY <1>1
<1>3. last \in Int /\ first <= last /\ last <= Len(patches)
  <2>1. k * size \in Int /\ first <= k * size
    <3>1. (k - 1) * size = k * size - size
      OBVIOUS
    <3>2. k * size \in Int
      OBVIOUS
    <3> QED
      BY <3>1, <3>2
  <2> QED
    BY <1>1, <1>2, <2>1
<1>4. Chunk(patches, size, k).priority = MaxPriority(part)
  BY DEF Chunk
<1> HIDE DEF first, last
<1>5. /\ DOMAIN part = 1..(last - first + 1)
      /\ \A i \in 1..(last - first + 1) : part[i] = patches[first + i - 1]
  <2>1. \A i \in first..last : i \in 1..Len(patches)
    BY <1>1, <1>2, <1>3
  <2>2. part = [i \in 1..(last - first + 1) |-> patches[i + first - 1]]
    BY <1>1, <1>2, <1>3
  <2> QED
    BY <1>2, <1>3, <2>2
<1> HIDE DEF part
<1>6. 1 \in DOMAIN part /\ part[1] = patches[first]
  BY <1>2, <1>3, <1>5
<1>7. ASSUME NEW i \in DOMAIN part
      PROVE  part[i].priority \in Int /\ best >= part[i].priority
  <2>1. /\ first + i - 1 \in DOMAIN patches /\ part[i] = patches[first + i - 1]
        /\ first \in DOMAIN patches /\ (first = first + i - 1 \/ first < first + i - 1)
    BY <1>1, <1>2, <1>3, <1>5
  <2> QED
    BY <2>1 DEF Descending
<1> DEFINE all == {part[i].priority : i \in DOMAIN part}
           max == CHOOSE p \in all : \A i \in DOMAIN part : p >= part[i].priority
<1>8. best \in all /\ best \in Int
  BY <1>6, <1>7
<1> HIDE DEF best
<1>9. max \in all /\ \A i \in DOMAIN part : max >= part[i].priority
  BY <1>7, <1>8
<1>10. MaxPriority(part) = max
  BY DEF MaxPriority
<1> HIDE DEF max
<1>11. max >= best
  BY <1>6, <1>9 DEF best
<1>12. max \in Int /\ best >= max
  BY <1>7, <1>9
<1>13. max = best
  BY <1>8, <1>11, <1>12
<1> QED
  BY <1>4, <1>10, <1>13 DEF best, first

(* Chunks of sorted patches are in descending priority. *)
LEMMA ChunksDescend ==
  ASSUME NEW R, NEW patches \in Seq(R), Descending(patches), NEW max_frames \in Nat
  PROVE  Descending(chunk_patches_for_commit(patches, max_frames))
<1> DEFINE chunks == chunk_patches_for_commit(patches, max_frames)
           len == Len(patches)
           size == ChunkSize(len, max_frames)
           First(k) == (k - 1) * size + 1
<1>1. CASE patches = <<>> \/ max_frames = 0
  BY <1>1 DEF chunk_patches_for_commit, Descending
<1>2. CASE ~(patches = <<>> \/ max_frames = 0)
  <2>1. len \in Nat \ {0}
    BY <1>2, EmptySeq, LenProperties
  <2>2. size \in Nat \ {0}
    BY <1>2, <2>1, DivCeilPositive DEF ChunkSize
  <2>3. DivCeil(len, size) \in Nat
    BY <2>1, <2>2, DivCeilPositive
  <2>4. chunks = [k \in 1..DivCeil(len, size) |-> Chunk(patches, size, k)]
    BY <1>2 DEF chunk_patches_for_commit
  <2> HIDE DEF chunks, size, len
  <2>5. ASSUME NEW k \in DOMAIN chunks
        PROVE  First(k) \in 1..len /\ chunks[k].priority = patches[First(k)].priority /\ k \in Nat
    <3>1. k \in 1..DivCeil(len, size) /\ k \in Nat \ {0}
      BY <2>3, <2>4
    <3>2. (k - 1) * size + 1 \in 1..len
      BY <2>1, <2>2, <3>1, ChunkStarts
    <3>3. Chunk(patches, size, k).priority = patches[(k - 1) * size + 1].priority
      BY <2>2, <3>1, <3>2, ChunkPriority DEF len
    <3> QED
      BY <2>4, <3>1, <3>2, <3>3
  <2>6. DOMAIN patches = 1..len
    BY LenProperties DEF len
  <2>7. ASSUME NEW k \in DOMAIN chunks, NEW m \in DOMAIN chunks, k < m
        PROVE  First(k) < First(m)
    <3>1. k \in Nat /\ m \in Nat
      BY <2>5
    <3>2. \A a, b \in Int : a < b => a * size < b * size
      BY <2>2
    <3>3. (k - 1) * size < (m - 1) * size
      BY <2>7, <3>1, <3>2
    <3>4. (k - 1) * size \in Int /\ (m - 1) * size \in Int
      BY <2>2, <3>1
    <3> QED
      BY <3>3, <3>4
  <2> HIDE DEF First
  <2>8. Descending(chunks)
    BY <2>5, <2>6, <2>7 DEF Descending
  <2> QED
    BY <2>8 DEF chunks
<1> QED
  BY <1>1, <1>2

-----------------------------------------------------------------------------
(* What a call that returns frames promises about them. *)

(* The frames of batch and the session that a call leaves behind. *)
Contract(ss, batch) ==
  /\ \A i, j \in DOMAIN batch : i < j => batch[i].priority >= batch[j].priority
  /\ \A i \in DOMAIN batch :
       LET id == batch[i].stream
           later == {j \in DOMAIN batch : j > i /\ batch[j].stream = id}
       IN  /\ HasStream(ss, id)
           /\ batch[i].sequence = ss.streams[id].next_sequence - 1 - Cardinality(later)

(* Each stream has handed out as many numbers as it has frames in batch. *)
Grows(old, new, batch) ==
  /\ \E R : batch \in Seq(R)
  /\ DOMAIN new.streams = DOMAIN old.streams
  /\ \A id \in DOMAIN old.streams :
       new.streams[id].next_sequence
         = old.streams[id].next_sequence + Cardinality({i \in DOMAIN batch : batch[i].stream = id})

(* A function that tells the elements of a set apart has as many values. *)
LEMMA ImageCardinality ==
  ASSUME NEW S, IsFiniteSet(S), NEW f, DOMAIN f = S,
         \A x, y \in S : f[x] = f[y] => x = y
  PROVE  Cardinality({f[x] : x \in S}) = Cardinality(S)
<1> DEFINE T == {f[x] : x \in S}
           g == [x \in S |-> f[x]]
<1>1. g \in Bijection(S, T)
  BY DEF Bijection, Injection, Surjection, IsInjective
<1>2. ExistsBijection(S, T)
  BY <1>1 DEF ExistsBijection
<1> QED
  BY <1>2, FS_Bijection

(***************************************************************************)
(* commit_patch_frames_for_stream: chunk k becomes the frame with the k-th *)
(* free sequence number, and the chunks are in descending priority.        *)
(***************************************************************************)
LEMMA ForStreamContract ==
  ASSUME NEW ss, NEW id, NEW R, NEW patches \in Seq(R), NEW max_frames \in Nat,
         SessionInv(ss), CanCommitForStream(ss, id), Descending(patches)
  PROVE  LET new == commit_for_stream(ss, id, patches, max_frames)
             frames == FramesForStream(ss, id, patches, max_frames)
         IN  Contract(new, frames) /\ Grows(ss, new, frames)
<1> DEFINE old == ss.streams[id]
           chunks == chunk_patches_for_commit(patches, max_frames)
           frames == PatchFrames(old, patches, max_frames)
           created == {frames[k] : k \in DOMAIN frames}
           st == record_frames_created(old, created)
           new == commit_for_stream(ss, id, patches, max_frames)
<1>1. PICK n \in Nat : DOMAIN chunks = 1..n
  BY ChunksAreSeq
<1>2. /\ id \in DOMAIN ss.streams /\ DOMAIN old = StreamField /\ old.id = id
      /\ old.next_sequence \in Nat /\ DOMAIN ss = SessionField
  BY DEF SessionInv, SessionOK, StreamOK, CanCommitForStream, HasStream
<1>3. /\ DOMAIN frames = 1..n
      /\ \A k \in 1..n : /\ frames[k].stream = id /\ frames[k].priority = chunks[k].priority
                         /\ frames[k].sequence = old.next_sequence + (k - 1)
  BY <1>1, <1>2 DEF PatchFrames, PatchFrame
<1>4. Descending(chunks)
  BY ChunksDescend
<1> HIDE DEF frames, chunks
<1>5. Cardinality(created) = n
  <2>1. IsFiniteSet(1..n) /\ Cardinality(1..n) = n
    BY FS_Interval
  <2>2. \A k, m \in 1..n : frames[k] = frames[m] => k = m
    <3> SUFFICES ASSUME NEW k \in 1..n, NEW m \in 1..n, frames[k] = frames[m]
                 PROVE  k = m
      OBVIOUS
    <3>1. old.next_sequence + (k - 1) = old.next_sequence + (m - 1)
      BY <1>3
    <3> QED
      BY <1>2, <3>1
  <2> DEFINE S == 1..n
  <2>3. IsFiniteSet(S) /\ DOMAIN frames = S /\ \A k, m \in S : frames[k] = frames[m] => k = m
    BY <1>3, <2>1, <2>2
  <2> HIDE DEF S
  <2>4. Cardinality({frames[k] : k \in S}) = Cardinality(S)
    BY <2>3, ImageCardinality
  <2> QED
    BY <2>1, <2>3, <2>4 DEF S
<1> HIDE DEF created
<1>6. st.next_sequence = old.next_sequence + n
  BY <1>2, <1>5 DEF record_frames_created, StreamField
<1>7. new.streams = [ss.streams EXCEPT ![id] = st]
  BY <1>2 DEF commit_for_stream, commit_patch_frames, FramesForStream, WithBatchEvent,
              add_event, SessionField, st, created, frames
<1> HIDE DEF st, new
<1>8. HasStream(new, id) /\ new.streams[id].next_sequence = old.next_sequence + n
  BY <1>2, <1>6, <1>7 DEF HasStream
<1>9. ASSUME NEW k \in 1..n
      PROVE  frames[k].sequence = new.streams[id].next_sequence - 1
               - Cardinality({j \in DOMAIN frames : j > k /\ frames[j].stream = id})
  <2>1. {j \in DOMAIN frames : j > k /\ frames[j].stream = id} = (k + 1)..n
    BY <1>3
  <2>2. Cardinality((k + 1)..n) = n - k
    BY FS_Interval
  <2>3. frames[k].sequence = old.next_sequence + (k - 1)
    BY <1>3
  <2>4. old.next_sequence + (k - 1) = (old.next_sequence + n) - 1 - (n - k)
    BY <1>2
  <2> QED
    BY <1>8, <2>1, <2>2, <2>3, <2>4
<1>10. \A i, j \in 1..n : i < j => frames[i].priority >= frames[j].priority
  BY <1>1, <1>3, <1>4 DEF Descending
<1>11. Contract(new, frames)
  BY <1>3, <1>8, <1>9, <1>10 DEF Contract
<1>12. ASSUME NEW d \in DOMAIN ss.streams
       PROVE  new.streams[d].next_sequence
                = ss.streams[d].next_sequence + Cardinality({i \in DOMAIN frames : frames[i].stream = d})
  <2>1. CASE d = id
    <3>1. {i \in DOMAIN frames : frames[i].stream = d} = 1..n
      BY <1>3, <2>1
    <3>2. Cardinality(1..n) = n
      BY FS_Interval
    <3> QED
      BY <1>8, <2>1, <3>1, <3>2
  <2>2. CASE d # id
    <3>1. {i \in DOMAIN frames : frames[i].stream = d} = {}
      BY <1>3, <2>2
    <3>2. new.streams[d] = ss.streams[d] /\ ss.streams[d].next_sequence \in Nat
      BY <1>7, <2>2 DEF SessionInv, SessionOK, StreamOK
    <3>3. Cardinality({i \in DOMAIN frames : frames[i].stream = d}) = 0
      BY <3>1, FS_EmptySet
    <3> QED
      BY <3>2, <3>3
  <2> QED
    BY <2>1, <2>2
<1>13. \E R2 : frames \in Seq(R2)
  <2>1. frames = [k \in 1..n |-> frames[k]]
    BY <1>1, <1>3 DEF PatchFrames, frames
  <2>2. frames \in [1..n -> {frames[k] : k \in 1..n}]
    BY <2>1
  <2> QED
    BY <2>2, SeqDef
<1>14. DOMAIN new.streams = DOMAIN ss.streams
  BY <1>7
<1> QED
  BY <1>11, <1>12, <1>13, <1>14 DEF Grows, FramesForStream, new, frames

(* Of two slots of one stream the later one has the later chunk. *)
LEMMA SlotOrder ==
  ASSUME NEW a \in Int, NEW b \in Int, a < b, a \div 5 = b \div 5
  PROVE  a % 5 < b % 5 /\ a % 5 \in Int /\ b % 5 \in Int
  OBVIOUS

(* The candidates of a stream are in descending priority. *)
LEMMA CandidatesDescend ==
  ASSUME NEW ss, NEW extracted, NEW R, NEW order \in Seq(R),
         \A i, j \in DOMAIN order : order[i] = order[j] => i = j,
         \A i \in DOMAIN order :
           Descending(chunk_patches_for_commit(extracted[order[i]], MaxCandidatesPerStream))
  PROVE  LET candidates == Candidates(ss, extracted, order)
         IN  /\ DOMAIN candidates \subseteq Int
             /\ \A k \in DOMAIN candidates : /\ candidates[k].priority \in Int
                                             /\ CanCommitForStream(ss, candidates[k].stream)
             /\ \A k, m \in DOMAIN candidates :
                  k < m /\ candidates[k].stream = candidates[m].stream =>
                    candidates[k].priority >= candidates[m].priority
<1> DEFINE candidates == Candidates(ss, extracted, order)
           chunks == [i \in DOMAIN order |->
                        chunk_patches_for_commit(extracted[order[i]], MaxCandidatesPerStream)]
           At(n) == ((n - 1) \div MaxCandidatesPerStream) + 1
           ChunkNo(n) == ((n - 1) % MaxCandidatesPerStream) + 1
           slots == {n \in 1..(MaxCandidatesPerStream * Len(order)) :
                       /\ CanCommitForStream(ss, order[At(n)])
                       /\ ChunkNo(n) \in DOMAIN chunks[At(n)]}
<1>1. candidates = [n \in slots |-> [stream   |-> order[At(n)],
                                     priority |-> chunks[At(n)][ChunkNo(n)].priority,
                                     patches  |-> chunks[At(n)][ChunkNo(n)].patches]]
  BY DEF Candidates
<1>2. DOMAIN order = 1..Len(order) /\ Len(order) \in Nat
  BY LenProperties
<1>3. ASSUME NEW k \in slots
      PROVE  /\ k \in Int /\ At(k) \in DOMAIN order /\ ChunkNo(k) \in Int
             /\ ChunkNo(k) \in DOMAIN chunks[At(k)] /\ CanCommitForStream(ss, order[At(k)])
  <2>1. k \in 1..(5 * Len(order))
    BY DEF MaxCandidatesPerStream
  <2>2. k \in Int /\ 1 <= k /\ k <= 5 * Len(order)
    BY <1>2, <2>1
  <2>3. ((k - 1) \div 5) + 1 \in 1..Len(order) /\ ((k - 1) % 5) + 1 \in Int
    BY <1>2, <2>2
  <2> QED
    BY <1>2, <2>2, <2>3 DEF MaxCandidatesPerStream
<1>4. \A i \in DOMAIN order : Descending(chunks[i])
  OBVIOUS
<1>5. ASSUME NEW k \in slots, NEW m \in slots, k < m, order[At(k)] = order[At(m)]
      PROVE  At(k) = At(m) /\ ChunkNo(k) < ChunkNo(m)
  <2>1. At(k) = At(m)
    BY <1>3, <1>5
  <2>2. k \in Int /\ m \in Int /\ (k - 1) \div 5 = (m - 1) \div 5
    <3>1. k \in Int /\ m \in Int
      BY <1>3
    <3>2. ((k - 1) \div 5) + 1 = ((m - 1) \div 5) + 1
      BY <2>1 DEF MaxCandidatesPerStream
    <3> QED
      BY <3>1, <3>2
  <2>3. ((k - 1) % 5) + 1 < ((m - 1) % 5) + 1
    <3> DEFINE a == k - 1
               b == m - 1
    <3>2. a \in Int /\ b \in Int /\ a < b
      BY <1>5, <2>2
    <3>3. a \div 5 = b \div 5
      BY <2>2
    <3> HIDE DEF a, b
    <3>4. a % 5 < b % 5 /\ a % 5 \in Int /\ b % 5 \in Int
      BY <3>2, <3>3, SlotOrder
    <3>5. (a % 5) + 1 < (b % 5) + 1
      BY <3>4
    <3> QED
      BY <3>5 DEF a, b
  <2> QED
    BY <2>1, <2>3 DEF MaxCandidatesPerStream
<1> HIDE DEF candidates, chunks, slots, At, ChunkNo
<1>6. /\ DOMAIN candidates = slots
      /\ \A k \in slots : /\ candidates[k].stream = order[At(k)]
                          /\ candidates[k].priority = chunks[At(k)][ChunkNo(k)].priority
  BY <1>1
<1>7. \A k \in slots : candidates[k].priority \in Int
  BY <1>3, <1>4, <1>6 DEF Descending
<1>8. \A k, m \in slots : k < m /\ candidates[k].stream = candidates[m].stream =>
                            candidates[k].priority >= candidates[m].priority
  <2> SUFFICES ASSUME NEW k \in slots, NEW m \in slots, k < m, order[At(k)] = order[At(m)]
               PROVE  chunks[At(k)][ChunkNo(k)].priority >= chunks[At(m)][ChunkNo(m)].priority
    BY <1>6
  <2>1. At(k) = At(m) /\ ChunkNo(k) < ChunkNo(m)
    BY <1>5
  <2> QED
    BY <1>3, <1>4, <2>1 DEF Descending
<1>9. /\ DOMAIN candidates \subseteq Int
      /\ \A k \in DOMAIN candidates : /\ candidates[k].priority \in Int
                                      /\ CanCommitForStream(ss, candidates[k].stream)
  BY <1>3, <1>6, <1>7
<1> QED
  BY <1>6, <1>8, <1>9 DEF candidates

(* The members of a finite set of numbers before, at and after one of them. *)
LEMMA SplitAt ==
  ASSUME NEW S \in SUBSET Int, IsFiniteSet(S), NEW k \in S
  PROVE  LET earlier == {j \in S : j < k}
             later == {j \in S : j > k}
         IN  /\ Cardinality(earlier) \in Nat /\ Cardinality(later) \in Nat
             /\ Cardinality(S) = Cardinality(earlier) + 1 + Cardinality(later)
<1> DEFINE earlier == {j \in S : j < k}
           later == {j \in S : j > k}
           upto == earlier \union {k}
<1>1. IsFiniteSet(earlier) /\ IsFiniteSet(later)
  <2>1. earlier \subseteq S /\ later \subseteq S
    OBVIOUS
  <2> QED
    BY <2>1, FS_Subset
<1>2. k \notin earlier /\ upto \intersect later = {} /\ S = upto \union later
  <2>1. k \notin earlier /\ k \notin later /\ \A j \in S : j \in earlier => j \notin later
    OBVIOUS
  <2>2. \A j \in S : j \in earlier \/ j = k \/ j \in later
    OBVIOUS
  <2>3. earlier \subseteq S /\ later \subseteq S
    OBVIOUS
  <2> HIDE DEF earlier, later
  <2> QED
    BY <2>1, <2>2, <2>3
<1> HIDE DEF earlier, later
<1>3. Cardinality(earlier) \in Nat /\ Cardinality(later) \in Nat
  BY <1>1, FS_CardinalityType
<1>4. IsFiniteSet(upto) /\ Cardinality(upto) = Cardinality(earlier) + 1
  BY <1>1, <1>2, FS_AddElement
<1> HIDE DEF upto
<1>5. Cardinality(upto \union later) = Cardinality(upto) + Cardinality(later) - 0
  BY <1>1, <1>2, <1>4, FS_Union, FS_EmptySet
<1>6. Cardinality(S) = Cardinality(earlier) + 1 + Cardinality(later)
  BY <1>2, <1>3, <1>4, <1>5
<1> QED
  BY <1>3, <1>6 DEF earlier, later

(***************************************************************************)
(* commit_priority_frames: sequence numbers are given in candidate order,  *)
(* in which the priorities of one stream descend, so that the final sort,  *)
(* being stable, moves no frame of a stream before an earlier one.         *)
(***************************************************************************)
LEMMA PriorityContract ==
  ASSUME NEW ss, NEW candidates, NEW batch_size, SessionInv(ss),
         IsFiniteSet(DOMAIN candidates), DOMAIN candidates \subseteq Int,
         \A k \in DOMAIN candidates : /\ candidates[k].priority \in Int
                                      /\ CanCommitForStream(ss, candidates[k].stream),
         \A k, m \in DOMAIN candidates :
           k < m /\ candidates[k].stream = candidates[m].stream =>
             candidates[k].priority >= candidates[m].priority
  PROVE  LET new == commit_priority_frames(ss, candidates, batch_size)
             batch == PriorityFrames(ss, candidates, batch_size)
         IN  Contract(new, batch) /\ Grows(ss, new, batch)
<1> DEFINE kept == Survivors(candidates, batch_size)
           Own(id) == OfStream(candidates, kept, id)
           Earlier(id, k) == {j \in Own(id) : j < k}
           Later(id, k) == {j \in Own(id) : j > k}
           f == [k \in kept |-> FinalizedFrame(ss, candidates, kept, k)]
           batch == SortByPriorityDesc(f)
           new == commit_priority_frames(ss, candidates, batch_size)
<1>1. kept \subseteq DOMAIN candidates /\ kept \subseteq Int /\ IsFiniteSet(kept)
  <2>1. kept \subseteq DOMAIN candidates
    BY DEF Survivors
  <2> QED
    BY <2>1, FS_Subset
<1>2. \A id \in DOMAIN ss.streams : /\ ss.streams[id].id = id
                                    /\ ss.streams[id].next_sequence \in Nat
                                    /\ DOMAIN ss.streams[id] = StreamField
  BY DEF SessionInv, SessionOK, StreamOK
<1>3. ASSUME NEW k \in kept
      PROVE  LET id == candidates[k].stream
             IN  /\ id \in DOMAIN ss.streams /\ k \in Own(id)
                 /\ f[k].stream = id /\ f[k].priority = candidates[k].priority
                 /\ f[k].sequence = ss.streams[id].next_sequence + Cardinality(Earlier(id, k))
  <2>1. candidates[k].stream \in DOMAIN ss.streams
    BY <1>1 DEF CanCommitForStream, HasStream
  <2> QED
    BY <1>2, <2>1 DEF FinalizedFrame, PatchFrame, OfStream
<1>4. ASSUME NEW id
      PROVE  /\ Own(id) \subseteq kept /\ Own(id) \subseteq Int /\ IsFiniteSet(Own(id))
             /\ \A k \in Own(id) : candidates[k].stream = id
  <2>1. Own(id) \subseteq kept /\ \A k \in Own(id) : candidates[k].stream = id
    BY DEF OfStream
  <2> QED
    BY <1>1, <2>1, FS_Subset
<1>5. DOMAIN f = kept
  OBVIOUS
<1>6. new.streams = [id \in DOMAIN ss.streams |->
                       IF Own(id) = {} THEN ss.streams[id]
                       ELSE record_frames_created(ss.streams[id], {f[k] : k \in Own(id)})]
  <2>1. \A id \in DOMAIN ss.streams :
          {f[k] : k \in Own(id)} = {FinalizedFrame(ss, candidates, kept, k) : k \in Own(id)}
    BY <1>4
  <2>2. DOMAIN ss = SessionField
    BY DEF SessionInv, SessionOK
  <2> DEFINE recorded == [id \in DOMAIN ss.streams |->
                            IF Own(id) = {} THEN ss.streams[id]
                            ELSE record_frames_created(ss.streams[id],
                                   {FinalizedFrame(ss, candidates, kept, k) : k \in Own(id)})]
             bytes == SumFunction([k \in kept |-> Len(candidates[k].patches)])
             t == [ss EXCEPT !.streams      = recorded,
                             !.total_frames = @ + Cardinality(kept),
                             !.total_bytes  = @ + bytes]
  <2>3. new = WithBatchEvent(t, Cardinality(kept))
    BY DEF commit_priority_frames
  <2> HIDE DEF new, recorded, bytes
  <2>4. t.streams = recorded /\ DOMAIN t = SessionField
    BY <2>2 DEF SessionField
  <2> HIDE DEF t
  <2>5. new.streams = recorded
    BY <2>3, <2>4 DEF WithBatchEvent, add_event, SessionField
  <2> QED
    BY <2>1, <2>5 DEF recorded
<1> HIDE DEF kept, Own, f, new
<1>7. Sortable(f)
  BY <1>1, <1>3, <1>5 DEF Sortable
<1>8. ASSUME NEW id, NEW k \in Own(id), NEW m \in Own(id), k < m
      PROVE  /\ Rank(f, k) < Rank(f, m) /\ Rank(f, k) \in Int /\ Rank(f, m) \in Int
             /\ f[k] # f[m]
  <2>1. /\ k \in kept /\ m \in kept /\ candidates[k].stream = id /\ candidates[m].stream = id
        /\ k \in Int /\ m \in Int
    BY <1>4
  <2>2. candidates[k].priority >= candidates[m].priority
    BY <1>1, <1>8, <2>1
  <2>3. Before(f, k, m)
    <3>1. /\ f[k].priority = candidates[k].priority /\ f[m].priority = candidates[m].priority
          /\ candidates[k].priority \in Int /\ candidates[m].priority \in Int
      BY <1>1, <1>3, <2>1
    <3> QED
      BY <1>8, <2>2, <3>1 DEF Before
  <2>4. Rank(f, k) < Rank(f, m)
    BY <1>5, <1>7, <2>1, <2>3, RankOrder
  <2>5. Rank(f, k) \in Int /\ Rank(f, m) \in Int
    BY <1>5, <1>7, <2>1, RankOnto
  <2>6. Cardinality(Earlier(id, k)) # Cardinality(Earlier(id, m))
    <3>1. Earlier(id, k) \subseteq Earlier(id, m) /\ k \in Earlier(id, m) /\ k \notin Earlier(id, k)
      BY <1>4, <1>8, <2>1
    <3>2. IsFiniteSet(Earlier(id, m))
      BY <1>4, FS_Subset
    <3> HIDE DEF Earlier
    <3> QED
      BY <3>1, <3>2, FS_Subset
  <2>7. Cardinality(Earlier(id, k)) \in Nat /\ Cardinality(Earlier(id, m)) \in Nat
    BY <1>4, SplitAt
  <2>8. f[k].sequence # f[m].sequence
    <3>1. /\ f[k].sequence = ss.streams[id].next_sequence + Cardinality(Earlier(id, k))
          /\ f[m].sequence = ss.streams[id].next_sequence + Cardinality(Earlier(id, m))
          /\ ss.streams[id].next_sequence \in Nat
      BY <1>2, <1>3, <2>1
    <3> QED
      BY <2>6, <2>7, <3>1
  <2> QED
    BY <2>4, <2>5, <2>8
<1>9. ASSUME NEW id \in DOMAIN ss.streams, Own(id) # {}
      PROVE  new.streams[id].next_sequence = ss.streams[id].next_sequence + Cardinality(Own(id))
  <2> DEFINE S == Own(id)
             g == [k \in S |-> f[k]]
  <2>1. \A k, m \in S : g[k] = g[m] => k = m
    BY <1>4, <1>8
  <2>2. Cardinality({g[k] : k \in S}) = Cardinality(S)
    BY <1>4, <2>1, ImageCardinality
  <2>3. {g[k] : k \in S} = {f[k] : k \in Own(id)}
    OBVIOUS
  <2>4. Cardinality({f[k] : k \in Own(id)}) = Cardinality(Own(id))
    BY <2>2, <2>3
  <2>5. new.streams[id] = record_frames_created(ss.streams[id], {f[k] : k \in Own(id)})
    BY <1>6, <1>9
  <2> QED
    BY <1>2, <2>4, <2>5 DEF record_frames_created, StreamField
<1>10. ASSUME NEW id, NEW k \in Own(id)
       PROVE  Cardinality({j \in DOMAIN batch : j > Rank(f, k) /\ batch[j].stream = id})
                = Cardinality(Later(id, k))
  <2> DEFINE S == Later(id, k)
             g == [m \in S |-> Rank(f, m)]
             after == {j \in DOMAIN batch : j > Rank(f, k) /\ batch[j].stream = id}
  <2>1. S \subseteq Own(id) /\ k \in kept /\ IsFiniteSet(S)
    BY <1>4, FS_Subset
  <2>2. \A m, n \in S : g[m] = g[n] => m = n
    BY <1>5, <1>7, <1>4, <2>1, RankOnto
  <2>3. DOMAIN batch = 1..Cardinality(kept) /\ \A m \in kept : batch[Rank(f, m)] = f[m]
    BY <1>5, <1>7, SortMoves
  <2>4. /\ \A m \in kept : Rank(f, m) \in 1..Cardinality(kept)
        /\ \A r \in 1..Cardinality(kept) : \E m \in kept : Rank(f, m) = r
    BY <1>5, <1>7, RankOnto
  <2>5. after \subseteq {g[m] : m \in S}
    <3> SUFFICES ASSUME NEW j \in after PROVE \E m \in S : j = Rank(f, m)
      OBVIOUS
    <3>1. PICK m \in kept : Rank(f, m) = j
      BY <2>3, <2>4
    <3>2. f[m].stream = id /\ j > Rank(f, k)
      BY <2>3, <3>1
    <3>3. m \in Own(id)
      BY <1>3, <3>2
    <3>4. m > k
      <4>1. Rank(f, k) \in Int /\ Rank(f, m) \in Int /\ Rank(f, m) > Rank(f, k)
        BY <2>1, <2>4, <3>1, <3>2
      <4>2. ~(m < k)
        <5> SUFFICES ASSUME m < k PROVE FALSE
          OBVIOUS
        <5>1. Rank(f, m) < Rank(f, k)
          BY <1>8, <3>3
        <5> QED
          BY <4>1, <5>1
      <4>3. m # k
        BY <4>1
      <4> QED
        BY <1>4, <3>3, <4>2, <4>3
    <3> QED
      BY <3>1, <3>3, <3>4
  <2>6. {g[m] : m \in S} \subseteq after
    <3> SUFFICES ASSUME NEW m \in S PROVE Rank(f, m) \in after
      OBVIOUS
    <3>1. m \in Own(id) /\ k < m /\ m \in kept /\ m \in Int /\ k \in Int
      BY <1>4, <2>1
    <3>2. Rank(f, k) < Rank(f, m) /\ Rank(f, k) \in Int /\ Rank(f, m) \in Int
      BY <1>8, <3>1
    <3>3. Rank(f, m) \in DOMAIN batch /\ batch[Rank(f, m)] = f[m] /\ f[m].stream = id
      BY <1>3, <1>4, <2>3, <2>4, <3>1
    <3> QED
      BY <3>2, <3>3
  <2>7. Cardinality({g[m] : m \in S}) = Cardinality(S)
    BY <2>1, <2>2, ImageCardinality
  <2> QED
    BY <2>5, <2>6, <2>7
<1>11. ASSUME NEW i \in DOMAIN batch
       PROVE  LET id == batch[i].stream
                  later == {j \in DOMAIN batch : j > i /\ batch[j].stream = id}
              IN  /\ HasStream(new, id)
                  /\ batch[i].sequence = new.streams[id].next_sequence - 1 - Cardinality(later)
  <2>0. i \in 1..Cardinality(kept)
    BY <1>5, <1>7, SortMoves
  <2>1. PICK k \in kept : Rank(f, k) = i /\ batch[i] = f[k]
    <3>1. PICK k \in kept : Rank(f, k) = i
      BY <1>5, <1>7, <2>0, RankOnto
    <3> QED
      BY <1>5, <1>7, <3>1, SortMoves
  <2> DEFINE id == candidates[k].stream
  <2>2. /\ id \in DOMAIN ss.streams /\ k \in Own(id) /\ batch[i].stream = id
        /\ batch[i].sequence = ss.streams[id].next_sequence + Cardinality(Earlier(id, k))
    BY <1>3, <2>1
  <2>3. HasStream(new, id)
    BY <1>6, <2>2 DEF HasStream
  <2> HIDE DEF id
  <2>4. /\ Cardinality(Own(id)) = Cardinality(Earlier(id, k)) + 1 + Cardinality(Later(id, k))
        /\ Cardinality(Earlier(id, k)) \in Nat /\ Cardinality(Later(id, k)) \in Nat
    BY <1>4, <2>2, SplitAt
  <2>5. new.streams[id].next_sequence = ss.streams[id].next_sequence + Cardinality(Own(id))
    BY <1>9, <2>2
  <2>6. Cardinality({j \in DOMAIN batch : j > i /\ batch[j].stream = id}) = Cardinality(Later(id, k))
    BY <1>10, <2>1, <2>2
  <2> HIDE DEF Earlier, Later
  <2>7. batch[i].sequence = new.streams[id].next_sequence - 1 - Cardinality(Later(id, k))
    <3>1. ss.streams[id].next_sequence \in Nat
      BY <1>2, <2>2
    <3> QED
      BY <2>2, <2>4, <2>5, <3>1
  <2> QED
    BY <2>2, <2>3, <2>6, <2>7
<1>12. \A i, j \in DOMAIN batch : i < j => batch[i].priority >= batch[j].priority
  BY <1>7, SortDescends
<1>13. \E R : batch \in Seq(R)
  <2> DEFINE n == Cardinality(kept)
  <2>1. n \in Nat /\ batch = [r \in 1..n |-> batch[r]]
    BY <1>1, <1>5, <1>7, SortMoves, FS_CardinalityType
  <2> HIDE DEF batch, n
  <2>2. batch \in [1..n -> {batch[r] : r \in 1..n}]
    BY <2>1
  <2> QED
    BY <2>1, <2>2, SeqDef
<1>14. ASSUME NEW id \in DOMAIN ss.streams
       PROVE  new.streams[id].next_sequence
                = ss.streams[id].next_sequence + Cardinality({i \in DOMAIN batch : batch[i].stream = id})
  <2> DEFINE S == Own(id)
             g == [m \in S |-> Rank(f, m)]
             at == {i \in DOMAIN batch : batch[i].stream = id}
  <2>1. DOMAIN batch = 1..Cardinality(kept) /\ \A m \in kept : batch[Rank(f, m)] = f[m]
    BY <1>5, <1>7, SortMoves
  <2>2. /\ \A m \in kept : Rank(f, m) \in 1..Cardinality(kept)
        /\ \A r \in 1..Cardinality(kept) : \E m \in kept : Rank(f, m) = r
        /\ \A m, n \in kept : Rank(f, m) = Rank(f, n) => m = n
    BY <1>5, <1>7, RankOnto
  <2>3. \A m \in kept : m \in S <=> f[m].stream = id
    <3>1. \A m \in kept : f[m].stream = candidates[m].stream /\ m \in Own(candidates[m].stream)
      BY <1>3
    <3>2. \A m \in S : candidates[m].stream = id
      BY <1>4
    <3> QED
      BY <3>1, <3>2
  <2>4. S \subseteq kept /\ IsFiniteSet(S)
    BY <1>4
  <2> HIDE DEF batch, S
  <2>5. at = {g[m] : m \in S}
    BY <2>1, <2>2, <2>3, <2>4
  <2>6. \A m, n \in S : g[m] = g[n] => m = n
    BY <2>2, <2>4
  <2>7. Cardinality(at) = Cardinality(S)
    <3>1. Cardinality({g[m] : m \in S}) = Cardinality(S)
      BY <2>4, <2>6, ImageCardinality
    <3> QED
      BY <2>5, <3>1
  <2>8. CASE S = {}
    <3>1. new.streams[id] = ss.streams[id] /\ Cardinality(S) = 0
      BY <1>6, <2>8, FS_EmptySet DEF S
    <3> QED
      BY <1>2, <2>7, <3>1
  <2>9. CASE S # {}
    BY <1>9, <2>7, <2>9 DEF S
  <2> QED
    BY <2>8, <2>9
<1>15. DOMAIN new.streams = DOMAIN ss.streams
  BY <1>6
<1> HIDE DEF batch
<1>16. Contract(new, batch)
  BY <1>11, <1>12 DEF Contract
<1>17. Grows(ss, new, batch)
  BY <1>13, <1>14, <1>15 DEF Grows
<1> QED
  BY <1>16, <1>17 DEF new, batch, f, kept, PriorityFrames

-----------------------------------------------------------------------------
(* What the events say, and what the totals add up. *)

(* The events of a queue: a FramesBatched carries a number of frames. *)
QueueOK(q) ==
  \E R : q \in Seq(R) /\ \A e \in R : e.type = "FramesBatched" => e.frame_count \in Nat

(* The counters of new have moved by what new's queue says beyond old's. *)
Told(old, new) ==
  LET q == old.pending_events
      r == new.pending_events
  IN  /\ QueueOK(r)
      /\ CountOf(r, "StreamCreated") - CountOf(q, "StreamCreated")
           = new.total_streams - old.total_streams
      /\ CountOf(r, "StreamCompleted") - CountOf(q, "StreamCompleted")
           = new.completed_streams - old.completed_streams
      /\ CountOf(r, "StreamFailed") - CountOf(q, "StreamFailed")
           = new.failed_streams - old.failed_streams
      /\ FramesIn(r) - FramesIn(q) = new.total_frames - old.total_frames

(* The totals of a session are sums of natural numbers. *)
LedgerOK(ss) ==
  /\ ss.total_bytes \in Nat
  /\ \A id \in DOMAIN ss.streams : ss.streams[id].total_bytes \in Nat
  /\ FramesAddUp(ss)

(* The events of a queue can be counted. *)
LEMMA CountType ==
  ASSUME NEW q, QueueOK(q)
  PROVE  /\ IsFiniteSet(DOMAIN q) /\ DOMAIN q = 1..Len(q) /\ Len(q) \in Nat
         /\ \A type : CountOf(q, type) \in Nat
         /\ FramesIn(q) \in Nat
<1>1. PICK R : q \in Seq(R) /\ \A e \in R : e.type = "FramesBatched" => e.frame_count \in Nat
  BY DEF QueueOK
<1>2. DOMAIN q = 1..Len(q) /\ Len(q) \in Nat /\ IsFiniteSet(DOMAIN q)
  BY <1>1, LenProperties, FS_Interval
<1>3. \A type : CountOf(q, type) \in Nat
  <2> TAKE type
  <2>1. {i \in DOMAIN q : q[i].type = type} \subseteq DOMAIN q
    OBVIOUS
  <2> QED
    BY <1>2, <2>1, FS_Subset, FS_CardinalityType DEF CountOf
<1>4. FramesIn(q) \in Nat
  <2> DEFINE B == {j \in DOMAIN q : q[j].type = "FramesBatched"}
             f == [i \in B |-> q[i].frame_count]
  <2>1. IsFiniteSet(B)
    BY <1>2, FS_Subset
  <2>2. \A i \in B : f[i] \in Nat
    BY <1>1, ElementOfSeq, <1>2
  <2>3. FramesIn(q) = SumFunctionOnSet(f, B)
    BY DEF FramesIn, SumFunction
  <2> HIDE DEF f, B
  <2> QED
    BY <2>1, <2>2, <2>3, SumStep
<1> QED
  BY <1>2, <1>3, <1>4

(* An empty queue says nothing. *)
LEMMA EmptyQueue ==
  /\ QueueOK(<<>>)
  /\ \A type : CountOf(<<>>, type) = 0
  /\ FramesIn(<<>>) = 0
<1>1. <<>> \in Seq({}) /\ DOMAIN <<>> = {}
  OBVIOUS
<1>2. QueueOK(<<>>)
  BY <1>1 DEF QueueOK
<1>3. \A type : {i \in DOMAIN <<>> : <<>>[i].type = type} = {}
  BY <1>1
<1>4. \A type : CountOf(<<>>, type) = 0
  BY <1>3, FS_EmptySet DEF CountOf
<1>5. FramesIn(<<>>) = 0
  <2> DEFINE B == {j \in DOMAIN <<>> : <<>>[j].type = "FramesBatched"}
             f == [i \in B |-> <<>>[i].frame_count]
  <2>1. FramesIn(<<>>) = SumFunctionOnSet(f, B) /\ B = {}
    BY <1>3 DEF FramesIn, SumFunction
  <2> HIDE DEF f, B
  <2>2. SumFunctionOnSet(f, {}) = 0
    BY SumStep, FS_EmptySet
  <2> QED
    BY <2>1, <2>2
<1> QED
  BY <1>2, <1>4, <1>5

(* What one more event adds. *)
LEMMA QueueOne ==
  ASSUME NEW q, QueueOK(q), NEW e, e.type = "FramesBatched" => e.frame_count \in Nat
  PROVE  /\ QueueOK(Append(q, e))
         /\ \A type : CountOf(Append(q, e), type)
                        = CountOf(q, type) + (IF e.type = type THEN 1 ELSE 0)
         /\ FramesIn(Append(q, e))
               = FramesIn(q) + (IF e.type = "FramesBatched" THEN e.frame_count ELSE 0)
<1> DEFINE r == Append(q, e)
           n == Len(q) + 1
<1>1. PICK R : q \in Seq(R) /\ \A x \in R : x.type = "FramesBatched" => x.frame_count \in Nat
  BY DEF QueueOK
<1>2. /\ DOMAIN q = 1..Len(q) /\ Len(q) \in Nat /\ n \notin DOMAIN q /\ n \in Nat
      /\ IsFiniteSet(DOMAIN q) /\ \A type : CountOf(q, type) \in Nat /\ FramesIn(q) \in Nat
  BY CountType
<1>3. q \in Seq(R \union {e}) /\ e \in R \union {e}
  BY <1>1
<1>4. r \in Seq(R \union {e}) /\ Len(r) = n /\ r[n] = e /\ \A i \in DOMAIN q : r[i] = q[i]
  BY <1>2, <1>3, AppendProperties
<1>5. DOMAIN r = DOMAIN q \union {n}
  <2>1. DOMAIN r = 1..n
    BY <1>4, LenProperties
  <2>2. 1..(Len(q) + 1) = (1..Len(q)) \union {Len(q) + 1}
    BY <1>2
  <2> QED
    BY <1>2, <2>1, <2>2
<1>6. QueueOK(r)
  BY <1>1, <1>4 DEF QueueOK
<1> HIDE DEF r, n
<1>7. ASSUME NEW type
      PROVE  CountOf(r, type) = CountOf(q, type) + (IF e.type = type THEN 1 ELSE 0)
  <2> DEFINE A == {i \in DOMAIN q : q[i].type = type}
             B == {i \in DOMAIN r : r[i].type = type}
  <2>1. IsFiniteSet(A) /\ n \notin A
    BY <1>2, FS_Subset
  <2>2. B = IF e.type = type THEN A \union {n} ELSE A
    BY <1>2, <1>4, <1>5
  <2>3. CountOf(q, type) = Cardinality(A) /\ CountOf(r, type) = Cardinality(B)
    BY DEF CountOf
  <2>4. Cardinality(A) \in Nat
    BY <2>1, FS_CardinalityType
  <2> HIDE DEF A, B
  <2>5. Cardinality(A \union {n}) = Cardinality(A) + 1
    BY <2>1, FS_AddElement
  <2> QED
    BY <2>2, <2>3, <2>4, <2>5
<1>8. FramesIn(r) = FramesIn(q) + (IF e.type = "FramesBatched" THEN e.frame_count ELSE 0)
  <2> DEFINE A == {j \in DOMAIN q : q[j].type = "FramesBatched"}
             B == {j \in DOMAIN r : r[j].type = "FramesBatched"}
             f == [i \in A |-> q[i].frame_count]
             g == [i \in B |-> r[i].frame_count]
  <2>1. IsFiniteSet(A) /\ n \notin A
    BY <1>2, FS_Subset
  <2>2. \A i \in A : f[i] \in Nat
    BY <1>1, <1>2, ElementOfSeq
  <2>3. B = IF e.type = "FramesBatched" THEN A \union {n} ELSE A
    BY <1>2, <1>4, <1>5
  <2>4. \A i \in A : g[i] = f[i]
    BY <1>4, <1>5, <2>3
  <2>5. e.type = "FramesBatched" => g[n] = e.frame_count
    BY <1>4, <2>3
  <2>6. FramesIn(q) = SumFunctionOnSet(f, A) /\ FramesIn(r) = SumFunctionOnSet(g, B)
    BY DEF FramesIn, SumFunction
  <2> HIDE DEF f, g, A, B
  <2>7. CASE e.type = "FramesBatched"
    <3>1. SumFunctionOnSet(g, A \union {n}) = SumFunctionOnSet(f, A) + g[n]
      BY <2>1, <2>2, <2>4, <2>5, <2>7, SumInsert
    <3> QED
      BY <2>3, <2>5, <2>6, <2>7, <3>1
  <2>8. CASE e.type # "FramesBatched"
    <3>1. SumFunctionOnSet(g, A) = SumFunctionOnSet(f, A)
      BY <2>1, <2>2, <2>4, SumSame
    <3> QED
      BY <1>2, <2>3, <2>6, <2>8, <3>1
  <2> QED
    BY <2>7, <2>8
<1> QED
  BY <1>6, <1>7, <1>8 DEF r

(* A method that queues one event and moves the counter of that event. *)
LEMMA ToldOne ==
  ASSUME NEW ss, SessionInv(ss), QueueOK(ss.pending_events), NEW tt, NEW e,
         e.type = "FramesBatched" => e.frame_count \in Nat,
         tt.pending_events = Append(ss.pending_events, e),
         tt.total_streams = ss.total_streams + (IF e.type = "StreamCreated" THEN 1 ELSE 0),
         tt.completed_streams = ss.completed_streams + (IF e.type = "StreamCompleted" THEN 1 ELSE 0),
         tt.failed_streams = ss.failed_streams + (IF e.type = "StreamFailed" THEN 1 ELSE 0),
         tt.total_frames = ss.total_frames + (IF e.type = "FramesBatched" THEN e.frame_count ELSE 0)
  PROVE  Told(ss, tt)
<1> DEFINE q == ss.pending_events
           r == tt.pending_events
<1>1. /\ QueueOK(r)
      /\ \A type : CountOf(r, type) = CountOf(q, type) + (IF e.type = type THEN 1 ELSE 0)
      /\ FramesIn(r) = FramesIn(q) + (IF e.type = "FramesBatched" THEN e.frame_count ELSE 0)
  BY QueueOne
<1>2. (\A type : CountOf(q, type) \in Nat) /\ FramesIn(q) \in Nat
  BY CountType
<1>3. /\ ss.total_streams \in Nat /\ ss.completed_streams \in Nat
      /\ ss.failed_streams \in Nat /\ ss.total_frames \in Nat
  BY DEF SessionInv, SessionOK
<1>4. CountOf(r, "StreamCreated") - CountOf(q, "StreamCreated")
        = tt.total_streams - ss.total_streams
  BY <1>1, <1>2, <1>3
<1>5. CountOf(r, "StreamCompleted") - CountOf(q, "StreamCompleted")
        = tt.completed_streams - ss.completed_streams
  BY <1>1, <1>2, <1>3
<1>6. CountOf(r, "StreamFailed") - CountOf(q, "StreamFailed")
        = tt.failed_streams - ss.failed_streams
  BY <1>1, <1>2, <1>3
<1>7. FramesIn(r) - FramesIn(q) = tt.total_frames - ss.total_frames
  BY <1>1, <1>2, <1>3
<1> QED
  BY <1>1, <1>4, <1>5, <1>6, <1>7 DEF Told

(* A method whose event moves no counter, and that moves none. *)
LEMMA ToldNothing ==
  ASSUME NEW ss, SessionInv(ss), QueueOK(ss.pending_events), NEW tt, NEW e,
         e.type \notin {"StreamCreated", "StreamCompleted", "StreamFailed", "FramesBatched"},
         tt.pending_events = Append(ss.pending_events, e),
         tt.total_streams = ss.total_streams, tt.completed_streams = ss.completed_streams,
         tt.failed_streams = ss.failed_streams, tt.total_frames = ss.total_frames
  PROVE  Told(ss, tt)
<1>1. /\ ss.total_streams \in Nat /\ ss.completed_streams \in Nat
      /\ ss.failed_streams \in Nat /\ ss.total_frames \in Nat
  BY DEF SessionInv, SessionOK
<1>2. /\ tt.total_streams = ss.total_streams + (IF e.type = "StreamCreated" THEN 1 ELSE 0)
      /\ tt.completed_streams = ss.completed_streams + (IF e.type = "StreamCompleted" THEN 1 ELSE 0)
      /\ tt.failed_streams = ss.failed_streams + (IF e.type = "StreamFailed" THEN 1 ELSE 0)
      /\ tt.total_frames
            = ss.total_frames + (IF e.type = "FramesBatched" THEN e.frame_count ELSE 0)
  BY <1>1
<1>3. e.type = "FramesBatched" => e.frame_count \in Nat
  OBVIOUS
<1> QED
  BY <1>2, <1>3, ToldOne

(* A method that leaves the totals and the streams' shares of them alone. *)
LEMMA LedgerSame ==
  ASSUME NEW ss, SessionInv(ss), LedgerOK(ss), NEW tt,
         DOMAIN tt.streams = DOMAIN ss.streams,
         \A id \in DOMAIN ss.streams :
           /\ tt.streams[id].patch_frames = ss.streams[id].patch_frames
           /\ tt.streams[id].total_bytes = ss.streams[id].total_bytes,
         tt.total_frames = ss.total_frames, tt.total_bytes = ss.total_bytes,
         tt.state # "Failed" => ss.state # "Failed"
  PROVE  LedgerOK(tt)
<1>1. tt.total_bytes \in Nat /\ \A id \in DOMAIN tt.streams : tt.streams[id].total_bytes \in Nat
  BY DEF LedgerOK
<1> DEFINE D == DOMAIN ss.streams
<1>2. /\ [id \in DOMAIN tt.streams |-> tt.streams[id].patch_frames]
           = [id \in D |-> ss.streams[id].patch_frames]
      /\ [id \in DOMAIN tt.streams |-> tt.streams[id].total_bytes]
           = [id \in D |-> ss.streams[id].total_bytes]
  OBVIOUS
<1>3. FramesAddUp(tt)
  BY <1>2 DEF LedgerOK, FramesAddUp
<1> QED
  BY <1>1, <1>3 DEF LedgerOK

(* The fields of a session to which an event is queued. *)
LEMMA QueuedFields ==
  ASSUME NEW tt, NEW e, DOMAIN tt = SessionField
  PROVE  LET u == add_event(tt, e)
         IN  /\ DOMAIN u = SessionField
             /\ u.pending_events = Append(tt.pending_events, e)
             /\ u.state = tt.state /\ u.streams = tt.streams
             /\ u.total_streams = tt.total_streams
             /\ u.completed_streams = tt.completed_streams
             /\ u.failed_streams = tt.failed_streams
             /\ u.total_frames = tt.total_frames /\ u.total_bytes = tt.total_bytes
  BY DEF add_event, SessionField

(* A new session, and one whose events were drained. *)
LEMMA NewLedger ==
  ASSUME NEW now \in Nat
  PROVE  LedgerOK(NewSession(now)) /\ NewSession(now).pending_events = <<>>
<1> DEFINE t == NewSession(now)
<1>1. /\ DOMAIN t.streams = {} /\ t.total_bytes = 0 /\ t.total_frames = 0
      /\ t.pending_events = <<>>
  BY DEF NewSession
<1> HIDE DEF t
<1>2. \A f : DOMAIN f = {} => SumFunction(f) = 0
  BY FS_EmptySet, SumStep DEF SumFunction
<1>3. FramesAddUp(t)
  BY <1>1, <1>2 DEF FramesAddUp
<1> QED
  BY <1>1, <1>3 DEF LedgerOK, t

(* Draining the queue leaves the totals alone. *)
LEMMA TakeEventsLedger ==
  ASSUME NEW ss, SessionInv(ss), LedgerOK(ss)
  PROVE  LedgerOK(take_events(ss)) /\ take_events(ss).pending_events = <<>>
<1> DEFINE t == take_events(ss)
<1>1. /\ t.streams = ss.streams /\ t.total_bytes = ss.total_bytes
      /\ t.total_frames = ss.total_frames /\ t.state = ss.state
      /\ t.pending_events = <<>>
  BY DEF take_events, SessionInv, SessionOK, SessionField
<1> HIDE DEF t
<1> QED
  BY <1>1, LedgerSame DEF t

(* Both accounts of a method that queues one event. *)
Accounted(old, new) == LedgerOK(new) /\ Told(old, new)

(* activate and extend_timeout. *)
LEMMA SessionAccounted ==
  ASSUME NEW ss, SessionInv(ss), LedgerOK(ss), QueueOK(ss.pending_events), NEW additional \in Nat
  PROVE  /\ CanActivate(ss) => Accounted(ss, activate(ss))
         /\ Accounted(ss, extend_timeout(ss, additional))
<1>1. DOMAIN ss = SessionField /\ ss.total_frames \in Nat /\ ss.total_streams \in Nat
      /\ ss.completed_streams \in Nat /\ ss.failed_streams \in Nat
  BY DEF SessionInv, SessionOK
<1>2. ASSUME NEW t, NEW e, e.type \in {"SessionActivated", "SessionTimeoutExtended"},
             DOMAIN t = SessionField, t.streams = ss.streams,
             t.total_streams = ss.total_streams, t.completed_streams = ss.completed_streams,
             t.failed_streams = ss.failed_streams, t.total_frames = ss.total_frames,
             t.total_bytes = ss.total_bytes, t.pending_events = ss.pending_events,
             t.state # "Failed" => ss.state # "Failed"
      PROVE  Accounted(ss, add_event(t, e))
  <2> DEFINE u == add_event(t, e)
  <2>1. /\ u.streams = ss.streams /\ u.total_streams = ss.total_streams
        /\ u.completed_streams = ss.completed_streams /\ u.failed_streams = ss.failed_streams
        /\ u.total_frames = ss.total_frames /\ u.total_bytes = ss.total_bytes
        /\ u.pending_events = Append(ss.pending_events, e)
        /\ u.state # "Failed" => ss.state # "Failed"
    BY <1>2, QueuedFields
  <2> HIDE DEF u
  <2>2. LedgerOK(u)
    BY <2>1, LedgerSame
  <2>3. Told(ss, u)
    BY <1>2, <2>1, ToldNothing
  <2> QED
    BY <2>2, <2>3 DEF Accounted, u
<1>3. CanActivate(ss) => Accounted(ss, activate(ss))
  <2> DEFINE t == [ss EXCEPT !.state = "Active"]
             e == SessionEvent("SessionActivated")
  <2>1. /\ DOMAIN t = SessionField /\ t.streams = ss.streams
        /\ t.total_streams = ss.total_streams /\ t.completed_streams = ss.completed_streams
        /\ t.failed_streams = ss.failed_streams /\ t.total_frames = ss.total_frames
        /\ t.total_bytes = ss.total_bytes /\ t.pending_events = ss.pending_events
        /\ e.type = "SessionActivated"
    BY <1>1 DEF SessionField, SessionEvent
  <2>2. activate(ss) = add_event(t, e) /\ (CanActivate(ss) => ss.state # "Failed")
    BY DEF activate, CanActivate
  <2> HIDE DEF t, e
  <2> QED
    BY <1>2, <2>1, <2>2
<1>4. Accounted(ss, extend_timeout(ss, additional))
  <2> DEFINE t == [ss EXCEPT !.expires_at = @ + additional]
             e == SessionEvent("SessionTimeoutExtended")
  <2>1. /\ DOMAIN t = SessionField /\ t.streams = ss.streams /\ t.state = ss.state
        /\ t.total_streams = ss.total_streams /\ t.completed_streams = ss.completed_streams
        /\ t.failed_streams = ss.failed_streams /\ t.total_frames = ss.total_frames
        /\ t.total_bytes = ss.total_bytes /\ t.pending_events = ss.pending_events
        /\ e.type = "SessionTimeoutExtended"
    BY <1>1 DEF SessionField, SessionEvent
  <2>2. extend_timeout(ss, additional) = add_event(t, e)
    BY DEF extend_timeout
  <2> HIDE DEF t, e
  <2> QED
    BY <1>2, <2>1, <2>2
<1> QED
  BY <1>3, <1>4

(* close cancels streams, which keep their frames and bytes. *)
LEMMA CloseAccounted ==
  ASSUME NEW ss, SessionInv(ss), LedgerOK(ss), QueueOK(ss.pending_events), CanClose(ss)
  PROVE  Accounted(ss, close(ss))
<1> DEFINE t == [ss EXCEPT !.state = "Completed", !.streams = CancelActive(@)]
           e == SessionEvent("SessionClosed")
           u == add_event(t, e)
<1>1. /\ DOMAIN t = SessionField /\ t.state = "Completed" /\ t.streams = CancelActive(ss.streams)
      /\ t.total_streams = ss.total_streams /\ t.completed_streams = ss.completed_streams
      /\ t.failed_streams = ss.failed_streams /\ t.total_frames = ss.total_frames
      /\ t.total_bytes = ss.total_bytes /\ t.pending_events = ss.pending_events
      /\ e.type = "SessionClosed"
  BY DEF SessionInv, SessionOK, SessionField, SessionEvent
<1>2. close(ss) = u
  BY DEF close
<1> HIDE DEF t, e
<1>3. /\ u.streams = CancelActive(ss.streams) /\ u.total_streams = ss.total_streams
      /\ u.completed_streams = ss.completed_streams /\ u.failed_streams = ss.failed_streams
      /\ u.total_frames = ss.total_frames /\ u.total_bytes = ss.total_bytes
      /\ u.pending_events = Append(ss.pending_events, e)
  BY <1>1, QueuedFields
<1> HIDE DEF u
<1>4. DOMAIN u.streams = DOMAIN ss.streams
  BY <1>3 DEF CancelActive
<1>5. \A id \in DOMAIN ss.streams :
        /\ u.streams[id].patch_frames = ss.streams[id].patch_frames
        /\ u.streams[id].total_bytes = ss.streams[id].total_bytes
  <2> TAKE id \in DOMAIN ss.streams
  <2>1. u.streams[id] = IF CanCancel(ss.streams[id]) THEN cancel(ss.streams[id]) ELSE ss.streams[id]
    BY <1>3 DEF CancelActive
  <2>2. DOMAIN ss.streams[id] = StreamField
    BY DEF SessionInv, SessionOK, StreamOK
  <2> QED
    BY <2>1, <2>2 DEF cancel, StreamField
<1>6. LedgerOK(u)
  BY <1>3, <1>4, <1>5, LedgerSame DEF CanClose
<1>8. Told(ss, u)
  BY <1>1, <1>3, ToldNothing
<1> QED
  BY <1>2, <1>6, <1>8 DEF Accounted

(* force_close_expired drops the streams: the totals no longer describe them. *)
LEMMA ForceCloseAccounted ==
  ASSUME NEW ss, SessionInv(ss), LedgerOK(ss), QueueOK(ss.pending_events)
  PROVE  Accounted(ss, force_close_expired(ss))
<1> DEFINE t == [ss EXCEPT !.state = "Failed", !.streams = <<>>]
           e == [type |-> "SessionTimedOut", original_state |-> ss.state]
           u == add_event(t, e)
<1>1. /\ DOMAIN t = SessionField /\ t.state = "Failed" /\ DOMAIN t.streams = {}
      /\ t.total_streams = ss.total_streams /\ t.completed_streams = ss.completed_streams
      /\ t.failed_streams = ss.failed_streams /\ t.total_frames = ss.total_frames
      /\ t.total_bytes = ss.total_bytes /\ t.pending_events = ss.pending_events
      /\ e.type = "SessionTimedOut"
  BY DEF SessionInv, SessionOK, SessionField
<1>2. force_close_expired(ss) = u
  BY DEF force_close_expired
<1> HIDE DEF t, e
<1>3. /\ DOMAIN u.streams = {} /\ u.state = "Failed" /\ u.total_streams = ss.total_streams
      /\ u.completed_streams = ss.completed_streams /\ u.failed_streams = ss.failed_streams
      /\ u.total_frames = ss.total_frames /\ u.total_bytes = ss.total_bytes
      /\ u.pending_events = Append(ss.pending_events, e)
  BY <1>1, QueuedFields
<1> HIDE DEF u
<1>4. LedgerOK(u)
  BY <1>3 DEF LedgerOK, FramesAddUp
<1>6. Told(ss, u)
  BY <1>1, <1>3, ToldNothing
<1> QED
  BY <1>2, <1>4, <1>6 DEF Accounted

(***************************************************************************)
(* A change of one stream that keeps its frames and bytes, with its event: *)
(* start_stream, update_stream_config, complete_stream and fail_stream.    *)
(***************************************************************************)
LEMMA OneStreamAccounted ==
  ASSUME NEW ss, SessionInv(ss), LedgerOK(ss), QueueOK(ss.pending_events),
         NEW id, HasStream(ss, id), NEW st, NEW t, NEW e,
         st.patch_frames = ss.streams[id].patch_frames,
         st.total_bytes = ss.streams[id].total_bytes,
         DOMAIN t = SessionField, t.state = ss.state,
         t.streams = [ss.streams EXCEPT ![id] = st],
         t.total_frames = ss.total_frames, t.total_bytes = ss.total_bytes,
         t.pending_events = ss.pending_events,
         e.type # "FramesBatched",
         t.total_streams = ss.total_streams + (IF e.type = "StreamCreated" THEN 1 ELSE 0),
         t.completed_streams = ss.completed_streams + (IF e.type = "StreamCompleted" THEN 1 ELSE 0),
         t.failed_streams = ss.failed_streams + (IF e.type = "StreamFailed" THEN 1 ELSE 0)
  PROVE  Accounted(ss, add_event(t, e))
<1> DEFINE u == add_event(t, e)
<1>1. /\ u.streams = t.streams /\ u.total_streams = t.total_streams /\ u.state = ss.state
      /\ u.completed_streams = t.completed_streams /\ u.failed_streams = t.failed_streams
      /\ u.total_frames = ss.total_frames /\ u.total_bytes = ss.total_bytes
      /\ u.pending_events = Append(ss.pending_events, e)
  BY QueuedFields
<1> HIDE DEF u
<1>2. /\ DOMAIN u.streams = DOMAIN ss.streams
      /\ \A i \in DOMAIN ss.streams :
           /\ u.streams[i].patch_frames = ss.streams[i].patch_frames
           /\ u.streams[i].total_bytes = ss.streams[i].total_bytes
  BY <1>1 DEF HasStream
<1>3. LedgerOK(u)
  BY <1>1, <1>2, LedgerSame
<1>4. ss.total_frames \in Nat
  BY DEF SessionInv, SessionOK
<1>5. Told(ss, u)
  BY <1>1, <1>4, ToldOne
<1> QED
  BY <1>3, <1>5 DEF Accounted, u

(* The four methods. *)
LEMMA StreamAccounted ==
  ASSUME NEW ss, SessionInv(ss), LedgerOK(ss), QueueOK(ss.pending_events),
         NEW id, HasStream(ss, id), NEW rules
  PROVE  /\ Accounted(ss, start_stream(ss, id))
         /\ Accounted(ss, update_stream_config(ss, id, rules))
         /\ Accounted(ss, complete_stream(ss, id))
         /\ Accounted(ss, fail_stream(ss, id))
<1> DEFINE old == ss.streams[id]
<1>1. /\ DOMAIN ss = SessionField /\ DOMAIN old = StreamField
      /\ ss.total_streams \in Nat /\ ss.completed_streams \in Nat /\ ss.failed_streams \in Nat
  BY DEF SessionInv, SessionOK, StreamOK, HasStream
<1>2. /\ \A s : [old EXCEPT !.state = s].patch_frames = old.patch_frames
      /\ \A s : [old EXCEPT !.state = s].total_bytes = old.total_bytes
      /\ [old EXCEPT !.rules = rules].patch_frames = old.patch_frames
      /\ [old EXCEPT !.rules = rules].total_bytes = old.total_bytes
  BY <1>1 DEF StreamField
<1>3. Accounted(ss, start_stream(ss, id))
  <2> DEFINE st == start_streaming(old)
             t == [ss EXCEPT !.streams[id] = st]
             e == StreamEvent("StreamStarted", id)
  <2>1. st.patch_frames = old.patch_frames /\ st.total_bytes = old.total_bytes
    BY <1>2 DEF start_streaming
  <2>2. start_stream(ss, id) = add_event(t, e) /\ e.type = "StreamStarted"
    BY DEF start_stream, StreamEvent
  <2> HIDE DEF st, e
  <2>3. /\ DOMAIN t = SessionField /\ t.state = ss.state
        /\ t.streams = [ss.streams EXCEPT ![id] = st]
        /\ t.total_frames = ss.total_frames /\ t.total_bytes = ss.total_bytes
        /\ t.pending_events = ss.pending_events /\ t.total_streams = ss.total_streams
        /\ t.completed_streams = ss.completed_streams /\ t.failed_streams = ss.failed_streams
    BY <1>1 DEF SessionField
  <2> HIDE DEF t
  <2>4. Accounted(ss, add_event(t, e))
    BY <1>1, <2>1, <2>2, <2>3, OneStreamAccounted
  <2> QED
    BY <2>2, <2>4
<1>4. Accounted(ss, update_stream_config(ss, id, rules))
  <2> DEFINE st == update_config(old, rules)
             t == [ss EXCEPT !.streams[id] = st]
             e == StreamEvent("StreamConfigUpdated", id)
  <2>1. st.patch_frames = old.patch_frames /\ st.total_bytes = old.total_bytes
    BY <1>2 DEF update_config
  <2>2. update_stream_config(ss, id, rules) = add_event(t, e) /\ e.type = "StreamConfigUpdated"
    BY DEF update_stream_config, StreamEvent
  <2> HIDE DEF st, e
  <2>3. /\ DOMAIN t = SessionField /\ t.state = ss.state
        /\ t.streams = [ss.streams EXCEPT ![id] = st]
        /\ t.total_frames = ss.total_frames /\ t.total_bytes = ss.total_bytes
        /\ t.pending_events = ss.pending_events /\ t.total_streams = ss.total_streams
        /\ t.completed_streams = ss.completed_streams /\ t.failed_streams = ss.failed_streams
    BY <1>1 DEF SessionField
  <2> HIDE DEF t
  <2>4. Accounted(ss, add_event(t, e))
    BY <1>1, <2>1, <2>2, <2>3, OneStreamAccounted
  <2> QED
    BY <2>2, <2>4
<1>5. Accounted(ss, complete_stream(ss, id))
  <2> DEFINE st == complete(old)
             left == SaturatingSub(ss.active_streams, 1)
             t == [ss EXCEPT !.streams[id]       = st,
                             !.active_streams    = left,
                             !.completed_streams = @ + 1]
             e == StreamEvent("StreamCompleted", id)
  <2>1. st.patch_frames = old.patch_frames /\ st.total_bytes = old.total_bytes
    BY <1>2 DEF complete
  <2>2. complete_stream(ss, id) = add_event(t, e) /\ e.type = "StreamCompleted"
    BY DEF complete_stream, StreamEvent
  <2> HIDE DEF st, e, left
  <2>3. /\ DOMAIN t = SessionField /\ t.state = ss.state
        /\ t.streams = [ss.streams EXCEPT ![id] = st]
        /\ t.total_frames = ss.total_frames /\ t.total_bytes = ss.total_bytes
        /\ t.pending_events = ss.pending_events /\ t.total_streams = ss.total_streams
        /\ t.completed_streams = ss.completed_streams + 1 /\ t.failed_streams = ss.failed_streams
    BY <1>1 DEF SessionField
  <2> HIDE DEF t
  <2>4. Accounted(ss, add_event(t, e))
    BY <1>1, <2>1, <2>2, <2>3, OneStreamAccounted
  <2> QED
    BY <2>2, <2>4
<1>6. Accounted(ss, fail_stream(ss, id))
  <2> DEFINE st == fail(old)
             left == SaturatingSub(ss.active_streams, 1)
             t == [ss EXCEPT !.streams[id]    = st,
                             !.active_streams = left,
                             !.failed_streams = @ + 1]
             e == StreamEvent("StreamFailed", id)
  <2>1. st.patch_frames = old.patch_frames /\ st.total_bytes = old.total_bytes
    BY <1>2 DEF fail
  <2>2. fail_stream(ss, id) = add_event(t, e) /\ e.type = "StreamFailed"
    BY DEF fail_stream, StreamEvent
  <2> HIDE DEF st, e, left
  <2>3. /\ DOMAIN t = SessionField /\ t.state = ss.state
        /\ t.streams = [ss.streams EXCEPT ![id] = st]
        /\ t.total_frames = ss.total_frames /\ t.total_bytes = ss.total_bytes
        /\ t.pending_events = ss.pending_events /\ t.total_streams = ss.total_streams
        /\ t.completed_streams = ss.completed_streams /\ t.failed_streams = ss.failed_streams + 1
    BY <1>1 DEF SessionField
  <2> HIDE DEF t
  <2>4. Accounted(ss, add_event(t, e))
    BY <1>1, <2>1, <2>2, <2>3, OneStreamAccounted
  <2> QED
    BY <2>2, <2>4
<1> QED
  BY <1>3, <1>4, <1>5, <1>6

(* A new stream has neither frames nor bytes. *)
LEMMA CreateStreamAccounted ==
  ASSUME NEW ss, SessionInv(ss), LedgerOK(ss), QueueOK(ss.pending_events),
         NEW id, ~HasStream(ss, id), NEW source, NEW rules
  PROVE  Accounted(ss, create_stream(ss, id, source, rules))
<1> DEFINE st == NewStream(id, source, rules)
           t == [ss EXCEPT !.streams        = WithStream(@, id, st),
                           !.total_streams  = @ + 1,
                           !.active_streams = @ + 1]
           e == StreamEvent("StreamCreated", id)
           u == add_event(t, e)
           D == DOMAIN ss.streams
<1>1. /\ DOMAIN t = SessionField /\ t.state = ss.state
      /\ t.streams = WithStream(ss.streams, id, st) /\ t.total_streams = ss.total_streams + 1
      /\ t.completed_streams = ss.completed_streams /\ t.failed_streams = ss.failed_streams
      /\ t.total_frames = ss.total_frames /\ t.total_bytes = ss.total_bytes
      /\ t.pending_events = ss.pending_events
  BY DEF SessionInv, SessionOK, SessionField
<1>2. st.patch_frames = 0 /\ st.total_bytes = 0 /\ e.type = "StreamCreated"
  BY DEF NewStream, StreamEvent
<1>3. create_stream(ss, id, source, rules) = u
  BY DEF create_stream
<1> HIDE DEF t, e, st
<1>4. /\ u.state = ss.state /\ u.streams = WithStream(ss.streams, id, st)
      /\ u.total_streams = ss.total_streams + 1
      /\ u.completed_streams = ss.completed_streams /\ u.failed_streams = ss.failed_streams
      /\ u.total_frames = ss.total_frames /\ u.total_bytes = ss.total_bytes
      /\ u.pending_events = Append(ss.pending_events, e)
  BY <1>1, QueuedFields
<1> HIDE DEF u
<1>5. /\ DOMAIN u.streams = D \union {id} /\ id \notin D /\ u.streams[id] = st
      /\ \A i \in D : u.streams[i] = ss.streams[i]
  BY <1>4 DEF WithStream, HasStream
<1>6. IsFiniteSet(D) /\ \A i \in D : ss.streams[i].patch_frames \in Nat /\ ss.streams[i].total_bytes \in Nat
  BY FiniteParts DEF SessionInv, SessionOK, StreamOK, LedgerOK
<1>7. /\ SumFunction([i \in DOMAIN u.streams |-> u.streams[i].patch_frames])
           = SumFunction([i \in D |-> ss.streams[i].patch_frames]) + 0
      /\ SumFunction([i \in DOMAIN u.streams |-> u.streams[i].total_bytes])
           = SumFunction([i \in D |-> ss.streams[i].total_bytes]) + 0
  <2> DEFINE f == [i \in D |-> ss.streams[i].patch_frames]
             g == [i \in D \union {id} |-> u.streams[i].patch_frames]
             a == [i \in D |-> ss.streams[i].total_bytes]
             b == [i \in D \union {id} |-> u.streams[i].total_bytes]
  <2>1. /\ DOMAIN f = D /\ DOMAIN a = D /\ DOMAIN g = D \union {id} /\ DOMAIN b = D \union {id}
        /\ \A i \in D : f[i] \in Nat /\ g[i] = f[i] /\ a[i] \in Nat /\ b[i] = a[i]
        /\ g[id] = 0 /\ b[id] = 0
    BY <1>2, <1>5, <1>6
  <2> HIDE DEF f, g, a, b
  <2>2. SumFunctionOnSet(g, D \union {id}) = SumFunctionOnSet(f, D) + g[id]
    BY <1>5, <1>6, <2>1, SumInsert
  <2>3. SumFunctionOnSet(b, D \union {id}) = SumFunctionOnSet(a, D) + b[id]
    BY <1>5, <1>6, <2>1, SumInsert
  <2>4. /\ SumFunction(f) = SumFunctionOnSet(f, D) /\ SumFunction(g) = SumFunctionOnSet(g, D \union {id})
        /\ SumFunction(a) = SumFunctionOnSet(a, D) /\ SumFunction(b) = SumFunctionOnSet(b, D \union {id})
    BY <2>1 DEF SumFunction
  <2> QED
    BY <1>5, <2>1, <2>2, <2>3, <2>4 DEF f, g, a, b
<1>8. FramesAddUp(u)
  <2>1. ss.total_frames \in Nat /\ ss.total_bytes \in Nat
    BY DEF SessionInv, SessionOK, LedgerOK
  <2> QED
    BY <1>4, <1>7, <2>1 DEF FramesAddUp, LedgerOK
<1>9. LedgerOK(u)
  BY <1>2, <1>4, <1>5, <1>6, <1>8 DEF LedgerOK
<1>10. Told(ss, u)
  <2>1. /\ ss.completed_streams \in Nat /\ ss.failed_streams \in Nat /\ ss.total_frames \in Nat
    BY DEF SessionInv, SessionOK
  <2>2. /\ e.type = "FramesBatched" => e.frame_count \in Nat
        /\ u.total_streams = ss.total_streams + (IF e.type = "StreamCreated" THEN 1 ELSE 0)
        /\ u.completed_streams = ss.completed_streams + (IF e.type = "StreamCompleted" THEN 1 ELSE 0)
        /\ u.failed_streams = ss.failed_streams + (IF e.type = "StreamFailed" THEN 1 ELSE 0)
        /\ u.total_frames = ss.total_frames + (IF e.type = "FramesBatched" THEN e.frame_count ELSE 0)
    BY <1>2, <1>4, <2>1
  <2> QED
    BY <1>4, <2>2, ToldOne
<1> QED
  BY <1>3, <1>9, <1>10 DEF Accounted

(* Two methods in a row. *)
LEMMA ToldTwice ==
  ASSUME NEW aa, SessionInv(aa), QueueOK(aa.pending_events), NEW bb, SessionInv(bb),
         NEW cc, SessionInv(cc), Told(aa, bb), Told(bb, cc)
  PROVE  Told(aa, cc)
<1>1. QueueOK(bb.pending_events) /\ QueueOK(cc.pending_events)
  BY DEF Told
<1>2. /\ \A type : /\ CountOf(aa.pending_events, type) \in Nat
                   /\ CountOf(bb.pending_events, type) \in Nat
                   /\ CountOf(cc.pending_events, type) \in Nat
      /\ FramesIn(aa.pending_events) \in Nat /\ FramesIn(bb.pending_events) \in Nat
      /\ FramesIn(cc.pending_events) \in Nat
  BY <1>1, CountType
<1>3. /\ aa.total_streams \in Nat /\ aa.completed_streams \in Nat
      /\ aa.failed_streams \in Nat /\ aa.total_frames \in Nat
      /\ bb.total_streams \in Nat /\ bb.completed_streams \in Nat
      /\ bb.failed_streams \in Nat /\ bb.total_frames \in Nat
      /\ cc.total_streams \in Nat /\ cc.completed_streams \in Nat
      /\ cc.failed_streams \in Nat /\ cc.total_frames \in Nat
  BY DEF SessionInv, SessionOK
<1>5. CountOf(cc.pending_events, "StreamCreated") - CountOf(aa.pending_events, "StreamCreated")
        = cc.total_streams - aa.total_streams
  <2>1. CountOf(bb.pending_events, "StreamCreated") - CountOf(aa.pending_events, "StreamCreated")
          = bb.total_streams - aa.total_streams
    BY DEF Told
  <2>2. CountOf(cc.pending_events, "StreamCreated") - CountOf(bb.pending_events, "StreamCreated")
          = cc.total_streams - bb.total_streams
    BY DEF Told
  <2>3. CountOf(aa.pending_events, "StreamCreated") \in Nat /\ CountOf(bb.pending_events, "StreamCreated") \in Nat
        /\ CountOf(cc.pending_events, "StreamCreated") \in Nat
    BY <1>2
  <2> QED
    BY <1>3, <2>1, <2>2, <2>3
<1>6. CountOf(cc.pending_events, "StreamCompleted") - CountOf(aa.pending_events, "StreamCompleted")
        = cc.completed_streams - aa.completed_streams
  <2>1. CountOf(bb.pending_events, "StreamCompleted") - CountOf(aa.pending_events, "StreamCompleted")
          = bb.completed_streams - aa.completed_streams
    BY DEF Told
  <2>2. CountOf(cc.pending_events, "StreamCompleted") - CountOf(bb.pending_events, "StreamCompleted")
          = cc.completed_streams - bb.completed_streams
    BY DEF Told
  <2>3. CountOf(aa.pending_events, "StreamCompleted") \in Nat /\ CountOf(bb.pending_events, "StreamCompleted") \in Nat
        /\ CountOf(cc.pending_events, "StreamCompleted") \in Nat
    BY <1>2
  <2> QED
    BY <1>3, <2>1, <2>2, <2>3
<1>7. CountOf(cc.pending_events, "StreamFailed") - CountOf(aa.pending_events, "StreamFailed")
        = cc.failed_streams - aa.failed_streams
  <2>1. CountOf(bb.pending_events, "StreamFailed") - CountOf(aa.pending_events, "StreamFailed")
          = bb.failed_streams - aa.failed_streams
    BY DEF Told
  <2>2. CountOf(cc.pending_events, "StreamFailed") - CountOf(bb.pending_events, "StreamFailed")
          = cc.failed_streams - bb.failed_streams
    BY DEF Told
  <2>3. CountOf(aa.pending_events, "StreamFailed") \in Nat /\ CountOf(bb.pending_events, "StreamFailed") \in Nat
        /\ CountOf(cc.pending_events, "StreamFailed") \in Nat
    BY <1>2
  <2> QED
    BY <1>3, <2>1, <2>2, <2>3
<1>8. FramesIn(cc.pending_events) - FramesIn(aa.pending_events)
        = cc.total_frames - aa.total_frames
  <2>1. FramesIn(bb.pending_events) - FramesIn(aa.pending_events)
          = bb.total_frames - aa.total_frames
    BY DEF Told
  <2>2. FramesIn(cc.pending_events) - FramesIn(bb.pending_events)
          = cc.total_frames - bb.total_frames
    BY DEF Told
  <2>3. FramesIn(aa.pending_events) \in Nat /\ FramesIn(bb.pending_events) \in Nat
        /\ FramesIn(cc.pending_events) \in Nat
    BY <1>2
  <2> QED
    BY <1>3, <2>1, <2>2, <2>3
<1> QED
  BY <1>1, <1>5, <1>6, <1>7, <1>8 DEF Told

(* The creation with a configuration queues both events. *)
LEMMA CreateStreamWithConfigAccounted ==
  ASSUME NEW ss, SessionInv(ss), LedgerOK(ss), QueueOK(ss.pending_events),
         NEW now, NEW id \in StreamId, NEW source \in Source, NEW rules, RulesOK(rules),
         ~HasStream(ss, id), CanCreateStream(ss, now)
  PROVE  Accounted(ss, create_stream_with_config(ss, id, source, rules))
<1> DEFINE t == create_stream(ss, id, source, <<>>)
           u == update_stream_config(t, id, rules)
<1>1. RulesOK(<<>>)
  BY DEF RulesOK
<1>2. SessionInv(t)
  BY <1>1, CreateStreamInv
<1>3. Accounted(ss, t)
  BY CreateStreamAccounted
<1>4. create_stream_with_config(ss, id, source, rules) = u
  BY DEF create_stream_with_config
<1>5. SessionInv(u)
  BY <1>4, CreateStreamWithConfigInv
<1>6. HasStream(t, id)
  <2>1. t.streams = WithStream(ss.streams, id, NewStream(id, source, <<>>))
    BY DEF create_stream, add_event, SessionInv, SessionOK, SessionField
  <2> QED
    BY <2>1 DEF WithStream, HasStream
<1> HIDE DEF t
<1>7. LedgerOK(t) /\ QueueOK(t.pending_events)
  BY <1>3 DEF Accounted, Told
<1>8. Accounted(t, u)
  BY <1>2, <1>6, <1>7, StreamAccounted
<1> HIDE DEF u
<1>9. Told(ss, u)
  BY <1>2, <1>3, <1>5, <1>8, ToldTwice DEF Accounted
<1> QED
  BY <1>4, <1>8, <1>9 DEF Accounted

(* The FramesBatched event, which a commit without frames does not queue. *)
LEMMA BatchAccounted ==
  ASSUME NEW ss, SessionInv(ss), QueueOK(ss.pending_events), NEW t, NEW n \in Nat,
         DOMAIN t = SessionField, LedgerOK(t), t.pending_events = ss.pending_events,
         t.total_streams = ss.total_streams, t.completed_streams = ss.completed_streams,
         t.failed_streams = ss.failed_streams, t.total_frames = ss.total_frames + n
  PROVE  Accounted(ss, WithBatchEvent(t, n))
<1>1. /\ ss.total_streams \in Nat /\ ss.completed_streams \in Nat
      /\ ss.failed_streams \in Nat /\ ss.total_frames \in Nat
  BY DEF SessionInv, SessionOK
<1>2. CASE n = 0
  <2>1. WithBatchEvent(t, n) = t
    BY <1>2 DEF WithBatchEvent
  <2>2. t.total_frames = ss.total_frames
    BY <1>1, <1>2
  <2>3. (\A type : CountOf(ss.pending_events, type) \in Nat) /\ FramesIn(ss.pending_events) \in Nat
    BY CountType
  <2>4. Told(ss, t)
    BY <1>1, <2>2, <2>3 DEF Told
  <2> QED
    BY <2>1, <2>4 DEF Accounted
<1>3. CASE n # 0
  <2> DEFINE e == FramesBatched(n)
             u == add_event(t, e)
  <2>1. WithBatchEvent(t, n) = u
    BY <1>3 DEF WithBatchEvent
  <2>2. e.type = "FramesBatched" /\ e.frame_count = n
    BY DEF FramesBatched
  <2> HIDE DEF e
  <2>3. /\ u.streams = t.streams /\ u.state = t.state /\ u.total_frames = t.total_frames
        /\ u.total_bytes = t.total_bytes /\ u.total_streams = t.total_streams
        /\ u.completed_streams = t.completed_streams /\ u.failed_streams = t.failed_streams
        /\ u.pending_events = Append(ss.pending_events, e)
    BY QueuedFields
  <2> HIDE DEF u
  <2>4. LedgerOK(u)
    BY <2>3 DEF LedgerOK, FramesAddUp
  <2>5. /\ e.type = "FramesBatched" => e.frame_count \in Nat
        /\ u.total_streams = ss.total_streams + (IF e.type = "StreamCreated" THEN 1 ELSE 0)
        /\ u.completed_streams = ss.completed_streams + (IF e.type = "StreamCompleted" THEN 1 ELSE 0)
        /\ u.failed_streams = ss.failed_streams + (IF e.type = "StreamFailed" THEN 1 ELSE 0)
        /\ u.total_frames = ss.total_frames + (IF e.type = "FramesBatched" THEN e.frame_count ELSE 0)
    BY <1>1, <2>2, <2>3
  <2>6. Told(ss, u)
    BY <2>3, <2>5, ToldOne
  <2> QED
    BY <2>1, <2>4, <2>6 DEF Accounted
<1> QED
  BY <1>2, <1>3

(* A chunk of a sequence of patches has a length. *)
LEMMA ChunkLengths ==
  ASSUME NEW R, NEW patches \in Seq(R), NEW max_frames \in Nat
  PROVE  LET chunks == chunk_patches_for_commit(patches, max_frames)
         IN  \A k \in DOMAIN chunks : Len(chunks[k].patches) \in Nat
<1> DEFINE chunks == chunk_patches_for_commit(patches, max_frames)
           len == Len(patches)
           size == ChunkSize(len, max_frames)
<1> SUFFICES ASSUME NEW k \in DOMAIN chunks PROVE Len(chunks[k].patches) \in Nat
  OBVIOUS
<1>1. patches # <<>> /\ max_frames # 0
  BY DEF chunk_patches_for_commit
<1>2. len \in Nat \ {0}
  BY <1>1, EmptySeq, LenProperties
<1>3. size \in Nat \ {0}
  BY <1>1, <1>2, DivCeilPositive DEF ChunkSize
<1>4. k \in 1..DivCeil(len, size) /\ chunks[k] = Chunk(patches, size, k)
  BY <1>1 DEF chunk_patches_for_commit
<1> HIDE DEF size
<1> DEFINE first == (k - 1) * size + 1
           last == IF k * size < Len(patches) THEN k * size ELSE Len(patches)
           part == SubSeq(patches, first, last)
<1>5. first \in 1..len
  BY <1>2, <1>3, <1>4, ChunkStarts
<1>6. k \in Nat \ {0}
  BY <1>2, <1>3, <1>4, DivCeilPositive
<1>7. last \in Int /\ first \in Int /\ first <= last /\ last <= len
  <2>1. k * size \in Int /\ first <= k * size
    <3>1. (k - 1) * size = k * size - size
      BY <1>3, <1>6
    <3>2. k * size \in Int
      BY <1>3, <1>6
    <3> QED
      BY <1>3, <3>1, <3>2
  <2> QED
    BY <1>2, <1>5, <2>1
<1>8. Chunk(patches, size, k).patches = part
  BY DEF Chunk
<1> HIDE DEF first, last
<1>9. Len(part) = last - first + 1
  <2>1. part = [i \in 1..(last - first + 1) |-> patches[i + first - 1]]
    BY <1>2, <1>5, <1>7
  <2>2. last - first + 1 \in Nat /\ part = [i \in 1..(last - first + 1) |-> part[i]]
    BY <1>7, <2>1
  <2> HIDE DEF part
  <2> QED
    BY <2>2, IntervalLen
<1> HIDE DEF part, chunks
<1> QED
  BY <1>4, <1>7, <1>8, <1>9

(* What recording patch frames, told apart by f, adds to a stream. *)
LEMMA RecordedTotals ==
  ASSUME NEW id, NEW st, StreamOK(id, st), st.total_bytes \in Nat, NEW S, IsFiniteSet(S),
         NEW f, DOMAIN f = S, \A x, y \in S : f[x] = f[y] => x = y,
         \A x \in S : f[x].type = "Patch" /\ Len(f[x].patches) \in Nat
  PROVE  LET rec == record_frames_created(st, {f[x] : x \in S})
             sizes == [x \in S |-> Len(f[x].patches)]
         IN  /\ rec.patch_frames = st.patch_frames + Cardinality(S)
             /\ rec.total_bytes = st.total_bytes + SumFunctionOnSet(sizes, S)
<1> DEFINE frames == {f[x] : x \in S}
           rec == record_frames_created(st, frames)
           sizes == [x \in S |-> Len(f[x].patches)]
           patch == {g \in frames : g.type = "Patch"}
           e == [g \in frames |-> estimated_size(g)]
<1>1. rec.patch_frames = st.patch_frames + Cardinality(patch)
  BY DEF record_frames_created, StreamOK, StreamField
<1>2. rec.total_bytes = st.total_bytes + SumBytes(frames)
  BY DEF record_frames_created, StreamOK, StreamField
<1>3. patch = frames
  OBVIOUS
<1>4. Cardinality(frames) = Cardinality(S)
  BY ImageCardinality
<1>5. SumBytes(frames) = SumFunctionOnSet(e, frames)
  BY DEF SumBytes, SumFunction
<1>6. \A x \in S : sizes[x] \in Nat /\ e[f[x]] = sizes[x]
  BY DEF estimated_size
<1> HIDE DEF e, sizes
<1>7. SumFunctionOnSet(e, {f[x] : x \in S}) = SumFunctionOnSet(sizes, S)
  BY <1>6, SumImage
<1> QED
  BY <1>1, <1>2, <1>3, <1>4, <1>5, <1>7 DEF sizes

(* The totals of a session after one stream grew by n frames and b bytes. *)
LEMMA OneStreamGrows ==
  ASSUME NEW ss, SessionInv(ss), LedgerOK(ss), NEW id, HasStream(ss, id), NEW st, NEW tt,
         NEW n \in Nat, NEW b \in Nat,
         st.patch_frames = ss.streams[id].patch_frames + n,
         st.total_bytes = ss.streams[id].total_bytes + b,
         tt.streams = [ss.streams EXCEPT ![id] = st], tt.state = ss.state,
         tt.total_frames = ss.total_frames + n, tt.total_bytes = ss.total_bytes + b
  PROVE  LedgerOK(tt)
<1> DEFINE D == DOMAIN ss.streams
           f == [i \in D |-> ss.streams[i].patch_frames]
           g == [i \in D |-> tt.streams[i].patch_frames]
           p == [i \in D |-> ss.streams[i].total_bytes]
           q == [i \in D |-> tt.streams[i].total_bytes]
<1>1. /\ id \in D /\ DOMAIN tt.streams = D /\ tt.streams[id] = st
      /\ \A i \in D \ {id} : tt.streams[i] = ss.streams[i]
  BY DEF HasStream
<1>2. /\ IsFiniteSet(D) /\ ss.total_frames \in Nat /\ ss.total_bytes \in Nat
      /\ \A i \in D : ss.streams[i].patch_frames \in Nat /\ ss.streams[i].total_bytes \in Nat
  BY FiniteParts DEF SessionInv, SessionOK, StreamOK, LedgerOK
<1>3. /\ \A i \in D : f[i] \in Nat /\ p[i] \in Nat
      /\ \A i \in D \ {id} : g[i] = f[i] /\ q[i] = p[i]
      /\ g[id] = f[id] + n /\ q[id] = p[id] + b
  BY <1>1, <1>2
<1>4. DOMAIN f = D /\ DOMAIN g = D /\ DOMAIN p = D /\ DOMAIN q = D
  OBVIOUS
<1>5. tt.total_bytes \in Nat /\ \A i \in D : tt.streams[i].total_bytes \in Nat
  BY <1>1, <1>2
<1>6. ss.state # "Failed" => ss.total_frames = SumFunctionOnSet(f, D) /\ ss.total_bytes = SumFunctionOnSet(p, D)
  BY DEF LedgerOK, FramesAddUp, SumFunction
<1> HIDE DEF f, g, p, q
<1>7. g[id] \in Nat /\ q[id] \in Nat
  BY <1>1, <1>3
<1>8. /\ SumFunctionOnSet(g, D) = SumFunctionOnSet(f, D) - f[id] + g[id]
      /\ SumFunctionOnSet(q, D) = SumFunctionOnSet(p, D) - p[id] + q[id]
  BY <1>1, <1>2, <1>3, <1>7, SumChange
<1>9. SumFunctionOnSet(f, D) \in Nat /\ SumFunctionOnSet(p, D) \in Nat
  BY <1>2, <1>3, SumStep
<1>10. /\ SumFunctionOnSet(g, D) = SumFunctionOnSet(f, D) + n
       /\ SumFunctionOnSet(q, D) = SumFunctionOnSet(p, D) + b
  BY <1>1, <1>3, <1>8, <1>9
<1>11. FramesAddUp(tt)
  <2>1. SumFunction(g) = SumFunctionOnSet(g, D) /\ SumFunction(q) = SumFunctionOnSet(q, D)
    BY <1>4 DEF SumFunction
  <2> QED
    BY <1>1, <1>6, <1>10, <2>1 DEF FramesAddUp, g, q
<1> QED
  BY <1>1, <1>5, <1>11 DEF LedgerOK

(* commit_patch_frames_for_stream: the session grows by the stream's growth. *)
LEMMA CommitForStreamAccounted ==
  ASSUME NEW ss, SessionInv(ss), LedgerOK(ss), QueueOK(ss.pending_events),
         NEW id, NEW R, NEW patches \in Seq(R), NEW max_frames \in Nat,
         CanCommitForStream(ss, id)
  PROVE  Accounted(ss, commit_for_stream(ss, id, patches, max_frames))
<1> DEFINE old == ss.streams[id]
           chunks == chunk_patches_for_commit(patches, max_frames)
           frames == PatchFrames(old, patches, max_frames)
           created == {frames[k] : k \in DOMAIN frames}
           st == record_frames_created(old, created)
           n == Len(frames)
           t == [ss EXCEPT !.streams[id]  = st,
                           !.total_frames = @ + n,
                           !.total_bytes  = @ + st.total_bytes - old.total_bytes]
<1>1. PICK k \in Nat : DOMAIN chunks = 1..k
  BY ChunksAreSeq
<1>2. /\ HasStream(ss, id) /\ StreamOK(id, old) /\ old.next_sequence \in Nat
      /\ old.total_bytes \in Nat /\ DOMAIN ss = SessionField
  BY DEF SessionInv, SessionOK, StreamOK, CanCommitForStream, HasStream, LedgerOK
<1>3. \A i \in 1..k : Len(chunks[i].patches) \in Nat
  BY <1>1, ChunkLengths
<1>4. /\ DOMAIN frames = 1..k /\ frames = [i \in 1..k |-> frames[i]]
      /\ \A i \in 1..k : /\ frames[i].type = "Patch" /\ frames[i].patches = chunks[i].patches
                         /\ frames[i].sequence = old.next_sequence + (i - 1)
  BY <1>1 DEF PatchFrames, PatchFrame
<1> HIDE DEF frames, chunks
<1>5. n = k
  BY <1>4, IntervalLen
<1> DEFINE S == 1..k
           sizes == [i \in S |-> Len(frames[i].patches)]
           b == SumFunctionOnSet(sizes, S)
<1>6. IsFiniteSet(S) /\ Cardinality(S) = k
  BY FS_Interval
<1>7. /\ DOMAIN frames = S /\ \A i \in S : frames[i].type = "Patch" /\ Len(frames[i].patches) \in Nat
      /\ \A i, j \in S : frames[i] = frames[j] => i = j
  <2>1. \A i, j \in S : frames[i] = frames[j] => i = j
    <3> SUFFICES ASSUME NEW i \in S, NEW j \in S, frames[i] = frames[j] PROVE i = j
      OBVIOUS
    <3>1. old.next_sequence + (i - 1) = old.next_sequence + (j - 1)
      BY <1>4
    <3> QED
      BY <1>2, <3>1
  <2> QED
    BY <1>3, <1>4, <2>1
<1> HIDE DEF S
<1>8. b \in Nat
  <2>1. \A i \in S : sizes[i] \in Nat
    BY <1>7
  <2> HIDE DEF sizes
  <2> QED
    BY <1>6, <2>1, SumStep
<1>9. st.patch_frames = old.patch_frames + k /\ st.total_bytes = old.total_bytes + b
  <2>1. /\ record_frames_created(old, {frames[i] : i \in S}).patch_frames
             = old.patch_frames + Cardinality(S)
        /\ record_frames_created(old, {frames[i] : i \in S}).total_bytes = old.total_bytes + b
    BY <1>2, <1>6, <1>7, RecordedTotals
  <2> QED
    BY <1>6, <1>7, <2>1
<1>10. commit_for_stream(ss, id, patches, max_frames) = WithBatchEvent(t, n)
  BY DEF commit_for_stream, commit_patch_frames, FramesForStream, frames
<1> HIDE DEF st, b, n
<1>11. /\ DOMAIN t = SessionField /\ t.state = ss.state
       /\ t.streams = [ss.streams EXCEPT ![id] = st]
       /\ t.total_streams = ss.total_streams /\ t.completed_streams = ss.completed_streams
       /\ t.failed_streams = ss.failed_streams /\ t.pending_events = ss.pending_events
       /\ t.total_frames = ss.total_frames + n
       /\ t.total_bytes = ss.total_bytes + st.total_bytes - old.total_bytes
  BY <1>2 DEF SessionField
<1> HIDE DEF t
<1>12. t.total_bytes = ss.total_bytes + b
  <2>1. ss.total_bytes \in Nat
    BY DEF LedgerOK
  <2> QED
    BY <1>2, <1>8, <1>9, <1>11, <2>1
<1>13. LedgerOK(t)
  BY <1>2, <1>5, <1>8, <1>9, <1>11, <1>12, OneStreamGrows
<1> QED
  BY <1>5, <1>10, <1>11, <1>13, BatchAccounted

(* The chunks behind the candidates have lengths. *)
LEMMA CandidateLengths ==
  ASSUME NEW ss, NEW extracted, NEW R, NEW order \in Seq(R),
         \A i \in DOMAIN order : \E X : extracted[order[i]] \in Seq(X)
  PROVE  LET candidates == Candidates(ss, extracted, order)
         IN  \A k \in DOMAIN candidates : Len(candidates[k].patches) \in Nat
<1> DEFINE candidates == Candidates(ss, extracted, order)
           chunks == [i \in DOMAIN order |->
                        chunk_patches_for_commit(extracted[order[i]], MaxCandidatesPerStream)]
           At(n) == ((n - 1) \div MaxCandidatesPerStream) + 1
           ChunkNo(n) == ((n - 1) % MaxCandidatesPerStream) + 1
           slots == {n \in 1..(MaxCandidatesPerStream * Len(order)) :
                       /\ CanCommitForStream(ss, order[At(n)])
                       /\ ChunkNo(n) \in DOMAIN chunks[At(n)]}
<1>1. candidates = [n \in slots |-> [stream   |-> order[At(n)],
                                     priority |-> chunks[At(n)][ChunkNo(n)].priority,
                                     patches  |-> chunks[At(n)][ChunkNo(n)].patches]]
  BY DEF Candidates
<1>2. DOMAIN order = 1..Len(order) /\ Len(order) \in Nat
  BY LenProperties
<1>3. ASSUME NEW k \in slots
      PROVE  At(k) \in DOMAIN order /\ ChunkNo(k) \in DOMAIN chunks[At(k)]
  <2>1. k \in 1..(5 * Len(order))
    BY DEF MaxCandidatesPerStream
  <2>2. k \in Int /\ 1 <= k /\ k <= 5 * Len(order)
    BY <1>2, <2>1
  <2>3. ((k - 1) \div 5) + 1 \in 1..Len(order)
    BY <1>2, <2>2
  <2> QED
    BY <1>2, <2>3 DEF MaxCandidatesPerStream
<1>4. ASSUME NEW i \in DOMAIN order
      PROVE  \A m \in DOMAIN chunks[i] : Len(chunks[i][m].patches) \in Nat
  <2>1. PICK X : extracted[order[i]] \in Seq(X)
    OBVIOUS
  <2>2. MaxCandidatesPerStream \in Nat
    BY DEF MaxCandidatesPerStream
  <2> DEFINE c == chunk_patches_for_commit(extracted[order[i]], MaxCandidatesPerStream)
  <2>3. \A m \in DOMAIN c : Len(c[m].patches) \in Nat
    BY <2>1, <2>2, ChunkLengths
  <2>4. chunks[i] = c
    OBVIOUS
  <2> HIDE DEF c, chunks
  <2> QED
    BY <2>3, <2>4
<1> HIDE DEF candidates, chunks, slots, At, ChunkNo
<1>5. /\ DOMAIN candidates = slots
      /\ \A k \in slots : candidates[k].patches = chunks[At(k)][ChunkNo(k)].patches
  BY <1>1
<1>6. \A k \in DOMAIN candidates : Len(candidates[k].patches) \in Nat
  BY <1>3, <1>4, <1>5
<1> QED
  BY <1>6 DEF candidates

(***************************************************************************)
(* commit_priority_frames: the surviving candidates are divided among the  *)
(* streams, so that what the streams grow by adds up to what the session   *)
(* grows by.                                                               *)
(***************************************************************************)
LEMMA CommitPriorityFramesAccounted ==
  ASSUME NEW ss, SessionInv(ss), LedgerOK(ss), QueueOK(ss.pending_events),
         NEW candidates, NEW batch_size,
         IsFiniteSet(DOMAIN candidates), DOMAIN candidates \subseteq Int,
         \A k \in DOMAIN candidates : /\ CanCommitForStream(ss, candidates[k].stream)
                                      /\ Len(candidates[k].patches) \in Nat
  PROVE  Accounted(ss, commit_priority_frames(ss, candidates, batch_size))
<1> DEFINE kept == Survivors(candidates, batch_size)
           D == DOMAIN ss.streams
           Own(id) == OfStream(candidates, kept, id)
           FramesOf(id) == {FinalizedFrame(ss, candidates, kept, k) : k \in Own(id)}
           recorded == [id \in D |->
                          IF Own(id) = {} THEN ss.streams[id]
                          ELSE record_frames_created(ss.streams[id], FramesOf(id))]
           size == [k \in kept |-> Len(candidates[k].patches)]
           one == [k \in kept |-> 1]
           owner == [k \in kept |-> candidates[k].stream]
           n == Cardinality(kept)
           bytes == SumFunction(size)
           t == [ss EXCEPT !.streams      = recorded,
                           !.total_frames = @ + n,
                           !.total_bytes  = @ + bytes]
<1>1. kept \subseteq DOMAIN candidates /\ kept \subseteq Int /\ IsFiniteSet(kept) /\ n \in Nat
  <2>1. kept \subseteq DOMAIN candidates
    BY DEF Survivors
  <2> QED
    BY <2>1, FS_Subset, FS_CardinalityType
<1>2. /\ IsFiniteSet(D) /\ DOMAIN ss = SessionField /\ ss.total_frames \in Nat /\ ss.total_bytes \in Nat
      /\ \A id \in D : /\ StreamOK(id, ss.streams[id]) /\ ss.streams[id].next_sequence \in Nat
                       /\ ss.streams[id].patch_frames \in Nat /\ ss.streams[id].total_bytes \in Nat
  BY FiniteParts DEF SessionInv, SessionOK, StreamOK, LedgerOK
<1>3. \A k \in kept : /\ size[k] \in Nat /\ one[k] = 1 /\ owner[k] \in D
                      /\ owner[k] = candidates[k].stream /\ size[k] = Len(candidates[k].patches)
  BY <1>1 DEF CanCommitForStream, HasStream
<1>4. DOMAIN size = kept
  OBVIOUS
<1>5. commit_priority_frames(ss, candidates, batch_size) = WithBatchEvent(t, n)
  BY DEF commit_priority_frames
<1>6. \A id : Own(id) = {k \in kept : owner[k] = id} /\ IsFiniteSet(Own(id)) /\ Own(id) \subseteq kept
  <2> TAKE id
  <2>1. Own(id) = {k \in kept : owner[k] = id}
    BY DEF OfStream
  <2> QED
    BY <1>1, <2>1, FS_Subset
<1> DEFINE Grow(id) == SumFunctionOnSet(size, Own(id))
<1> HIDE DEF size, one, owner
<1>7. ASSUME NEW id \in D
      PROVE  /\ recorded[id].patch_frames = ss.streams[id].patch_frames + Cardinality(Own(id))
             /\ recorded[id].total_bytes = ss.streams[id].total_bytes + Grow(id)
  <2> DEFINE S == Own(id)
             st == ss.streams[id]
             f == [k \in S |-> FinalizedFrame(ss, candidates, kept, k)]
             sizes == [k \in S |-> Len(f[k].patches)]
             Earlier(k) == {j \in S : j < k}
  <2>1. \A k \in S : candidates[k].stream = id /\ k \in kept /\ k \in Int
    BY <1>1, <1>3, <1>6
  <2>2. \A k \in S : /\ f[k].type = "Patch" /\ f[k].patches = candidates[k].patches
                     /\ f[k].sequence = st.next_sequence + Cardinality(Earlier(k))
    BY <2>1 DEF FinalizedFrame, PatchFrame
  <2>3. FramesOf(id) = {f[k] : k \in S} /\ DOMAIN f = S
    OBVIOUS
  <2>4. CASE S = {}
    <3>1. recorded[id] = st
      BY <2>4
    <3>2. Cardinality(Own(id)) = 0 /\ Grow(id) = 0
      BY <2>4, FS_EmptySet, SumStep
    <3> HIDE DEF recorded, Own, Grow
    <3> QED
      BY <1>2, <3>1, <3>2
  <2>5. CASE S # {}
    <3>1. recorded[id] = record_frames_created(st, {f[k] : k \in S})
      BY <2>3, <2>5
    <3> HIDE DEF f, recorded
    <3>2. \A k, m \in S : k < m => Cardinality(Earlier(k)) < Cardinality(Earlier(m))
                                   /\ Cardinality(Earlier(k)) \in Nat
                                   /\ Cardinality(Earlier(m)) \in Nat
      <4> SUFFICES ASSUME NEW k \in S, NEW m \in S, k < m
                   PROVE  /\ Cardinality(Earlier(k)) < Cardinality(Earlier(m))
                          /\ Cardinality(Earlier(k)) \in Nat /\ Cardinality(Earlier(m)) \in Nat
        OBVIOUS
      <4>1. Earlier(k) \subseteq Earlier(m) /\ k \in Earlier(m) /\ k \notin Earlier(k)
        BY <2>1
      <4>2. IsFiniteSet(Earlier(m)) /\ IsFiniteSet(Earlier(k))
        BY <1>6, FS_Subset
      <4> HIDE DEF Earlier
      <4> QED
        BY <4>1, <4>2, FS_Subset, FS_CardinalityType
    <3>3. \A k, m \in S : k < m => f[k] # f[m]
      <4> SUFFICES ASSUME NEW k \in S, NEW m \in S, k < m PROVE f[k].sequence # f[m].sequence
        OBVIOUS
      <4> HIDE DEF Earlier
      <4> QED
        BY <1>2, <2>2, <3>2
    <3>4. \A k, m \in S : f[k] = f[m] => k = m
      <4> SUFFICES ASSUME NEW k \in S, NEW m \in S, f[k] = f[m], k # m PROVE FALSE
        OBVIOUS
      <4>1. k < m \/ m < k
        BY <2>1
      <4> QED
        BY <3>3, <4>1
    <3>5. \A k \in S : f[k].type = "Patch" /\ Len(f[k].patches) \in Nat
      BY <1>1, <2>1, <2>2
    <3>6. /\ recorded[id].patch_frames = st.patch_frames + Cardinality(S)
          /\ recorded[id].total_bytes = st.total_bytes + SumFunctionOnSet(sizes, S)
      BY <1>2, <1>6, <2>3, <3>1, <3>4, <3>5, RecordedTotals
    <3>7. \A k \in S : size[k] \in Nat /\ sizes[k] = size[k]
      BY <1>3, <2>1, <2>2
    <3> HIDE DEF sizes
    <3>8. SumFunctionOnSet(sizes, S) = SumFunctionOnSet(size, S)
      BY <1>6, <3>7, SumSame
    <3> QED
      BY <3>6, <3>8
  <2> QED
    BY <2>4, <2>5
<1>8. \A id \in D : Cardinality(Own(id)) \in Nat /\ Grow(id) \in Nat
  BY <1>3, <1>6, FS_CardinalityType, SumStep
<1>9. DOMAIN recorded = D
  OBVIOUS
<1> HIDE DEF kept, Own, recorded, n
<1> DEFINE f == [id \in D |-> ss.streams[id].patch_frames]
           c == [id \in D |-> Cardinality(Own(id))]
           f2 == [id \in D |-> recorded[id].patch_frames]
           p == [id \in D |-> ss.streams[id].total_bytes]
           g == [id \in D |-> Grow(id)]
           p2 == [id \in D |-> recorded[id].total_bytes]
<1>10. \A id \in D : /\ f[id] \in Nat /\ c[id] \in Nat /\ f2[id] = f[id] + c[id]
                     /\ p[id] \in Nat /\ g[id] \in Nat /\ p2[id] = p[id] + g[id]
  BY <1>2, <1>7, <1>8
<1> DEFINE own == [id \in D |-> Own(id)]
<1>11. \A id \in D : /\ own[id] = Own(id) /\ own[id] \subseteq kept
                      /\ \A k \in kept : k \in own[id] <=> owner[k] = id
  BY <1>6
<1>12. /\ \A k \in kept : one[k] \in Nat
       /\ \A id \in D : c[id] = SumFunctionOnSet(one, own[id])
  <2>1. ASSUME NEW id \in D PROVE c[id] = SumFunctionOnSet(one, own[id])
    <3>1. \A k \in Own(id) : one[k] = 1
      BY <1>3, <1>6
    <3>2. SumFunctionOnSet(one, Own(id)) = Cardinality(Own(id))
      BY <1>6, <3>1, SumOnes
    <3> QED
      BY <1>11, <3>2
  <2>2. \A k \in kept : one[k] \in Nat
    BY <1>3
  <2> HIDE DEF c, own, D
  <2> QED
    BY <2>1, <2>2
<1>13. \A id \in D : g[id] = SumFunctionOnSet(size, own[id])
  BY <1>11
<1>14. SumFunctionOnSet(one, kept) = n /\ bytes = SumFunctionOnSet(size, kept)
  BY <1>1, <1>3, <1>4, SumOnes DEF n, SumFunction
<1>15. /\ DOMAIN t = SessionField /\ t.state = ss.state /\ t.streams = recorded
       /\ t.total_streams = ss.total_streams /\ t.completed_streams = ss.completed_streams
       /\ t.failed_streams = ss.failed_streams /\ t.pending_events = ss.pending_events
       /\ t.total_frames = ss.total_frames + n /\ t.total_bytes = ss.total_bytes + bytes
  <2> HIDE DEF bytes
  <2> QED
    BY <1>2 DEF SessionField
<1>16. ss.state # "Failed" => ss.total_frames = SumFunctionOnSet(f, D) /\ ss.total_bytes = SumFunctionOnSet(p, D)
  BY DEF LedgerOK, FramesAddUp, SumFunction
<1>17. SumFunction(f2) = SumFunctionOnSet(f2, D) /\ SumFunction(p2) = SumFunctionOnSet(p2, D)
  BY DEF SumFunction
<1> HIDE DEF t, f, c, g, p, f2, p2, own, D, bytes
<1>18. SumFunctionOnSet(c, D) = n /\ SumFunctionOnSet(g, D) = bytes
  <2>1. SumFunctionOnSet(c, D) = SumFunctionOnSet(one, kept)
    <3>1. \A k \in kept : one[k] \in Nat /\ owner[k] \in D
      BY <1>3, <1>12
    <3>2. \A d \in D : /\ own[d] \subseteq kept /\ c[d] = SumFunctionOnSet(one, own[d])
                       /\ \A k \in kept : k \in own[d] <=> owner[k] = d
      BY <1>11, <1>12
    <3>3. IsFiniteSet(kept) /\ IsFiniteSet(D)
      BY <1>1, <1>2
    <3> QED
      BY ONLY <3>1, <3>2, <3>3, SumPartition
  <2>2. SumFunctionOnSet(g, D) = SumFunctionOnSet(size, kept)
    <3>1. \A k \in kept : size[k] \in Nat /\ owner[k] \in D
      BY <1>3
    <3>2. \A d \in D : /\ own[d] \subseteq kept /\ g[d] = SumFunctionOnSet(size, own[d])
                       /\ \A k \in kept : k \in own[d] <=> owner[k] = d
      BY <1>11, <1>13
    <3>3. IsFiniteSet(kept) /\ IsFiniteSet(D)
      BY <1>1, <1>2
    <3> QED
      BY ONLY <3>1, <3>2, <3>3, SumPartition
  <2> QED
    BY <1>14, <2>1, <2>2
<1>19. bytes \in Nat
  BY <1>2, <1>10, <1>18, SumStep
<1>20. /\ SumFunctionOnSet(f2, D) = SumFunctionOnSet(f, D) + SumFunctionOnSet(c, D)
       /\ SumFunctionOnSet(p2, D) = SumFunctionOnSet(p, D) + SumFunctionOnSet(g, D)
  BY <1>2, <1>10, SumAdd
<1>21. FramesAddUp(t)
  BY <1>9, <1>15, <1>16, <1>17, <1>18, <1>20 DEF FramesAddUp, f2, p2
<1>22. LedgerOK(t)
  <2>1. t.total_bytes \in Nat
    BY <1>2, <1>15, <1>19
  <2>2. \A id \in D : recorded[id].total_bytes \in Nat
    BY <1>2, <1>7, <1>8
  <2> QED
    BY <1>9, <1>15, <1>21, <2>1, <2>2 DEF LedgerOK
<1> QED
  BY <1>1, <1>5, <1>15, <1>22, BatchAccounted

=============================================================================
