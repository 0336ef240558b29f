--------------------------- MODULE Dwindle_proof ---------------------------
(***************************************************************************)
(* The tree of any number of views: whatever comes, goes and is commanded, *)
(* it stays a tree, its leaves tile the usable box, and the windows that   *)
(* nothing happened to stay where they are.                                *)
(***************************************************************************)
EXTENDS Dwindle, TLAPS, FiniteSetTheorems

(* The two fields that rotateSplit changes, and a tree with others in place. *)
Kids == [Split -> [0 .. 1 -> MaybeNode]]
Tops == [Split -> BOOLEAN]
Refit(t, kid, top) == [t EXCEPT !.kid = kid, !.top = top]

(* A tree with other children or other orientations is a tree, and one that has
   the fields of t is t.                                                     *)
LEMMA TreeFields ==
    ASSUME NEW t \in TreeState,
           NEW kid \in Kids, NEW top \in Tops
    PROVE  /\ Refit(t, kid, top) \in TreeState
           /\ Refit(t, kid, top).kid = kid
           /\ Refit(t, kid, top).top = top
           /\ Refit(t, kid, top).up = t.up
           /\ Refit(Refit(t, kid, top), t.kid, t.top) = t
<1> DEFINE Ups == [Node -> Split \cup {Nil}]
           Ratios == [Split -> 1 .. 19]
           Boxes == [Node -> Box]
           Geos == [View -> Box \cup {Elsewhere, Column, Whole}]
<1>1. TreeState = [root : MaybeNode, up : Ups, kid : Kids, top : Tops,
                   ratio : Ratios, box : Boxes, geo : Geos]
  BY DEF TreeState, Kids, Tops
<1> HIDE DEF Ups, Ratios, Boxes, Geos
<1> QED
  BY <1>1 DEF Refit

(* The children of split p exchanged, and its orientation flipped or not. *)
Mirrored(kid, p) == [kid EXCEPT ![p] = [i \in 0 .. 1 |-> kid[p][1 - i]]]
Flipped(top, p, flip) == [top EXCEPT ![p] = flip # top[p]]

(* Mirroring a child twice gives the child. *)
LEMMA MirroredTwice ==
    ASSUME NEW kid \in Kids, NEW p \in Split
    PROVE  /\ Mirrored(kid, p) \in Kids
           /\ Mirrored(Mirrored(kid, p), p) = kid
<1> DEFINE pair == kid[p]
           back == [i \in 0 .. 1 |-> pair[1 - i]]
<1>1. pair \in [0 .. 1 -> MaybeNode]
  BY DEF Kids
<1>2. \A i \in 0 .. 1 : 1 - i \in 0 .. 1 /\ 1 - (1 - i) = i
  OBVIOUS
<1>3. back \in [0 .. 1 -> MaybeNode] /\ [i \in 0 .. 1 |-> back[1 - i]] = pair
  BY <1>1, <1>2
<1>4. Mirrored(kid, p) = [kid EXCEPT ![p] = back]
  BY DEF Mirrored
<1>5. Mirrored(kid, p)[p] = back
  BY <1>4 DEF Kids
<1>6. Mirrored(Mirrored(kid, p), p) = [[kid EXCEPT ![p] = back] EXCEPT ![p] = pair]
  BY <1>3, <1>4, <1>5 DEF Mirrored
<1> HIDE DEF back
<1>7. [kid EXCEPT ![p] = back] \in Kids
  BY <1>3 DEF Kids
<1>8. [[kid EXCEPT ![p] = back] EXCEPT ![p] = kid[p]] = kid
  BY <1>3 DEF Kids
<1> QED
  BY <1>4, <1>6, <1>7, <1>8

(* Flipping as often as a turn does, twice or never, is no flip at all. *)
LEMMA FlippedTwice ==
    ASSUME NEW top \in Tops, NEW p \in Split,
           NEW flip \in BOOLEAN
    PROVE  /\ Flipped(top, p, flip) \in Tops
           /\ Flipped(top, p, flip)[p] = (flip # top[p])
           /\ Flipped(Flipped(top, p, flip), p, flip) = top
  BY DEF Flipped, Tops

(* When a turn of a split that stacks its children, or does not, exchanges
   them, and when it flips it; and what a turn and its complement share.      *)
Swaps(quarters, stacked) ==
    \/ quarters = 1 /\ stacked
    \/ quarters = 2
    \/ quarters = 3 /\ ~stacked
Flips(quarters) == quarters \in {1, 3}
Complement(quarters) == (4 - quarters) % 4

(* Turning back undoes the turn. *)
LEMMA ComplementTurns ==
    ASSUME NEW q \in 0 .. 3, NEW stacked \in BOOLEAN
    PROVE  /\ Complement(q) \in 0 .. 3
           /\ Flips(Complement(q)) = Flips(q)
           /\ Swaps(Complement(q), Flips(q) # stacked) = Swaps(q, stacked)
<1>1. /\ q = 0 => Complement(q) = 0
      /\ q = 1 => Complement(q) = 3
      /\ q = 2 => Complement(q) = 2
      /\ q = 3 => Complement(q) = 1
  BY DEF Complement
<1> HIDE DEF Complement
<1>2. CASE q = 0
  BY <1>1, <1>2 DEF Flips, Swaps
<1>3. CASE q = 1
  BY <1>1, <1>3 DEF Flips, Swaps
<1>4. CASE q = 2
  BY <1>1, <1>4 DEF Flips, Swaps
<1>5. CASE q = 3
  BY <1>1, <1>5 DEF Flips, Swaps
<1> QED
  BY <1>2, <1>3, <1>4, <1>5

(* What rotateSplit changes, field by field. *)
Turned(t, p, swap, flip) ==
    Refit(t, IF swap THEN Mirrored(t.kid, p) ELSE t.kid,
             Flipped(t.top, p, flip))

(* rotateSplit turns the split above the view. *)
LEMMA RotateFields ==
    ASSUME NEW t \in TreeState, NEW v \in View, t.up[v] \in Split,
           NEW q \in 0 .. 3
    PROVE  RotateSplit(t, v, q) =
               Turned(t, t.up[v], Swaps(q, t.top[t.up[v]]), Flips(q))
  BY DEF RotateSplit, Turn, Exchange, Turned, Refit, Mirrored, Flipped, Swaps,
         Flips, TreeState

(* The same turn twice, on a split that is seen the second time as the first
   left it, is none.                                                         *)
LEMMA TurnedTwice ==
    ASSUME NEW t \in TreeState, NEW p \in Split,
           NEW swap \in BOOLEAN, NEW flip \in BOOLEAN
    PROVE  /\ Turned(t, p, swap, flip) \in TreeState
           /\ Turned(t, p, swap, flip).up = t.up
           /\ Turned(t, p, swap, flip).top[p] = (flip # t.top[p])
           /\ Turned(Turned(t, p, swap, flip), p, swap, flip) = t
<1> DEFINE kid == IF swap THEN Mirrored(t.kid, p) ELSE t.kid
           top == Flipped(t.top, p, flip)
           r == Refit(t, kid, top)
<1>1. t.kid \in Kids /\ t.top \in Tops
  BY DEF TreeState, Kids, Tops
<1>2. /\ kid \in Kids
      /\ (IF swap THEN Mirrored(kid, p) ELSE kid) = t.kid
  BY <1>1, MirroredTwice
<1>3. /\ top \in Tops
      /\ top[p] = (flip # t.top[p])
      /\ Flipped(top, p, flip) = t.top
  BY <1>1, FlippedTwice
<1>4. Turned(t, p, swap, flip) = r
  BY DEF Turned
<1>5. Turned(r, p, swap, flip) =
          Refit(r, IF swap THEN Mirrored(r.kid, p) ELSE r.kid,
                   Flipped(r.top, p, flip))
  BY DEF Turned
<1> HIDE DEF kid, top
<1>6. /\ r \in TreeState /\ r.kid = kid /\ r.top = top /\ r.up = t.up
      /\ Refit(r, t.kid, t.top) = t
  BY <1>2, <1>3, TreeFields
<1> HIDE DEF r
<1>7. Turned(r, p, swap, flip) = t
  BY <1>2, <1>3, <1>5, <1>6
<1> QED
  BY <1>3, <1>4, <1>6, <1>7

(* A turn of a split and its complement to a full one undo each other, whatever
   the tree, on any number of views (rotateSplit's angles 90 and 270 swap in
   opposite orientations).                                                   *)
THEOREM RotationsAlwaysCancel == TypeOK => RotationsCancel
<1> SUFFICES ASSUME TypeOK,
                    NEW v \in View, HasSplit(tree, v),
                    NEW q \in 0 .. 3
             PROVE  RotateSplit(RotateSplit(tree, v, q), v, Complement(q)) = tree
  BY DEF RotationsCancel, Complement
<1> DEFINE p == tree.up[v]
           swap == Swaps(q, tree.top[p])
           flip == Flips(q)
           r == Turned(tree, p, swap, flip)
<1>1. tree \in TreeState /\ p \in Split
  BY DEF TypeOK, TreeState, HasSplit, Node
<1>2. tree.top[p] \in BOOLEAN
  BY <1>1 DEF TreeState
<1>3. swap \in BOOLEAN /\ flip \in BOOLEAN
  BY DEF Swaps, Flips
<1>4. RotateSplit(tree, v, q) = r
  BY <1>1, RotateFields
<1>5. /\ r \in TreeState /\ r.up = tree.up
      /\ r.top[p] = (flip # tree.top[p])
      /\ Turned(r, p, swap, flip) = tree
  BY <1>1, <1>3, TurnedTwice
<1>6. /\ Complement(q) \in 0 .. 3
      /\ Flips(Complement(q)) = flip
      /\ Swaps(Complement(q), flip # tree.top[p]) = swap
  BY <1>2, ComplementTurns
<1> HIDE DEF r
<1>7. RotateSplit(r, v, Complement(q)) =
          Turned(r, r.up[v], Swaps(Complement(q), r.top[r.up[v]]),
                 Flips(Complement(q)))
  BY <1>1, <1>5, <1>6, RotateFields
<1>8. RotateSplit(r, v, Complement(q)) = Turned(r, p, swap, flip)
  BY <1>5, <1>6, <1>7
<1> QED
  BY <1>4, <1>5, <1>8

-----------------------------------------------------------------------------
(* Induction and iteration *)

(* Among sets of members of a finite set there is a least one. *)
LEMMA LeastSet ==
    ASSUME NEW S, IsFiniteSet(S), NEW F \in SUBSET SUBSET S, F # {}
    PROVE  \E x \in F : \A y \in F : y \subseteq x => y = x
<1> DEFINE R == StrictSubsetOrdering(S)
<1>1. IsWellFoundedOn(R, SUBSET S)
  BY FS_StrictSubsetOrderingWellFounded, FS_FiniteSubsetsOfFinite
<1>2. PICK x \in F : \A y \in F : <<y, x>> \notin R
  <2> HIDE DEF R
  <2> QED BY <1>1, WFMin
<1>3. \A y \in F : y \subseteq x /\ y # x => <<y, x>> \in R
  BY DEF StrictSubsetOrdering
<1> HIDE DEF R
<1>4. ASSUME NEW y \in F, y \subseteq x PROVE y = x
  <2>1. <<y, x>> \notin R
    BY <1>2
  <2> QED BY <1>3, <1>4, <2>1
<1> QED
  BY <1>4

(* What holds at 0 and is handed on from each number to the next holds of all
   the numbers up to n.                                                      *)
LEMMA UpTo ==
    ASSUME NEW n \in Nat, NEW S, 0 \in S,
           \A k \in 0 .. n : k \in S /\ k < n => k + 1 \in S
    PROVE  \A k \in 0 .. n : k \in S
<1> SUFFICES ASSUME NEW q \in 0 .. n, q \notin S PROVE FALSE
  OBVIOUS
<1> DEFINE N == 0 .. n
           F == {0 .. k : k \in {k \in N : k \notin S}}
<1>1. IsFiniteSet(N)
  BY FS_Interval
<1>2. F \in SUBSET SUBSET N /\ F # {}
  OBVIOUS
<1>3. PICK x \in F : \A y \in F : y \subseteq x => y = x
  <2> HIDE DEF F, N
  <2> QED BY <1>1, <1>2, LeastSet
<1>4. PICK k \in 0 .. n : k \notin S /\ x = 0 .. k
  BY <1>3
<1>5. k - 1 \in 0 .. n /\ k - 1 \notin S
  BY <1>4
<1>6. 0 .. k - 1 \in F
  BY <1>5
<1>7. 0 .. k - 1 \subseteq x /\ 0 .. k - 1 # x
  <2>1. k \in 0 .. k /\ k \notin 0 .. k - 1
    OBVIOUS
  <2> QED BY <1>4, <2>1
<1> QED
  BY <1>3, <1>6, <1>7

(* n steps of h from start. *)
Steps(r, n, start, h) ==
    r[0] = start /\ \A k \in 1 .. n : r[k] = h[<<r[k - 1], k>>]

(* A step can be taken any number of times. *)
LEMMA Iterates ==
    ASSUME NEW n \in Nat, NEW T, NEW h \in [T \X (1 .. n) -> T], NEW start \in T
    PROVE  \E r \in [0 .. n -> T] : Steps(r, n, start, h)
<1> USE DEF Steps
<1> DEFINE Run(r, m) == Steps(r, m, start, h)
           S == {m \in 0 .. n : \E r \in [0 .. m -> T] : Run(r, m)}
<1>1. 0 \in S
  <2> DEFINE r == [k \in 0 .. 0 |-> start]
  <2>1. r \in [0 .. 0 -> T] /\ Run(r, 0)
    OBVIOUS
  <2> HIDE DEF r
  <2> QED BY <2>1
<1>2. ASSUME NEW m \in 0 .. n, m \in S, m < n
      PROVE  m + 1 \in S
  <2>1. PICK r \in [0 .. m -> T] : Run(r, m)
    BY <1>2
  <2> DEFINE more == [k \in 0 .. m + 1 |-> IF k = m + 1 THEN h[<<r[m], m + 1>>] ELSE r[k]]
  <2>2. h[<<r[m], m + 1>>] \in T
    BY <1>2
  <2>3. more \in [0 .. m + 1 -> T]
    BY <2>2
  <2>4. more[0] = start
    BY <2>1
  <2>5. ASSUME NEW k \in 1 .. m + 1 PROVE more[k] = h[<<more[k - 1], k>>]
    <3>1. CASE k = m + 1
      <4>1. m \in 0 .. m + 1 /\ k \in 0 .. m + 1 /\ m # m + 1 /\ k - 1 = m
        BY <3>1
      <4> QED BY <3>1, <4>1
    <3>2. CASE k # m + 1
      <4>1. k \in 1 .. m /\ k \in 0 .. m /\ k - 1 \in 0 .. m /\ k - 1 # m + 1
        BY <3>2
      <4> QED BY <2>1, <4>1
    <3> QED BY <3>1, <3>2
  <2>6. Run(more, m + 1)
    BY <2>4, <2>5
  <2>7. m + 1 \in 0 .. n
    BY <1>2
  <2> HIDE DEF more
  <2> QED BY <2>3, <2>6, <2>7
<1>3. n \in S
  <2> HIDE DEF S
  <2> QED BY <1>1, <1>2, UpTo
<1> QED
  BY <1>3

-----------------------------------------------------------------------------
(* The nodes below a node *)

(* There are finitely many nodes, and one split fewer than there are views. *)
LEMMA FinitelyManyNodes ==
    /\ IsFiniteSet(Split) /\ IsFiniteSet(Node)
    /\ Cardinality(View) \in Nat \ {0}
    /\ Cardinality(Split) = Cardinality(View) - 1
<1>1. IsFiniteSet(View) /\ View # {}
  BY DwindleConstants
<1>2. Cardinality(View) \in Nat /\ Cardinality(View) # 0
  BY <1>1, FS_CardinalityType, FS_EmptySet
<1>3. IsFiniteSet(Split) /\ Cardinality(Split) = Cardinality(View) - 1
  <2> DEFINE c == Cardinality(View)
  <2>1. c - 1 \in Int /\ (1 > c - 1 => c - 1 = 0)
    BY <1>2
  <2>2. Split = 1 .. c - 1
    BY DEF Split
  <2> HIDE DEF c
  <2>3. /\ IsFiniteSet(1 .. c - 1)
        /\ Cardinality(1 .. c - 1) = IF 1 > c - 1 THEN 0 ELSE (c - 1) - 1 + 1
    BY <2>1, FS_Interval
  <2> QED BY <2>1, <2>2, <2>3 DEF c
<1>4. IsFiniteSet(Node)
  BY <1>1, <1>3, FS_Union DEF Node
<1> QED
  BY <1>2, <1>3, <1>4

(* S holds the children of its splits. *)
Closed(t, S) == \A s \in S \cap Split : \A i \in 0 .. 1 : t.kid[s][i] \in S \cup {Nil}

(* The children of the splits of S, one by one. *)
LEMMA ChildrenOf ==
    ASSUME NEW t, t.kid \in Kids, NEW S \in SUBSET Node
    PROVE  /\ Children(t, S) \subseteq Node
           /\ \A s \in S \cap Split : \A i \in 0 .. 1 :
                  t.kid[s][i] \in Children(t, S) \cup {Nil}
           /\ \A R \in SUBSET Node : S \subseteq R /\ Closed(t, R) => Children(t, S) \subseteq R
<1>1. \A x : x \in Children(t, S) <=>
                 x # Nil /\ \E s \in S \cap Split : x = t.kid[s][0] \/ x = t.kid[s][1]
  <2> DEFINE F == {{t.kid[s][0], t.kid[s][1]} : s \in S \cap Split}
  <2> TAKE x
  <2>1. Children(t, S) = (UNION F) \ {Nil}
    BY DEF Children
  <2>2. \A s \in S \cap Split : {t.kid[s][0], t.kid[s][1]} \in F
    OBVIOUS
  <2>3. \A Y \in F : \E s \in S \cap Split : Y = {t.kid[s][0], t.kid[s][1]}
    OBVIOUS
  <2> HIDE DEF F
  <2>4. x \in Children(t, S) <=> x # Nil /\ \E Y \in F : x \in Y
    BY <2>1
  <2>5. (\E Y \in F : x \in Y) <=> \E s \in S \cap Split : x = t.kid[s][0] \/ x = t.kid[s][1]
    BY <2>2, <2>3, ZenonT(30)
  <2> QED BY <2>4, <2>5
<1>2. \A s \in S \cap Split, i \in 0 .. 1 : t.kid[s][i] \in MaybeNode
  BY DEF Kids
<1>3. \A i \in 0 .. 1 : i = 0 \/ i = 1
  OBVIOUS
<1>4. \A s \in S \cap Split, i \in 0 .. 1 : t.kid[s][i] \in Children(t, S) \cup {Nil}
  BY <1>1, <1>3
<1>5. \A x \in Children(t, S) : x \in Node
  BY <1>1, <1>2 DEF MaybeNode
<1>6. ASSUME NEW R \in SUBSET Node, S \subseteq R, Closed(t, R), NEW x \in Children(t, S)
      PROVE  x \in R
  <2>1. PICK s \in S \cap Split : x = t.kid[s][0] \/ x = t.kid[s][1]
    BY <1>1
  <2>2. PICK i \in 0 .. 1 : x = t.kid[s][i]
    BY <2>1
  <2> QED BY <1>1, <1>6, <2>2 DEF Closed
<1> QED
  BY <1>4, <1>5, <1>6

(* The sets that Below grows through. *)
Grows(deep, t, n) ==
    /\ deep[0] = {n} \ {Nil}
    /\ \A k \in 1 .. Cardinality(Split) :
           deep[k] = deep[k - 1] \cup Children(t, deep[k - 1])

(* Below is what the children are added to, as often as there are splits. *)
LEMMA BelowIterates ==
    ASSUME NEW t, t.kid \in Kids, NEW n \in MaybeNode
    PROVE  \E deep \in [0 .. Cardinality(Split) -> SUBSET Node] :
               Grows(deep, t, n) /\ Below(t, n) = deep[Cardinality(Split)]
<1> DEFINE D == Cardinality(Split)
           T == SUBSET Node
           h == [x \in T \X (1 .. D) |-> x[1] \cup Children(t, x[1])]
           First == {n} \ {Nil}
           Eq(f) == f = [k \in 0 .. D |->
                            IF k = 0 THEN First
                            ELSE f[k - 1] \cup Children(t, f[k - 1])]
<1>1. D \in Nat
  BY FinitelyManyNodes
<1>2. h \in [T \X (1 .. D) -> T]
  BY ChildrenOf
<1>3. First \in T
  BY DEF MaybeNode
<1>4. PICK r \in [0 .. D -> T] : Steps(r, D, First, h)
  <2> HIDE DEF h, First, D, T
  <2> QED BY <1>1, <1>2, <1>3, Iterates
<1>5. /\ r[0] = First
      /\ \A k \in 1 .. D : r[k] = r[k - 1] \cup Children(t, r[k - 1])
  <2>1. r[0] = First /\ \A k \in 1 .. D : r[k] = h[<<r[k - 1], k>>]
    BY <1>4 DEF Steps
  <2>2. \A k \in 1 .. D : k - 1 \in 0 .. D
    BY <1>1
  <2> HIDE DEF D, First
  <2> QED BY <2>1, <2>2
<1>6. Eq(r)
  <2> HIDE DEF First, D, T
  <2> QED BY <1>5
<1> DEFINE deep == CHOOSE f : Eq(f)
<1>7. Eq(deep)
  <2> HIDE DEF Eq
  <2> QED BY <1>6
<1>8. Below(t, n) = deep[D]
  BY DEF Below
<1> HIDE DEF deep
<1>9. /\ deep[0] = First
      /\ \A k \in 1 .. D : deep[k] = deep[k - 1] \cup Children(t, deep[k - 1])
      /\ DOMAIN deep = 0 .. D
  <2>1. deep = [k \in 0 .. D |-> IF k = 0 THEN First
                                 ELSE deep[k - 1] \cup Children(t, deep[k - 1])]
    BY <1>7
  <2>2. 0 \in 0 .. D /\ \A k \in 1 .. D : k \in 0 .. D /\ k # 0
    BY <1>1
  <2> HIDE DEF First, D, Eq
  <2> QED BY <2>1, <2>2
<1>10. \A k \in 0 .. D : deep[k] \in T
  <2> DEFINE S == {k \in 0 .. D : deep[k] \in T}
  <2>1. 0 \in S
    BY <1>1, <1>3, <1>9
  <2>2. ASSUME NEW k \in 0 .. D, k \in S, k < D PROVE k + 1 \in S
    <3>1. k + 1 \in 1 .. D /\ (k + 1) - 1 = k
      BY <1>1, <2>2
    <3>2. deep[k + 1] = deep[k] \cup Children(t, deep[k])
      BY <1>9, <3>1
    <3> QED BY <2>2, <3>1, <3>2, ChildrenOf
  <2> HIDE DEF S, D, T
  <2>3. \A k \in 0 .. D : k \in S
    BY <1>1, <2>1, <2>2, UpTo
  <2> QED BY <2>3 DEF S
<1>11. deep \in [0 .. D -> T]
  <2> HIDE DEF T, D
  <2> SUFFICES deep = [k \in 0 .. D |-> deep[k]]
    BY <1>10
  <2> QED BY <1>7
<1> QED
  BY <1>8, <1>9, <1>11 DEF Grows

(* The nodes below n are the least set that holds n and the children of its
   splits.                                                                   *)
LEMMA BelowLeast ==
    ASSUME NEW t, t.kid \in Kids, NEW n \in Node
    PROVE  /\ n \in Below(t, n)
           /\ Below(t, n) \subseteq Node
           /\ Closed(t, Below(t, n))
           /\ \A S \in SUBSET Node : n \in S /\ Closed(t, S) => Below(t, n) \subseteq S
<1> DEFINE D == Cardinality(Split)
<1>1. n # Nil /\ n \in MaybeNode /\ D \in Nat
  BY DwindleConstants, FinitelyManyNodes DEF MaybeNode
<1>a. PICK deep \in [0 .. D -> SUBSET Node] : Grows(deep, t, n) /\ Below(t, n) = deep[D]
  BY <1>1, BelowIterates
<1>2. /\ deep[0] = {n} \ {Nil}
      /\ \A k \in 1 .. D : deep[k] = deep[k - 1] \cup Children(t, deep[k - 1])
      /\ Below(t, n) = deep[D]
  BY <1>a DEF Grows
<1> HIDE DEF D
<1>3. \A k \in 0 .. D : k < D => deep[k + 1] = deep[k] \cup Children(t, deep[k])
  <2> TAKE k \in 0 .. D
  <2> HAVE k < D
  <2>1. k + 1 \in 1 .. D /\ (k + 1) - 1 = k
    BY <1>1
  <2> QED BY <1>2, <2>1
<1>4. \A k \in 0 .. D : n \in deep[k]
  <2> DEFINE S == {k \in 0 .. D : n \in deep[k]}
  <2>1. 0 \in S /\ \A k \in 0 .. D : k \in S /\ k < D => k + 1 \in S
    BY <1>1, <1>2, <1>3
  <2> HIDE DEF S
  <2>2. \A k \in 0 .. D : k \in S
    BY <1>1, <2>1, UpTo
  <2> QED BY <2>2 DEF S
<1>5. ASSUME NEW S \in SUBSET Node, n \in S, Closed(t, S)
      PROVE  \A k \in 0 .. D : deep[k] \subseteq S
  <2> DEFINE Q == {k \in 0 .. D : deep[k] \subseteq S}
  <2>1. 0 \in Q
    BY <1>1, <1>2, <1>5
  <2>2. ASSUME NEW k \in 0 .. D, k \in Q, k < D PROVE k + 1 \in Q
    <3>1. deep[k] \in SUBSET Node /\ deep[k] \subseteq S
      BY <2>2
    <3>2. Children(t, deep[k]) \subseteq S
      BY <1>5, <3>1, ChildrenOf
    <3> QED BY <1>1, <1>3, <2>2, <3>1, <3>2
  <2> HIDE DEF Q
  <2>3. \A k \in 0 .. D : k \in Q
    BY <1>1, <2>1, <2>2, UpTo
  <2> QED BY <2>3 DEF Q
<1> DEFINE Count(k) == Cardinality(deep[k] \cap Split)
           Many(k) == Count(k) >= k + 1
           Q == {k \in 0 .. D : Closed(t, deep[k]) \/ Many(k)}
<1>6. \A k \in 0 .. D : /\ IsFiniteSet(deep[k] \cap Split)
                        /\ Count(k) \in Nat
                        /\ Count(k) <= D
  <2> TAKE k \in 0 .. D
  <2> DEFINE S == deep[k] \cap Split
  <2>1. S \in SUBSET Split
    OBVIOUS
  <2> HIDE DEF S
  <2>2. IsFiniteSet(S) /\ Cardinality(S) \in Nat /\ Cardinality(S) <= D
    BY <2>1, FinitelyManyNodes, FS_Subset, FS_CardinalityType DEF D
  <2> QED BY <2>2 DEF S
<1>7. 0 \in Q
  <2>1. CASE n \in Split
    <3>1. deep[0] \cap Split = {n}
      BY <1>1, <1>2, <2>1
    <3>2. Count(0) = 1
      BY <3>1, FS_Singleton
    <3> HIDE DEF Count
    <3> QED BY <1>1, <3>2
  <2>2. CASE n \notin Split
    <3>1. deep[0] \cap Split = {}
      BY <1>2, <2>2
    <3>2. Closed(t, deep[0])
      BY <3>1 DEF Closed
    <3> HIDE DEF Count
    <3> QED BY <1>1, <3>2
  <2> QED BY <2>1, <2>2
<1>8. ASSUME NEW k \in 0 .. D, k \in Q, k < D PROVE k + 1 \in Q
  <2>1. deep[k] \in SUBSET Node /\ deep[k + 1] \in SUBSET Node /\ k + 1 \in 0 .. D
    BY <1>1, <1>2, <1>8
  <2>2. deep[k + 1] = deep[k] \cup Children(t, deep[k])
    BY <1>3, <1>8
  <2>3. CASE Closed(t, deep[k])
    <3>1. Children(t, deep[k]) \subseteq deep[k]
      BY <2>1, <2>3, ChildrenOf
    <3>2. deep[k + 1] = deep[k]
      BY <2>2, <3>1
    <3> QED BY <2>1, <2>3, <3>2
  <2>4. CASE Many(k) /\ deep[k + 1] \cap Split = deep[k] \cap Split
    <3>1. \A s \in deep[k] \cap Split : \A i \in 0 .. 1 :
              t.kid[s][i] \in deep[k + 1] \cup {Nil}
      BY <2>1, <2>2, ChildrenOf
    <3>2. Closed(t, deep[k + 1])
      BY <2>4, <3>1 DEF Closed
    <3> QED BY <2>1, <3>2
  <2>5. CASE Many(k) /\ deep[k + 1] \cap Split # deep[k] \cap Split
    <3> DEFINE A == deep[k] \cap Split
               B == deep[k + 1] \cap Split
    <3>1. A \in SUBSET B /\ A # B
      BY <2>2, <2>5
    <3>2. IsFiniteSet(B) /\ Cardinality(A) \in Nat /\ Cardinality(B) \in Nat
      BY <1>6, <2>1
    <3>3. Cardinality(A) >= k + 1
      BY <2>5
    <3> HIDE DEF A, B
    <3>4. Cardinality(A) <= Cardinality(B) /\ Cardinality(A) # Cardinality(B)
      BY <3>1, <3>2, FS_Subset
    <3>5. Cardinality(B) >= (k + 1) + 1
      BY <3>2, <3>3, <3>4
    <3> QED BY <2>1, <3>5 DEF B
  <2> QED BY <1>8, <2>3, <2>4, <2>5
<1>9. D \in Q
  <2> HIDE DEF Q
  <2>1. \A k \in 0 .. D : k \in Q
    BY <1>1, <1>7, <1>8, UpTo
  <2> QED BY <1>1, <2>1
<1>10. Closed(t, deep[D])
  <2>1. D \in 0 .. D
    BY <1>1
  <2>2. Count(D) \in Nat /\ Count(D) <= D
    BY <1>6, <2>1
  <2> HIDE DEF Count
  <2>3. ~Many(D)
    BY <1>1, <2>2
  <2> QED BY <1>9, <2>3
<1> QED
  BY <1>1, <1>2, <1>4, <1>5, <1>10

(* Nothing is below no node. *)
LEMMA BelowNil ==
    ASSUME NEW t, t.kid \in Kids
    PROVE  Below(t, Nil) = {}
<1> DEFINE D == Cardinality(Split)
<1>1. Nil \in MaybeNode /\ D \in Nat
  BY FinitelyManyNodes DEF MaybeNode
<1>2. PICK deep \in [0 .. D -> SUBSET Node] : Grows(deep, t, Nil) /\ Below(t, Nil) = deep[D]
  BY <1>1, BelowIterates
<1>3. /\ deep[0] = {}
      /\ \A k \in 1 .. D : deep[k] = deep[k - 1] \cup Children(t, deep[k - 1])
  BY <1>2 DEF Grows
<1>4. Children(t, {}) = {}
  <2>1. {} \in SUBSET Node /\ Closed(t, {})
    BY DEF Closed
  <2> QED BY <2>1, ChildrenOf
<1> DEFINE S == {k \in 0 .. D : deep[k] = {}}
<1> HIDE DEF D
<1>5. 0 \in S
  BY <1>1, <1>3
<1>6. ASSUME NEW k \in 0 .. D, k \in S, k < D PROVE k + 1 \in S
  <2>1. k + 1 \in 1 .. D /\ k + 1 \in 0 .. D /\ (k + 1) - 1 = k
    BY <1>1, <1>6
  <2> QED BY <1>3, <1>4, <1>6, <2>1
<1>7. D \in S
  <2> HIDE DEF S
  <2>1. \A k \in 0 .. D : k \in S
    BY <1>1, <1>5, <1>6, UpTo
  <2> QED BY <1>1, <2>1
<1> QED
  BY <1>2, <1>7

-----------------------------------------------------------------------------
(* Trees whose links agree *)

(* The fields that link nodes have their types. *)
Shaped(t) ==
    t.root \in MaybeNode /\ t.kid \in Kids /\ t.up \in [Node -> Split \cup {Nil}]

(* What each operation keeps of the links: each of its parts speaks of one link,
   where WellLinked speaks of whole subtrees.                                *)
Linked(t) ==
    /\ Shaped(t)
    /\ t.root # Nil => t.up[t.root] = Nil
    /\ \A s \in Split \cap Used(t) :
           /\ t.kid[s][0] # t.kid[s][1]
           /\ \A i \in 0 .. 1 : t.kid[s][i] # Nil /\ t.up[t.kid[s][i]] = s
    /\ \A s \in Split \ Used(t) : t.kid[s][0] = Nil /\ t.kid[s][1] = Nil
    /\ \A n \in Node \ Used(t) : t.up[n] = Nil

(* The used nodes are the least closed set that holds the root. *)
LEMMA UsedLeast ==
    ASSUME NEW t, Shaped(t)
    PROVE  /\ Used(t) \subseteq Node
           /\ t.root = Nil => Used(t) = {}
           /\ t.root # Nil => t.root \in Node /\ t.root \in Used(t)
           /\ Closed(t, Used(t))
           /\ \A S \in SUBSET Node :
                  (t.root = Nil \/ t.root \in S) /\ Closed(t, S) => Used(t) \subseteq S
<1>1. CASE t.root = Nil
  <2>1. Used(t) = {}
    BY <1>1, BelowNil DEF Used, Shaped
  <2> QED BY <1>1, <2>1 DEF Closed
<1>2. CASE t.root # Nil
  <2>1. t.root \in Node
    BY <1>2 DEF Shaped, MaybeNode
  <2> QED BY <1>2, <2>1, BelowLeast DEF Used, Shaped
<1> QED
  BY <1>1, <1>2

(* Below a used node are used nodes, and the child of a used split is one. *)
LEMMA UsedDown ==
    ASSUME NEW t, Linked(t)
    PROVE  /\ \A n \in Used(t) : /\ n \in Below(t, n)
                                 /\ Below(t, n) \subseteq Used(t)
                                 /\ Closed(t, Below(t, n))
                                 /\ \A m \in Below(t, n) : Below(t, m) \subseteq Below(t, n)
           /\ \A s \in Used(t) \cap Split : \A i \in 0 .. 1 :
                  /\ t.kid[s][i] \in Used(t)
                  /\ t.kid[s][i] \in Below(t, s)
                  /\ t.up[t.kid[s][i]] = s
<1>1. Shaped(t) /\ t.kid \in Kids
  BY DEF Linked, Shaped
<1>2. Used(t) \subseteq Node /\ Closed(t, Used(t))
  BY <1>1, UsedLeast
<1>3. \A n \in Used(t) : /\ n \in Below(t, n)
                         /\ Below(t, n) \subseteq Node
                         /\ Closed(t, Below(t, n))
  BY <1>1, <1>2, BelowLeast
<1>4. \A n \in Used(t) : Below(t, n) \subseteq Used(t)
  BY <1>1, <1>2, BelowLeast
<1>5. ASSUME NEW n \in Used(t), NEW m \in Below(t, n) PROVE Below(t, m) \subseteq Below(t, n)
  <2>1. m \in Node
    BY <1>2, <1>4
  <2> QED BY <1>1, <1>3, <2>1, BelowLeast
<1>6. ASSUME NEW s \in Used(t) \cap Split, NEW i \in 0 .. 1
      PROVE  /\ t.kid[s][i] \in Used(t)
             /\ t.kid[s][i] \in Below(t, s)
             /\ t.up[t.kid[s][i]] = s
  <2>1. t.kid[s][i] # Nil /\ t.up[t.kid[s][i]] = s
    BY DEF Linked
  <2>2. t.kid[s][i] \in Used(t) \cup {Nil}
    BY <1>2 DEF Closed
  <2>3. t.kid[s][i] \in Below(t, s) \cup {Nil}
    BY <1>3 DEF Closed
  <2> QED BY <2>1, <2>2, <2>3
<1> QED
  BY <1>3, <1>4, <1>5, <1>6

(* Above a node that is below n, and not n itself, is a split below n of which
   it is a child.                                                            *)
LEMMA UsedUp ==
    ASSUME NEW t, Linked(t), NEW n \in Used(t), NEW m \in Below(t, n), m # n
    PROVE  /\ t.up[m] \in Split
           /\ t.up[m] \in Used(t)
           /\ t.up[m] \in Below(t, n)
           /\ \E i \in 0 .. 1 : t.kid[t.up[m]][i] = m
<1> DEFINE B == Below(t, n)
           S == {k \in B : k = n \/ \E s \in B \cap Split : \E i \in 0 .. 1 : t.kid[s][i] = k}
<1>1. n \in B /\ B \subseteq Used(t) /\ Closed(t, B)
  BY UsedDown
<1>2. t.kid \in Kids /\ n \in Node /\ Used(t) \subseteq Node
  BY UsedLeast DEF Linked, Shaped
<1>3. Closed(t, S)
  <2> SUFFICES ASSUME NEW s \in S \cap Split, NEW i \in 0 .. 1
               PROVE  t.kid[s][i] \in S \cup {Nil}
    BY DEF Closed
  <2>1. s \in B \cap Split
    OBVIOUS
  <2>2. t.kid[s][i] \in B \cup {Nil}
    BY <1>1, <2>1 DEF Closed
  <2> HIDE DEF B
  <2> QED BY <2>1, <2>2
<1>4. m \in S
  <2>1. n \in S /\ S \in SUBSET Node
    BY <1>1, <1>2
  <2> HIDE DEF S
  <2> QED BY <1>2, <1>3, <2>1, BelowLeast
<1>5. PICK s \in B \cap Split : \E i \in 0 .. 1 : t.kid[s][i] = m
  BY <1>4
<1>6. t.up[m] = s
  BY <1>1, <1>5, UsedDown
<1> QED
  BY <1>1, <1>5, <1>6

(* The root has no parent, the other used nodes have; below the root is all. *)
LEMMA RootParent ==
    ASSUME NEW t, Linked(t), NEW n \in Used(t)
    PROVE  /\ t.root \in Used(t)
           /\ n \in Below(t, t.root)
           /\ n = t.root <=> t.up[n] = Nil
           /\ n # t.root => /\ t.up[n] \in Split /\ t.up[n] \in Used(t)
                            /\ \E i \in 0 .. 1 : t.kid[t.up[n]][i] = n
<1>1. t.root # Nil /\ t.root \in Used(t)
  BY UsedLeast DEF Linked
<1>2. n \in Below(t, t.root)
  BY DEF Used
<1>3. t.up[t.root] = Nil
  BY <1>1 DEF Linked
<1>4. Nil \notin Split
  BY DwindleConstants DEF Node
<1> QED
  BY <1>1, <1>2, <1>3, <1>4, UsedUp

(* No split is below its own child. *)
LEMMA NotBelowChild ==
    ASSUME NEW t, Linked(t), NEW s \in Used(t) \cap Split, NEW i \in 0 .. 1
    PROVE  s \notin Below(t, t.kid[s][i])
<1> DEFINE c == t.kid[s][i]
           S == Used(t) \ Below(t, c)
<1> SUFFICES ASSUME s \in Below(t, c) PROVE FALSE
  OBVIOUS
<1>1. c \in Used(t) /\ t.up[c] = s /\ c \in Below(t, c)
  BY UsedDown
<1>2. s # Nil /\ Used(t) \in SUBSET Node
  BY DwindleConstants, UsedLeast DEF Node, Linked
<1>3. t.root \in S
  <2>1. t.root \in Used(t) /\ t.up[t.root] = Nil
    BY <1>1, RootParent
  <2>2. CASE t.root \in Below(t, c)
    <3>1. t.root # c
      BY <1>1, <1>2, <2>1
    <3> QED BY <1>1, <2>1, <2>2, <3>1, UsedUp, DwindleConstants DEF Node
  <2> QED BY <2>1, <2>2
<1>4. Closed(t, S)
  <2> SUFFICES ASSUME NEW r \in S \cap Split, NEW j \in 0 .. 1, t.kid[r][j] \in Below(t, c)
               PROVE  FALSE
    BY UsedDown DEF Closed
  <2> DEFINE k == t.kid[r][j]
  <2>1. t.up[k] = r
    BY UsedDown
  <2>2. CASE k = c
    BY <1>1, <2>1, <2>2
  <2>3. CASE k # c
    BY <1>1, <2>1, <2>3, UsedUp
  <2> QED BY <2>2, <2>3
<1>5. S \in SUBSET Node
  BY <1>2
<1>6. Used(t) \subseteq S
  <2> HIDE DEF S
  <2> QED BY <1>3, <1>4, <1>5, UsedLeast DEF Linked
<1> QED
  BY <1>1, <1>6

(* Two nodes that are not below each other have nothing below both. *)
LEMMA BelowApart ==
    ASSUME NEW t, Linked(t), NEW n \in Used(t), NEW m \in Used(t),
           n \notin Below(t, m), m \notin Below(t, n)
    PROVE  Below(t, n) \cap Below(t, m) = {}
<1> DEFINE S == Below(t, n) \ Below(t, m)
<1>1. n \in S
  BY UsedDown
<1>2. Closed(t, S)
  <2> SUFFICES ASSUME NEW r \in S \cap Split, NEW j \in 0 .. 1,
                      t.kid[r][j] \in Below(t, m)
               PROVE  FALSE
    BY UsedDown DEF Closed
  <2> DEFINE k == t.kid[r][j]
  <2>1. r \in Used(t) /\ t.up[k] = r /\ k \in Below(t, n)
    <3>1. r \in Used(t)
      BY UsedDown
    <3>2. k \in Below(t, r)
      BY <3>1, UsedDown
    <3> QED BY <3>1, <3>2, UsedDown
  <2>2. CASE k = m
    BY <2>1, <2>2
  <2>3. CASE k # m
    BY <2>1, <2>3, UsedUp
  <2> QED BY <2>2, <2>3
<1>3. S \in SUBSET Node /\ n \in Node /\ t.kid \in Kids
  BY UsedDown, UsedLeast DEF Linked, Shaped
<1>4. Below(t, n) \subseteq S
  <2> HIDE DEF S
  <2> QED BY <1>1, <1>2, <1>3, BelowLeast
<1> QED
  BY <1>4

(* The two halves of a split share no node. *)
LEMMA HalvesApart ==
    ASSUME NEW t, Linked(t), NEW s \in Used(t) \cap Split, NEW i \in 0 .. 1
    PROVE  /\ t.kid[s][i] \notin Below(t, t.kid[s][1 - i])
           /\ Below(t, t.kid[s][i]) \cap Below(t, t.kid[s][1 - i]) = {}
<1>1. 1 - i \in 0 .. 1 /\ 1 - (1 - i) = i
  OBVIOUS
<1>2. ASSUME NEW j \in 0 .. 1, 1 - j \in 0 .. 1
      PROVE  t.kid[s][j] \notin Below(t, t.kid[s][1 - j])
  <2>1. t.kid[s][j] # t.kid[s][1 - j]
    <3>1. t.kid[s][0] # t.kid[s][1]
      BY DEF Linked
    <3>2. (j = 0 /\ 1 - j = 1) \/ (j = 1 /\ 1 - j = 0)
      OBVIOUS
    <3> QED BY <3>1, <3>2
  <2>2. t.kid[s][1 - j] \in Used(t) /\ t.up[t.kid[s][j]] = s
    BY <1>2, UsedDown
  <2>3. s \notin Below(t, t.kid[s][1 - j])
    BY <1>2, NotBelowChild
  <2> QED BY <2>1, <2>2, <2>3, UsedUp
<1>3. t.kid[s][i] \in Used(t) /\ t.kid[s][1 - i] \in Used(t)
  BY <1>1, UsedDown
<1> QED
  BY <1>1, <1>2, <1>3, BelowApart

(* Below a leaf is the leaf; below a split are it and its halves. *)
LEMMA BelowParts ==
    ASSUME NEW t, Linked(t), NEW n \in Used(t)
    PROVE  /\ n \in View => Below(t, n) = {n}
           /\ n \in Split => Below(t, n) = {n} \cup Below(t, t.kid[n][0])
                                               \cup Below(t, t.kid[n][1])
<1>0. t.kid \in Kids /\ n \in Node /\ Used(t) \subseteq Node
  BY UsedLeast DEF Linked, Shaped
<1>1. CASE n \in View
  <2>1. n \notin Split
    BY <1>1, DwindleConstants
  <2>2. Closed(t, {n})
    BY <2>1 DEF Closed
  <2>3. Below(t, n) \subseteq {n}
    BY <1>0, <2>2, BelowLeast
  <2> QED BY <1>0, <2>1, <2>3, BelowLeast
<1>2. CASE n \in Split
  <2> DEFINE a == t.kid[n][0]
             b == t.kid[n][1]
             S == {n} \cup Below(t, a) \cup Below(t, b)
  <2>1. a \in Used(t) /\ b \in Used(t) /\ a \in Below(t, n) /\ b \in Below(t, n)
    BY <1>2, UsedDown
  <2>2. /\ a \in Below(t, a) /\ b \in Below(t, b) /\ n \in Below(t, n)
        /\ Below(t, a) \subseteq Below(t, n) /\ Below(t, b) \subseteq Below(t, n)
        /\ Closed(t, Below(t, a)) /\ Closed(t, Below(t, b))
        /\ Below(t, n) \subseteq Used(t)
    BY <2>1, UsedDown
  <2>3. Closed(t, S)
    <3> SUFFICES ASSUME NEW s \in S \cap Split, NEW i \in 0 .. 1
                 PROVE  t.kid[s][i] \in S \cup {Nil}
      BY DEF Closed
    <3>1. CASE s = n
      <4>1. i = 0 \/ i = 1
        OBVIOUS
      <4> QED BY <2>2, <3>1, <4>1
    <3>2. CASE s \in Below(t, a) \/ s \in Below(t, b)
      BY <2>2, <3>2 DEF Closed
    <3> QED BY <3>1, <3>2
  <2>4. S \in SUBSET Node /\ n \in S
    BY <1>0, <2>2
  <2>5. Below(t, n) \subseteq S
    <3> HIDE DEF S
    <3> QED BY <1>0, <2>3, <2>4, BelowLeast
  <2> QED BY <1>1, <1>2, <2>2, <2>5, DwindleConstants
<1> QED
  BY <1>0, <1>1, <1>2 DEF Node

(* Whoever goes on to a child at every split ends in a leaf. *)
LEMMA Descent ==
    ASSUME NEW t, Linked(t), NEW Q \in SUBSET Used(t), Q # {},
           \A s \in Q \cap Split : \E i \in 0 .. 1 : t.kid[s][i] \in Q
    PROVE  Q \cap View # {}
<1> DEFINE F == {Below(t, n) : n \in Q}
           U == Used(t)
<1>1. U \subseteq Node /\ IsFiniteSet(U)
  <2>1. Used(t) \in SUBSET Node
    BY UsedLeast DEF Linked
  <2> QED BY <2>1, FinitelyManyNodes, FS_Subset
<1>2. F \in SUBSET SUBSET U /\ F # {}
  BY UsedDown
<1>3. PICK x \in F : \A y \in F : y \subseteq x => y = x
  <2> HIDE DEF F, U
  <2> QED BY <1>1, <1>2, LeastSet
<1>4. PICK n \in Q : x = Below(t, n)
  BY <1>3
<1>5. ASSUME n \in Split PROVE FALSE
  <2>1. PICK i \in 0 .. 1 : t.kid[n][i] \in Q
    BY <1>5
  <2>2. Below(t, t.kid[n][i]) \in F
    BY <2>1
  <2>3. /\ t.kid[n][i] \in Below(t, n)
        /\ Below(t, t.kid[n][i]) \subseteq Below(t, n)
        /\ n \in Below(t, n)
    BY <1>5, UsedDown
  <2>4. n \notin Below(t, t.kid[n][i])
    BY <1>5, NotBelowChild
  <2> QED BY <1>3, <1>4, <2>2, <2>3, <2>4
<1> QED
  BY <1>1, <1>4, <1>5 DEF Node

(* Some leaf of any comes first. *)
LEMMA FirstIsOne ==
    ASSUME NEW t, Linked(t), NEW S \in SUBSET LeafViews(t), S # {}
    PROVE  FirstOf(t, S) \in S
<1> DEFINE Before(n) == \A s \in Used(t) \cap Split :
                            Below(t, t.kid[s][0]) \cap S # {} => n \notin Below(t, t.kid[s][1])
           Q == {n \in Used(t) : Below(t, n) \cap S # {} /\ Before(n)}
<1>1. S \subseteq Used(t) /\ S \subseteq View
  BY DEF LeafViews
<1>2. t.root \in Q
  <2>1. t.root \in Used(t) /\ t.up[t.root] = Nil
    BY <1>1, RootParent
  <2>2. Below(t, t.root) \cap S # {}
    BY <1>1 DEF Used
  <2>3. ASSUME NEW s \in Used(t) \cap Split, t.root \in Below(t, t.kid[s][1]) PROVE FALSE
    <3>1. t.kid[s][1] \in Used(t) /\ t.up[t.kid[s][1]] = s /\ s # Nil
      BY UsedDown, DwindleConstants DEF Node
    <3>2. t.root # t.kid[s][1]
      BY <2>1, <3>1
    <3>3. t.up[t.root] \in Split
      BY <2>3, <3>1, <3>2, UsedUp
    <3> QED BY <2>1, <3>3, DwindleConstants DEF Node
  <2> QED BY <2>1, <2>2, <2>3
<1>3. ASSUME NEW n \in Q \cap Split PROVE \E i \in 0 .. 1 : t.kid[n][i] \in Q
  <2>1. Below(t, n) = {n} \cup Below(t, t.kid[n][0]) \cup Below(t, t.kid[n][1])
    BY BelowParts
  <2>2. n \notin S
    BY <1>1, DwindleConstants
  <2>3. PICK i \in 0 .. 1 : /\ Below(t, t.kid[n][i]) \cap S # {}
                            /\ i = 1 => Below(t, t.kid[n][0]) \cap S = {}
    <3>1. CASE Below(t, t.kid[n][0]) \cap S # {}
      BY <3>1
    <3>2. CASE Below(t, t.kid[n][0]) \cap S = {}
      BY <2>1, <2>2, <3>2
    <3> QED BY <3>1, <3>2
  <2> DEFINE k == t.kid[n][i]
  <2>4. k \in Used(t) /\ t.up[k] = n
    BY UsedDown
  <2>5. ASSUME NEW s \in Used(t) \cap Split, Below(t, t.kid[s][0]) \cap S # {},
               k \in Below(t, t.kid[s][1])
        PROVE  FALSE
    <3>1. t.kid[s][1] \in Used(t) /\ t.up[t.kid[s][1]] = s
      BY UsedDown
    <3>2. CASE k = t.kid[s][1]
      <4>1. s = n
        BY <2>4, <3>1, <3>2
      <4>2. i = 0
        BY <2>3, <2>5, <4>1
      <4>3. t.kid[s][0] # t.kid[s][1]
        BY DEF Linked
      <4> QED BY <3>2, <4>1, <4>2, <4>3
    <3>3. CASE k # t.kid[s][1]
      <4>1. n \in Below(t, t.kid[s][1])
        BY <2>4, <2>5, <3>1, <3>3, UsedUp
      <4> QED BY <2>5, <4>1
    <3> QED BY <3>2, <3>3
  <2>6. Before(k)
    BY <2>5
  <2> QED BY <2>3, <2>4, <2>6
<1>4. PICK v \in Q : v \in View
  <2>1. Q \in SUBSET Used(t) /\ Q # {}
    BY <1>2
  <2> HIDE DEF Q
  <2> QED BY <1>3, <2>1, Descent
<1>5. v \in S /\ Before(v)
  <2>1. Below(t, v) = {v}
    BY <1>4, BelowParts
  <2> QED BY <1>4, <2>1
<1>6. FirstOf(t, S) = CHOOSE u \in S : Before(u)
  BY DEF FirstOf
<1> HIDE DEF Before
<1> QED
  BY <1>5, <1>6

-----------------------------------------------------------------------------
(* What recalc hands down *)

(* f gives n the value start and every other node below n what g makes of its
   parent's value.                                                           *)
HandsDown(f, t, n, g, start) ==
    /\ f[n] = start
    /\ \A m \in Below(t, n) \ {n} : f[m] = g[<<f[t.up[m]], m>>]

(* A value can be handed down from n to all that is below it. *)
LEMMA HandedDown ==
    ASSUME NEW t, Linked(t), NEW n \in Used(t),
           NEW V, NEW start \in V, NEW g \in [V \X Node -> V]
    PROVE  \E f \in [Below(t, n) -> V] : HandsDown(f, t, n, g, start)
<1> DEFINE B == Below(t, n)
           P == B \X V
           Rule(R) == /\ <<n, start>> \in R
                      /\ \A m \in B \ {n} : \A v \in V :
                             <<t.up[m], v>> \in R => <<m, g[<<v, m>>]>> \in R
           G == {x \in P : \A R \in SUBSET P : Rule(R) => x \in R}
           One(m) == \E v \in V : <<m, v>> \in G /\ \A w \in V : <<m, w>> \in G => w = v
           S == {m \in B : One(m)}
<1>1. /\ n \in B /\ B \subseteq Used(t) /\ B \subseteq Node /\ Closed(t, B)
      /\ \A m \in B \ {n} : t.up[m] \in B
      /\ \A m \in B, v \in V : g[<<v, m>>] \in V
  <2>1. n \in B /\ B \subseteq Used(t) /\ Closed(t, B) /\ Used(t) \subseteq Node
    BY UsedDown, UsedLeast DEF Linked
  <2> QED BY <2>1, UsedUp
<1> HIDE DEF B
<1>2. Rule(G)
  <2>1. <<n, start>> \in G
    BY <1>1
  <2>2. ASSUME NEW m \in B \ {n}, NEW v \in V, <<t.up[m], v>> \in G
        PROVE  <<m, g[<<v, m>>]>> \in G
    BY <1>1, <2>2
  <2> HIDE DEF G
  <2> QED BY <2>1, <2>2
<1>3. ASSUME NEW R \in SUBSET P, Rule(R) PROVE G \subseteq R
  BY <1>3
<1> HIDE DEF G
<1>4. G \subseteq P
  BY DEF G
<1>5. ASSUME NEW w \in V, <<n, w>> \in G PROVE w = start
  <2> SUFFICES ASSUME w # start PROVE FALSE
    OBVIOUS
  <2> DEFINE R == G \ {<<n, w>>}
  <2>1. <<n, start>> \in R
    BY <1>2
  <2>2. \A m \in B \ {n} : \A v \in V : <<t.up[m], v>> \in R => <<m, g[<<v, m>>]>> \in R
    BY <1>2
  <2>3. R \in SUBSET P
    BY <1>4
  <2> HIDE DEF P
  <2>4. G \subseteq R
    <3> HIDE DEF R
    <3> QED BY <1>3, <2>1, <2>2, <2>3
  <2> QED BY <1>5, <2>4
<1>6. ASSUME NEW m \in B \ {n}, NEW v \in V, <<t.up[m], v>> \in G,
             \A u \in V : <<t.up[m], u>> \in G => u = v,
             NEW w \in V, <<m, w>> \in G
      PROVE  w = g[<<v, m>>]
  <2> SUFFICES ASSUME w # g[<<v, m>>] PROVE FALSE
    OBVIOUS
  <2> DEFINE R == G \ {<<m, w>>}
  <2>1. <<n, start>> \in R
    BY <1>2
  <2>2. ASSUME NEW k \in B \ {n}, NEW u \in V, <<t.up[k], u>> \in R
        PROVE  <<k, g[<<u, k>>]>> \in R
    <3>1. <<k, g[<<u, k>>]>> \in G
      BY <1>2, <2>2
    <3>2. CASE k = m
      <4>1. u = v
        BY <1>6, <2>2, <3>2
      <4> QED BY <3>1, <3>2, <4>1
    <3>3. CASE k # m
      BY <3>1, <3>3
    <3> QED BY <3>2, <3>3
  <2>3. R \in SUBSET P
    BY <1>4
  <2> HIDE DEF P
  <2>4. G \subseteq R
    <3> HIDE DEF R
    <3> QED BY <1>3, <2>1, <2>2, <2>3
  <2> QED BY <1>6, <2>4
<1>7. n \in S
  BY <1>1, <1>2, <1>5
<1>8. ASSUME NEW m \in B \ {n}, t.up[m] \in S PROVE m \in S
  <2>1. PICK v \in V : /\ <<t.up[m], v>> \in G
                       /\ \A u \in V : <<t.up[m], u>> \in G => u = v
    BY <1>8
  <2>2. <<m, g[<<v, m>>]>> \in G /\ g[<<v, m>>] \in V
    BY <1>1, <1>2, <2>1
  <2>3. \A w \in V : <<m, w>> \in G => w = g[<<v, m>>]
    BY <1>6, <2>1
  <2> QED BY <2>2, <2>3
<1>9. Closed(t, S)
  <2> SUFFICES ASSUME NEW s \in S \cap Split, NEW i \in 0 .. 1
               PROVE  t.kid[s][i] \in S
    BY DEF Closed
  <2> DEFINE k == t.kid[s][i]
  <2>1. s \in B /\ s \in Used(t) /\ s \in Below(t, n)
    BY <1>1 DEF B
  <2>2. t.up[k] = s /\ k \in B
    BY <2>1, UsedDown DEF B
  <2>3. k # n
    BY <2>1, NotBelowChild
  <2> HIDE DEF S, k
  <2>4. k \in S
    BY <1>8, <2>2, <2>3
  <2> QED BY <2>4 DEF k
<1>10. B \subseteq S
  <2>1. S \in SUBSET Node /\ n \in Node /\ t.kid \in Kids
    BY <1>1 DEF Linked, Shaped
  <2> HIDE DEF S
  <2> QED BY <1>7, <1>9, <2>1, BelowLeast DEF B
<1> DEFINE f == [m \in B |-> CHOOSE v \in V : <<m, v>> \in G]
<1>11. \A m \in B : f[m] \in V /\ <<m, f[m]>> \in G
  BY <1>10
<1>12. f \in [B -> V]
  BY <1>11
<1>13. ASSUME NEW m \in B \ {n} PROVE f[m] = g[<<f[t.up[m]], m>>]
  <2>1. t.up[m] \in B /\ t.up[m] \in S
    BY <1>1, <1>10
  <2>2. f[t.up[m]] \in V /\ <<t.up[m], f[t.up[m]]>> \in G
    BY <1>11, <2>1
  <2>3. \A u \in V : <<t.up[m], u>> \in G => u = f[t.up[m]]
    <3> HIDE DEF f
    <3> QED BY <2>1, <2>2
  <2> HIDE DEF f
  <2> QED BY <1>6, <1>11, <2>2, <2>3
<1>14. f[n] = start
  <2> HIDE DEF f
  <2> QED BY <1>1, <1>5, <1>11
<1> HIDE DEF f
<1> QED
  BY <1>12, <1>13, <1>14 DEF HandsDown, B

(* A child is on its side, and its sibling on the other. *)
LEMMA SideOfChild ==
    ASSUME NEW t, Linked(t), NEW s \in Used(t) \cap Split, NEW i \in 0 .. 1
    PROVE  /\ Side(t, t.kid[s][i]) = i
           /\ Sibling(t, t.kid[s][i]) = t.kid[s][1 - i]
<1>1. t.up[t.kid[s][i]] = s /\ t.kid[s][0] # t.kid[s][1]
  BY DEF Linked
<1>2. i = 0 \/ i = 1
  OBVIOUS
<1>3. Side(t, t.kid[s][i]) = i
  BY <1>1, <1>2 DEF Side
<1> QED
  BY <1>1, <1>3 DEF Sibling

(* A tenth of twice a side, up to nineteen times, is at most the side. *)
LEMMA ShareOfSide ==
    ASSUME NEW side \in Nat, NEW ratio \in 1 .. 19
    PROVE  (side * ratio) \div 20 \in Nat /\ (side * ratio) \div 20 <= side
<1>1. \A r \in 1 .. 19 : side * r \in Nat /\ side * r <= 20 * side
  <2> TAKE r \in 1 .. 19
  <2>1. \A a, b \in Nat : a * b \in Nat
    OBVIOUS
  <2>2. side * r \in Nat /\ side * (20 - r) \in Nat
    BY <2>1
  <2>3. side * (20 - r) = 20 * side - side * r
    OBVIOUS
  <2> QED BY <2>2, <2>3
<1>2. ASSUME NEW p \in Nat, p <= 20 * side
      PROVE  p \div 20 \in Nat /\ p \div 20 <= side
  BY <1>2
<1> QED
  BY <1>1, <1>2

(* A share of a box is a box, and lies inside it. *)
LEMMA ShareOfBox ==
    ASSUME NEW b \in Box, NEW top \in BOOLEAN, NEW ratio \in 1 .. 19, NEW i \in 0 .. 1
    PROVE  /\ Share(b, top, ratio, i) \in Box
           /\ Inside(Share(b, top, ratio, i), b)
<1> DEFINE side == IF top THEN b.h ELSE b.w
           first == (side * ratio) \div 20
<1>1. side \in Nat /\ b.x \in Int /\ b.y \in Int /\ b.w \in Nat /\ b.h \in Nat
  BY DEF Box
<1>2. first \in Nat /\ first <= side
  <2> HIDE DEF side
  <2> QED BY <1>1, ShareOfSide
<1>3. (top => first <= b.h) /\ (~top => first <= b.w)
  BY <1>2
<1>4. Share(b, top, ratio, i) \in Box /\ Inside(Share(b, top, ratio, i), b)
  <2>1. b = [x |-> b.x, y |-> b.y, w |-> b.w, h |-> b.h]
    BY DEF Box
  <2>2. CASE top /\ i = 0
    <3>1. Share(b, top, ratio, i) = [x |-> b.x, y |-> b.y, w |-> b.w, h |-> first]
      BY <2>1, <2>2 DEF Share
    <3> HIDE DEF first
    <3>2. first <= b.h
      BY <1>3, <2>2
    <3>3. /\ [x |-> b.x, y |-> b.y, w |-> b.w, h |-> first] \in Box
          /\ Inside([x |-> b.x, y |-> b.y, w |-> b.w, h |-> first], b)
      BY <1>1, <1>2, <3>2 DEF Box, Inside
    <3> QED BY <3>1, <3>3
  <2>3. CASE top /\ i # 0
    <3>1. Share(b, top, ratio, i) =
              [x |-> b.x, y |-> b.y + first, w |-> b.w, h |-> b.h - first]
      BY <2>1, <2>3 DEF Share
    <3> HIDE DEF first
    <3>2. /\ b.y + first \in Int /\ b.h - first \in Nat
          /\ b.y <= b.y + first /\ (b.y + first) + (b.h - first) <= b.y + b.h
      BY <1>1, <1>2, <1>3, <2>3
    <3>3. /\ [x |-> b.x, y |-> b.y + first, w |-> b.w, h |-> b.h - first] \in Box
          /\ Inside([x |-> b.x, y |-> b.y + first, w |-> b.w, h |-> b.h - first], b)
      BY <1>1, <1>2, <3>2 DEF Box, Inside
    <3> QED BY <3>1, <3>3
  <2>4. CASE ~top /\ i = 0
    <3>1. Share(b, top, ratio, i) = [x |-> b.x, y |-> b.y, w |-> first, h |-> b.h]
      BY <2>1, <2>4 DEF Share
    <3> HIDE DEF first
    <3>2. first <= b.w
      BY <1>3, <2>4
    <3>3. /\ [x |-> b.x, y |-> b.y, w |-> first, h |-> b.h] \in Box
          /\ Inside([x |-> b.x, y |-> b.y, w |-> first, h |-> b.h], b)
      BY <1>1, <1>2, <3>2 DEF Box, Inside
    <3> QED BY <3>1, <3>3
  <2>5. CASE ~top /\ i # 0
    <3>1. Share(b, top, ratio, i) =
              [x |-> b.x + first, y |-> b.y, w |-> b.w - first, h |-> b.h]
      BY <2>1, <2>5 DEF Share
    <3> HIDE DEF first
    <3>2. /\ b.x + first \in Int /\ b.w - first \in Nat
          /\ b.x <= b.x + first /\ (b.x + first) + (b.w - first) <= b.x + b.w
      BY <1>1, <1>2, <1>3, <2>5
    <3>3. /\ [x |-> b.x + first, y |-> b.y, w |-> b.w - first, h |-> b.h] \in Box
          /\ Inside([x |-> b.x + first, y |-> b.y, w |-> b.w - first, h |-> b.h], b)
      BY <1>1, <1>2, <3>2 DEF Box, Inside
    <3> QED BY <3>1, <3>3
  <2> QED BY <2>2, <2>3, <2>4, <2>5
<1> QED
  BY <1>4

(* Split s divides its box between its children, along the line it should. *)
Shares(t, s) ==
    \A i \in 0 .. 1 : t.box[t.kid[s][i]] = Share(t.box[s], t.top[s], t.ratio[s], i)
Stacked(t, s) == t.top[s] = Stacks(t, s, t.box[s])

(* What recalc makes of a node's box for child m of it. *)
Handed(t) ==
    [x \in Box \X Node |->
        IF t.up[x[2]] \in Split
        THEN Share(x[1], Stacks(t, t.up[x[2]], x[1]), t.ratio[t.up[x[2]]], Side(t, x[2]))
        ELSE x[1]]

(* A handed box is a box. *)
LEMMA HandedBox ==
    ASSUME NEW t \in TreeState
    PROVE  /\ Handed(t) \in [Box \X Node -> Box]
           /\ \A s \in Split, b \in Box : Stacks(t, s, b) \in BOOLEAN
<1>1. t.ratio \in [Split -> 1 .. 19] /\ t.top \in [Split -> BOOLEAN]
  BY DEF TreeState
<1>2. \A s \in Split, b \in Box : Stacks(t, s, b) \in BOOLEAN
  <2> TAKE s \in Split, b \in Box
  <2>1. CASE PreserveSplit
    <3>1. Stacks(t, s, b) = t.top[s]
      BY <2>1 DEF Stacks
    <3> QED BY <1>1, <3>1
  <2>2. CASE ~PreserveSplit
    <3>1. Stacks(t, s, b) = (b.h > b.w)
      BY <2>2 DEF Stacks
    <3>2. (b.h > b.w) \in BOOLEAN
      OBVIOUS
    <3> QED BY <3>1, <3>2
  <2> QED BY <2>1, <2>2
<1>3. \A m : Side(t, m) \in 0 .. 1
  BY DEF Side
<1>4. ASSUME NEW b \in Box, NEW m \in Node
      PROVE  (IF t.up[m] \in Split
              THEN Share(b, Stacks(t, t.up[m], b), t.ratio[t.up[m]], Side(t, m))
              ELSE b) \in Box
  <2>1. CASE t.up[m] \in Split
    <3>1. Stacks(t, t.up[m], b) \in BOOLEAN /\ t.ratio[t.up[m]] \in 1 .. 19
      BY <1>1, <1>2, <2>1
    <3> QED BY <1>3, <2>1, <3>1, ShareOfBox
  <2> QED BY <2>1
<1>5. Handed(t) \in [Box \X Node -> Box]
  BY <1>4 DEF Handed
<1> QED
  BY <1>2, <1>5

(* The boxes below n once recalc has been through them: f is what Recalc calls
   Given, and r the tree it returns.                                         *)
Recalculated(r, f, t, n) ==
    r = [t EXCEPT !.box = [m \in Node |-> IF m \in Below(t, n) THEN f[m] ELSE t.box[m]],
                  !.geo = [v \in View |-> IF v \in Below(t, n) THEN Inset(f[v]) ELSE t.geo[v]],
                  !.top = [s \in Split |-> IF s \in Below(t, n) THEN Stacks(t, s, f[s])
                                           ELSE t.top[s]]]

(* Recalc hands boxes down from n. *)
LEMMA RecalcHandsDown ==
    ASSUME NEW t \in TreeState, Linked(t), NEW n \in Used(t)
    PROVE  \E f \in [Below(t, n) -> Box] :
               /\ HandsDown(f, t, n, Handed(t), t.box[n])
               /\ Recalculated(Recalc(t, n), f, t, n)
<1> DEFINE B == Below(t, n)
           Start == t.box[n]
           g == Handed(t)
           Down(f, m) == LET s == t.up[m]
                             b == f[s]
                         IN  Share(b, Stacks(t, s, b), t.ratio[s], Side(t, m))
           Eq(f) == f = [m \in B |-> IF m = n THEN t.box[n] ELSE Down(f, m)]
           Given == CHOOSE f : Eq(f)
<1>1. /\ n \in B /\ B \subseteq Node /\ B \subseteq Used(t) /\ Closed(t, B)
      /\ \A m \in B \ {n} : t.up[m] \in B /\ t.up[m] \in Split
  BY UsedDown, UsedUp, UsedLeast DEF Linked
<1>2. Start \in Box /\ g \in [Box \X Node -> Box]
  BY <1>1, HandedBox DEF TreeState
<1>3. \A f : \A m \in B \ {n} : f[t.up[m]] \in Box => Down(f, m) = g[<<f[t.up[m]], m>>]
  BY <1>1 DEF Handed
<1>4. PICK r \in [B -> Box] : HandsDown(r, t, n, g, Start)
  <2> HIDE DEF g, Start
  <2> QED BY <1>2, HandedDown
<1>5. r[n] = Start /\ \A m \in B \ {n} : r[m] = g[<<r[t.up[m]], m>>]
  BY <1>4 DEF HandsDown
<1>6. Eq(r)
  <2>1. \A m \in B \ {n} : r[m] = Down(r, m)
    <3> HIDE DEF Down, B, g
    <3> QED BY <1>1, <1>3, <1>5
  <2> HIDE DEF Down, B
  <2> QED BY <1>5, <2>1
<1>7. Eq(Given)
  <2> HIDE DEF Eq
  <2> QED BY <1>6
<1>8. Recalculated(Recalc(t, n), Given, t, n)
  BY DEF Recalc, Recalculated
<1> HIDE DEF Given
<1> DEFINE S == {m \in B : Given[m] \in Box}
<1>9. /\ Given[n] = Start
      /\ \A m \in B \ {n} : Given[m] = Down(Given, m)
      /\ Given = [m \in B |-> Given[m]]
  <2> HIDE DEF Down, B
  <2> QED BY <1>1, <1>7
<1> HIDE DEF Down, g
<1>10. Closed(t, S)
  <2> SUFFICES ASSUME NEW s \in S \cap Split, NEW i \in 0 .. 1
               PROVE  t.kid[s][i] \in S
    BY DEF Closed
  <2> DEFINE k == t.kid[s][i]
  <2>1. s \in B /\ s \in Used(t) /\ s \in Below(t, n) /\ Given[s] \in Box
    BY <1>1
  <2>2. t.up[k] = s /\ k \in B
    BY <2>1, UsedDown
  <2>3. k # n
    BY <2>1, NotBelowChild
  <2> HIDE DEF B, k
  <2>4. Given[k] = g[<<Given[s], k>>]
    BY <1>3, <1>9, <2>1, <2>2, <2>3
  <2>5. k \in Node
    BY <1>1, <2>2
  <2>6. Given[k] \in Box
    BY <1>2, <2>1, <2>4, <2>5
  <2> QED BY <2>2, <2>6 DEF k
<1>11. B \subseteq S
  <2>1. S \in SUBSET Node /\ n \in S /\ n \in Node /\ t.kid \in Kids
    BY <1>1, <1>2, <1>9 DEF Linked, Shaped
  <2> HIDE DEF S
  <2> QED BY <1>10, <2>1, BelowLeast
<1>12. Given \in [B -> Box]
  <2> HIDE DEF B
  <2> QED BY <1>9, <1>11
<1>13. HandsDown(Given, t, n, g, Start)
  <2>1. \A m \in B \ {n} : Given[m] = g[<<Given[t.up[m]], m>>]
    <3> HIDE DEF B
    <3> QED BY <1>1, <1>3, <1>9, <1>12
  <2> QED BY <1>9, <2>1 DEF HandsDown
<1> QED
  BY <1>8, <1>12, <1>13 DEF g

(* Trees with the same closed sets use the same nodes. *)
LEMMA SameBelow ==
    ASSUME NEW t, NEW r, Shaped(t), Shaped(r), r.root = t.root,
           \A S \in SUBSET Node : Closed(r, S) <=> Closed(t, S)
    PROVE  /\ Used(r) = Used(t)
           /\ \A n \in Node : Below(r, n) = Below(t, n)
<1>1. ASSUME NEW n \in Node PROVE Below(r, n) = Below(t, n)
  <2>1. /\ n \in Below(t, n) /\ Below(t, n) \subseteq Node /\ Closed(t, Below(t, n))
        /\ n \in Below(r, n) /\ Below(r, n) \subseteq Node /\ Closed(r, Below(r, n))
    BY BelowLeast DEF Shaped
  <2>2. Below(t, n) \subseteq Below(r, n)
    BY <2>1, BelowLeast DEF Shaped
  <2>3. Below(r, n) \subseteq Below(t, n)
    BY <2>1, BelowLeast DEF Shaped
  <2> QED BY <2>2, <2>3
<1>2. Used(r) = Used(t)
  <2>1. CASE t.root = Nil
    BY <2>1, UsedLeast
  <2>2. CASE t.root # Nil
    BY <1>1, <2>2 DEF Used, Shaped, MaybeNode
  <2> QED BY <2>1, <2>2
<1> QED
  BY <1>1, <1>2

(* Trees with the same links. *)
SameLinks(r, t) == r.root = t.root /\ r.kid = t.kid /\ r.up = t.up

(* They are linked alike. *)
LEMMA LinksOnly ==
    ASSUME NEW t, NEW r, Linked(t), SameLinks(r, t)
    PROVE  /\ Linked(r) /\ Used(r) = Used(t) /\ LeafViews(r) = LeafViews(t)
           /\ \A n \in Node : Below(r, n) = Below(t, n)
<1>1. Shaped(t) /\ Shaped(r)
  BY DEF SameLinks, Shaped, Linked
<1>2. \A S \in SUBSET Node : Closed(r, S) <=> Closed(t, S)
  BY DEF SameLinks, Closed
<1>3. Used(r) = Used(t) /\ \A n \in Node : Below(r, n) = Below(t, n)
  BY <1>1, <1>2, SameBelow DEF SameLinks
<1>4. Linked(r)
  BY <1>1, <1>3 DEF Linked, SameLinks
<1> QED
  BY <1>3, <1>4 DEF LeafViews

(* A tree with other boxes, geometries and orientations. *)
Reboxed(t, box, geo, top) == [t EXCEPT !.box = box, !.geo = geo, !.top = top]

(* Such a tree is a tree, linked as it was. *)
LEMMA TreeBoxes ==
    ASSUME NEW t \in TreeState, NEW box \in [Node -> Box],
           NEW geo \in [View -> Box \cup {Elsewhere, Column, Whole}],
           NEW top \in [Split -> BOOLEAN]
    PROVE  /\ Reboxed(t, box, geo, top) \in TreeState
           /\ SameLinks(Reboxed(t, box, geo, top), t)
           /\ Reboxed(t, box, geo, top).ratio = t.ratio
           /\ Reboxed(t, box, geo, top).box = box
           /\ Reboxed(t, box, geo, top).geo = geo
           /\ Reboxed(t, box, geo, top).top = top
<1> DEFINE Ups == [Node -> Split \cup {Nil}]
           Ratios == [Split -> 1 .. 19]
           Boxes == [Node -> Box]
           Geos == [View -> Box \cup {Elsewhere, Column, Whole}]
<1>1. TreeState = [root : MaybeNode, up : Ups, kid : Kids, top : Tops,
                   ratio : Ratios, box : Boxes, geo : Geos]
  BY DEF TreeState, Kids, Tops
<1>2. box \in Boxes /\ geo \in Geos /\ top \in Tops
  BY DEF Tops
<1> HIDE DEF Ups, Ratios, Boxes, Geos
<1> QED
  BY <1>1, <1>2 DEF SameLinks, Reboxed

(* What a leaf gives its view is a box, however narrow its own and whatever the
   gap.                                                                      *)
LEMMA InsetBox ==
    ASSUME NEW b \in Box
    PROVE  Inset(b) \in Box
<1>1. \A n \in Int : AtLeastOne(n) \in Nat
  BY DEF AtLeastOne
<1>2. /\ b.x + Gap \in Int /\ b.y + Gap \in Int
      /\ b.w - 2 * Gap \in Int /\ b.h - 2 * Gap \in Int
  BY DwindleConstants DEF Box
<1> QED BY <1>1, <1>2 DEF Inset, Box

(* Recalc leaves the links and what is not below n; n keeps its box, the splits
   below it divide theirs, and the leaves inset theirs for their views.      *)
LEMMA RecalcEffect ==
    ASSUME NEW t \in TreeState, Linked(t), NEW n \in Used(t), NEW r, r = Recalc(t, n)
    PROVE  /\ r \in TreeState /\ SameLinks(r, t) /\ r.ratio = t.ratio
           /\ r.box[n] = t.box[n]
           /\ \A m \in Node \ Below(t, n) : r.box[m] = t.box[m]
           /\ \A s \in Split \ Below(t, n) : r.top[s] = t.top[s]
           /\ \A v \in View \ Below(t, n) : r.geo[v] = t.geo[v]
           /\ \A v \in View \cap Below(t, n) : r.geo[v] = Inset(r.box[v])
           /\ \A s \in Split \cap Below(t, n) : Shares(r, s) /\ Stacked(r, s)
<1> DEFINE B == Below(t, n)
<1>1. PICK f \in [B -> Box] : /\ HandsDown(f, t, n, Handed(t), t.box[n])
                              /\ Recalculated(r, f, t, n)
  BY RecalcHandsDown
<1> DEFINE box == [m \in Node |-> IF m \in B THEN f[m] ELSE t.box[m]]
           geo == [v \in View |-> IF v \in B THEN Inset(f[v]) ELSE t.geo[v]]
           top == [s \in Split |-> IF s \in B THEN Stacks(t, s, f[s]) ELSE t.top[s]]
<1>2. /\ n \in B /\ B \subseteq Used(t) /\ B \subseteq Node /\ Closed(t, B)
  BY UsedDown, UsedLeast DEF Linked
<1>3. /\ f[n] = t.box[n]
      /\ \A m \in B \ {n} : f[m] = Handed(t)[<<f[t.up[m]], m>>]
  BY <1>1 DEF HandsDown
<1>4. /\ t.box \in [Node -> Box] /\ t.top \in [Split -> BOOLEAN]
      /\ t.geo \in [View -> Box \cup {Elsewhere, Column, Whole}]
  BY DEF TreeState
<1>5. box \in [Node -> Box]
  BY <1>4
<1>6. geo \in [View -> Box \cup {Elsewhere, Column, Whole}]
  <2>1. \A v \in B : Inset(f[v]) \in Box
    BY InsetBox
  <2> QED BY <1>4, <2>1
<1>7. top \in [Split -> BOOLEAN]
  BY <1>4, HandedBox
<1>8. r = Reboxed(t, box, geo, top)
  BY <1>1 DEF Recalculated, Reboxed
<1> HIDE DEF box, geo, top
<1>9. /\ r \in TreeState /\ SameLinks(r, t) /\ r.ratio = t.ratio
      /\ r.box = box /\ r.geo = geo /\ r.top = top
  BY <1>5, <1>6, <1>7, <1>8, TreeBoxes
<1>10. ASSUME NEW s \in Split \cap B PROVE Shares(r, s) /\ Stacked(r, s)
  <2>1. s \in Used(t) /\ s \in Below(t, n) /\ r.box[s] = f[s] /\ f[s] \in Box
    BY <1>2, <1>9 DEF box
  <2>2. r.top[s] = Stacks(t, s, f[s])
    BY <1>9 DEF top
  <2>3. Stacked(r, s)
    BY <2>1, <2>2 DEF Stacked, Stacks
  <2>4. ASSUME NEW i \in 0 .. 1
        PROVE  r.box[r.kid[s][i]] = Share(r.box[s], r.top[s], r.ratio[s], i)
    <3> DEFINE k == t.kid[s][i]
    <3>1. t.up[k] = s /\ k \in Below(t, s)
      BY <2>1, UsedDown
    <3>2. k \in B /\ k \in Node /\ k # n
      BY <1>2, <2>1, <3>1, UsedDown, NotBelowChild
    <3>3. Side(t, k) = i
      BY <2>1, SideOfChild
    <3> HIDE DEF k
    <3>4. f[k] = Handed(t)[<<f[s], k>>]
      BY <1>3, <3>1, <3>2
    <3>5. f[k] = Share(f[s], Stacks(t, s, f[s]), t.ratio[s], i)
      BY <2>1, <3>1, <3>2, <3>3, <3>4 DEF Handed
    <3>6. r.box[k] = f[k]
      BY <1>9, <3>2 DEF box
    <3>7. r.kid = t.kid /\ r.ratio = t.ratio
      BY <1>9 DEF SameLinks
    <3> QED BY <2>1, <2>2, <3>5, <3>6, <3>7 DEF k
  <2> QED BY <2>3, <2>4 DEF Shares
<1>11. r.box[n] = t.box[n] /\ \A m \in Node \ B : r.box[m] = t.box[m]
  BY <1>2, <1>3, <1>9 DEF box
<1>12. \A s \in Split \ B : r.top[s] = t.top[s]
  BY <1>9 DEF top
<1>13. /\ \A v \in View \ B : r.geo[v] = t.geo[v]
       /\ \A v \in View \cap B : r.geo[v] = Inset(r.box[v])
  BY <1>9 DEF geo, box, Node
<1> QED
  BY <1>9, <1>10, <1>11, <1>12, <1>13

-----------------------------------------------------------------------------
(* What the operations do to the links *)

(* A new split p takes the place of on, and owns on and the new leaf v. *)
Grafts(r, t, on, v, p) ==
    /\ r.root = IF on = t.root THEN p ELSE t.root
    /\ \A m \in Node : r.up[m] = IF m = p THEN t.up[on]
                                 ELSE IF m = on \/ m = v THEN p ELSE t.up[m]
    /\ \/ r.kid[p][0] = v /\ r.kid[p][1] = on
       \/ r.kid[p][0] = on /\ r.kid[p][1] = v
    /\ \A s \in Split \ {p} : \A i \in 0 .. 1 :
           r.kid[s][i] = IF t.kid[s][i] = on THEN p ELSE t.kid[s][i]

(* That links the tree, and uses p and v besides what it used. *)
LEMMA Grafted ==
    ASSUME NEW t, Linked(t), NEW on \in Used(t),
           NEW v \in View \ Used(t), NEW p \in Split \ Used(t),
           NEW r, Shaped(r), Grafts(r, t, on, v, p)
    PROVE  Linked(r) /\ Used(r) = Used(t) \cup {p, v}
<1> DEFINE U == Used(t)
           S == U \cup {p, v}
<1>1. /\ Shaped(t) /\ t.kid \in Kids /\ U \subseteq Node /\ S \subseteq Node
      /\ t.root \in U /\ t.root # Nil /\ p # Nil /\ p # on /\ v # on /\ v # p
      /\ v \notin Split
  <2>1. Shaped(t) /\ t.kid \in Kids /\ U \subseteq Node
    BY UsedLeast DEF Linked, Shaped
  <2>2. t.root \in U
    BY RootParent
  <2> QED BY <2>1, <2>2, DwindleConstants DEF Node
<1>2. \A i \in 0 .. 1 : /\ i = 0 \/ i = 1
                        /\ r.kid[p][i] = v \/ r.kid[p][i] = on
  BY DEF Grafts
<1>3. \A s \in U \cap Split : \A i \in 0 .. 1 :
          /\ t.kid[s][i] \in U /\ t.up[t.kid[s][i]] = s
          /\ r.kid[s][i] = IF t.kid[s][i] = on THEN p ELSE t.kid[s][i]
  BY UsedDown DEF Grafts
<1>4. \A s \in (Split \ U) \ {p} : \A i \in 0 .. 1 : r.kid[s][i] = Nil
  <2> TAKE s \in (Split \ U) \ {p}
  <2> TAKE i \in 0 .. 1
  <2>1. t.kid[s][i] = Nil
    BY <1>2 DEF Linked
  <2> QED BY <1>1, <2>1, DwindleConstants DEF Grafts
<1>5. Closed(r, S)
  <2> SUFFICES ASSUME NEW s \in S \cap Split, NEW i \in 0 .. 1
               PROVE  r.kid[s][i] \in S
    BY DEF Closed
  <2>1. CASE s = p
    BY <1>2, <2>1
  <2>2. CASE s # p
    BY <1>1, <1>3, <2>2
  <2> QED BY <2>1, <2>2
<1>6. Used(r) \subseteq S
  <2>1. r.root \in S
    BY <1>1 DEF Grafts
  <2> QED BY <1>1, <1>5, <2>1, UsedLeast
<1>7. S \subseteq Used(r)
  <2> DEFINE R == Used(r)
             T == U \cap R
  <2>1. r.root # Nil /\ r.root \in R /\ Closed(r, R) /\ R \subseteq Node
    <3>1. r.root # Nil
      BY <1>1 DEF Grafts
    <3> QED BY <3>1, UsedLeast
  <2>2. p \in R => on \in R /\ v \in R
    <3> SUFFICES ASSUME p \in R PROVE on \in R /\ v \in R
      OBVIOUS
    <3>1. r.kid[p][0] \in R \cup {Nil} /\ r.kid[p][1] \in R \cup {Nil}
      BY <2>1 DEF Closed
    <3> QED BY <1>1, <3>1, DwindleConstants DEF Grafts, Node
  <2>3. t.root \in T
    BY <1>1, <2>1, <2>2 DEF Grafts
  <2>4. Closed(t, T)
    <3> SUFFICES ASSUME NEW s \in T \cap Split, NEW i \in 0 .. 1
                 PROVE  t.kid[s][i] \in T
      BY DEF Closed
    <3>1. /\ t.kid[s][i] \in U
          /\ r.kid[s][i] = IF t.kid[s][i] = on THEN p ELSE t.kid[s][i]
      BY <1>3
    <3>2. r.kid[s][i] \in R \cup {Nil}
      BY <2>1 DEF Closed
    <3> QED BY <1>1, <2>2, <3>1, <3>2, DwindleConstants
  <2>5. U \subseteq R
    <3>1. T \in SUBSET Node
      BY <1>1
    <3> HIDE DEF R
    <3>2. U \subseteq T
      <4> HIDE DEF T
      <4> QED BY <1>1, <2>3, <2>4, <3>1, UsedLeast
    <3> QED BY <3>2
  <2>6. p \in R
    <3>1. CASE on = t.root
      BY <2>1, <3>1 DEF Grafts
    <3>2. CASE on # t.root
      <4>1. t.up[on] \in Split /\ t.up[on] \in U
        BY <3>2, RootParent
      <4>2. PICK i \in 0 .. 1 : t.kid[t.up[on]][i] = on
        BY <3>2, RootParent
      <4>3. r.kid[t.up[on]][i] = p
        BY <1>3, <4>1, <4>2
      <4> QED BY <1>1, <2>1, <2>5, <4>1, <4>3 DEF Closed
    <3> QED BY <3>1, <3>2
  <2> QED BY <2>2, <2>5, <2>6
<1>8. Used(r) = S
  BY <1>6, <1>7
<1>9. r.up[r.root] = Nil
  <2>1. t.up[t.root] = Nil /\ t.root \in Node /\ t.root # v
    BY <1>1, RootParent
  <2> QED BY <1>1, <2>1 DEF Grafts
<1>10. ASSUME NEW s \in Split \cap S
       PROVE  /\ r.kid[s][0] # r.kid[s][1]
              /\ \A i \in 0 .. 1 : r.kid[s][i] # Nil /\ r.up[r.kid[s][i]] = s
  <2>1. CASE s = p
    <3>1. r.up[v] = p /\ r.up[on] = p /\ v # Nil /\ on # Nil
      BY <1>1, DwindleConstants DEF Grafts
    <3> QED BY <1>1, <1>2, <2>1, <3>1 DEF Grafts
  <2>2. CASE s # p
    <3>1. s \in U \cap Split
      BY <1>1, <2>2
    <3>2. t.kid[s][0] # t.kid[s][1]
      BY <3>1 DEF Linked
    <3>3. r.kid[s][0] # r.kid[s][1]
      BY <1>1, <1>3, <3>1, <3>2
    <3>4. ASSUME NEW i \in 0 .. 1 PROVE r.kid[s][i] # Nil /\ r.up[r.kid[s][i]] = s
      <4> DEFINE k == t.kid[s][i]
      <4>1. k \in U /\ t.up[k] = s /\ r.kid[s][i] = IF k = on THEN p ELSE k
        BY <1>3, <3>1
      <4> HIDE DEF k
      <4>2. CASE k = on
        BY <1>1, <4>1, <4>2 DEF Grafts
      <4>3. CASE k # on
        <5>1. k \in Node /\ k # p /\ k # v /\ k # Nil
          BY <1>1, <4>1, DwindleConstants
        <5> QED BY <4>1, <4>3, <5>1 DEF Grafts
      <4> QED BY <4>2, <4>3
    <3> QED BY <3>3, <3>4
  <2> QED BY <2>1, <2>2
<1>11. ASSUME NEW m \in Node \ S PROVE r.up[m] = Nil
  <2>1. t.up[m] = Nil
    BY DEF Linked
  <2> QED BY <2>1 DEF Grafts
<1>12. \A s \in Split \ S : r.kid[s][0] = Nil /\ r.kid[s][1] = Nil
  BY <1>4
<1> HIDE DEF S
<1> QED
  BY <1>8, <1>9, <1>10, <1>11, <1>12 DEF Linked, S

(* The leaf v and the split p above it go, and heir, the other child of p,
   takes the place of p.                                                     *)
Prunes(r, t, v, p, heir) ==
    /\ r.root = IF p = t.root THEN heir ELSE t.root
    /\ \A m \in Node : r.up[m] = IF m = p \/ m = v THEN Nil
                                 ELSE IF m = heir THEN t.up[p] ELSE t.up[m]
    /\ r.kid[p][0] = Nil /\ r.kid[p][1] = Nil
    /\ \A s \in Split \ {p} : \A i \in 0 .. 1 :
           r.kid[s][i] = IF t.kid[s][i] = p THEN heir ELSE t.kid[s][i]

(* The parent of a leaf that is not the whole tree, and its sibling. *)
LEMMA LeafLinks ==
    ASSUME NEW t, Linked(t), NEW n \in Used(t), n # t.root,
           NEW p, p = t.up[n], NEW heir, heir = Sibling(t, n)
    PROVE  /\ p \in Split /\ p \in Used(t) /\ n # p
           /\ heir \in Used(t) /\ heir # n /\ heir # p /\ t.up[heir] = p
           /\ \/ t.kid[p][0] = n /\ t.kid[p][1] = heir
              \/ t.kid[p][0] = heir /\ t.kid[p][1] = n
           /\ p \notin Below(t, n) /\ p \notin Below(t, heir)
           /\ Below(t, n) \cap Below(t, heir) = {}
<1>1. PICK i \in 0 .. 1 : p \in Split /\ p \in Used(t) /\ t.kid[p][i] = n
  BY RootParent
<1>2. 1 - i \in 0 .. 1 /\ (i = 0 \/ i = 1) /\ 1 - 0 = 1 /\ 1 - 1 = 0
  OBVIOUS
<1>3. heir = t.kid[p][1 - i]
  BY <1>1, SideOfChild
<1>4. heir \in Used(t) /\ t.up[heir] = p
  BY <1>1, <1>2, <1>3, UsedDown
<1>5. p \notin Below(t, n) /\ p \notin Below(t, heir)
  BY <1>1, <1>2, <1>3, NotBelowChild
<1>6. Below(t, n) \cap Below(t, heir) = {}
  BY <1>1, <1>3, HalvesApart
<1>7. n \in Below(t, n) /\ heir \in Below(t, heir)
  BY <1>4, UsedDown
<1> QED
  BY <1>1, <1>2, <1>3, <1>4, <1>5, <1>6, <1>7

(* That links the tree too, and uses v and p no more. *)
LEMMA Pruned ==
    ASSUME NEW t, Linked(t), NEW v \in View \cap Used(t), v # t.root,
           NEW p, p = t.up[v], NEW heir, heir = Sibling(t, v),
           NEW r, Shaped(r), Prunes(r, t, v, p, heir)
    PROVE  /\ Linked(r) /\ Used(r) = Used(t) \ {p, v}
           /\ heir \in Used(r)
<1> DEFINE U == Used(t)
           S == U \ {p, v}
<1>1. /\ Shaped(t) /\ t.kid \in Kids /\ U \subseteq Node /\ S \subseteq Node
      /\ t.root \in U /\ t.root # Nil /\ t.up[t.root] = Nil /\ v \notin Split
  BY UsedLeast, RootParent, DwindleConstants DEF Linked, Shaped
<1>2. /\ p \in Split /\ p \in U /\ heir \in S /\ heir # p /\ heir # v /\ v # p
      /\ t.up[heir] = p /\ heir # Nil /\ p # Nil
      /\ \/ t.kid[p][0] = v /\ t.kid[p][1] = heir
         \/ t.kid[p][0] = heir /\ t.kid[p][1] = v
  BY <1>1, LeafLinks, DwindleConstants DEF Node
<1>3. \A i \in 0 .. 1 : i = 0 \/ i = 1
  OBVIOUS
<1>4. ASSUME NEW s \in U \cap Split, s # p, NEW i \in 0 .. 1
      PROVE  /\ t.kid[s][i] \in U \ {v} /\ t.up[t.kid[s][i]] = s
             /\ r.kid[s][i] = IF t.kid[s][i] = p THEN heir ELSE t.kid[s][i]
             /\ r.kid[s][i] \in S
  BY <1>2, <1>4, UsedDown DEF Prunes
<1>5. \A s \in Split \ S : \A i \in 0 .. 1 : r.kid[s][i] = Nil
  <2> TAKE s \in Split \ S
  <2> TAKE i \in 0 .. 1
  <2>1. CASE s = p
    BY <1>3, <2>1 DEF Prunes
  <2>2. CASE s # p
    <3>1. s \notin U
      BY <1>1, <2>2
    <3>2. t.kid[s][i] = Nil
      BY <1>3, <3>1 DEF Linked
    <3> QED BY <1>2, <2>2, <3>2 DEF Prunes
  <2> QED BY <2>1, <2>2
<1>6. Used(r) \subseteq S
  <2>1. r.root \in S
    BY <1>1, <1>2 DEF Prunes
  <2>2. Closed(r, S)
    BY <1>4 DEF Closed
  <2> QED BY <1>1, <2>1, <2>2, UsedLeast
<1>7. S \subseteq Used(r)
  <2> DEFINE R == Used(r)
             T == ((U \cap R) \ {p}) \cup {v} \cup (IF heir \in R THEN {p} ELSE {})
  <2>1. r.root # Nil /\ r.root \in R /\ Closed(r, R) /\ R \subseteq Node
    <3>1. r.root # Nil
      BY <1>1, <1>2 DEF Prunes
    <3> QED BY <3>1, UsedLeast
  <2>2. t.root \in T
    BY <1>1, <2>1 DEF Prunes
  <2>3. Closed(t, T)
    <3> SUFFICES ASSUME NEW s \in T \cap Split, NEW i \in 0 .. 1
                 PROVE  t.kid[s][i] \in T
      BY DEF Closed
    <3>1. CASE s = p
      BY <1>2, <1>3, <3>1
    <3>2. CASE s # p
      <4>1. s \in U \cap Split /\ s \in R
        BY <1>1, <3>2
      <4>2. /\ t.kid[s][i] \in U \ {v}
            /\ r.kid[s][i] = IF t.kid[s][i] = p THEN heir ELSE t.kid[s][i]
        BY <1>4, <3>2, <4>1
      <4>3. r.kid[s][i] \in R \cup {Nil}
        BY <2>1, <4>1 DEF Closed
      <4>4. Nil \notin U
        BY <1>1, DwindleConstants
      <4> QED BY <1>2, <4>2, <4>3, <4>4
    <3> QED BY <3>1, <3>2
  <2>4. T \in SUBSET Node
    BY <1>1, <1>2
  <2> HIDE DEF R
  <2>5. U \subseteq T
    <3> HIDE DEF T
    <3> QED BY <1>1, <2>2, <2>3, <2>4, UsedLeast
  <2> QED BY <2>5 DEF R
<1>8. Used(r) = S
  BY <1>6, <1>7
<1>9. r.up[r.root] = Nil
  <2>1. t.root \in Node /\ heir \in Node
    BY <1>1, <1>2
  <2>2. CASE p = t.root
    BY <1>1, <1>2, <2>1, <2>2 DEF Prunes
  <2>3. CASE p # t.root
    BY <1>1, <1>2, <2>1, <2>3 DEF Prunes
  <2> QED BY <2>2, <2>3
<1>10. ASSUME NEW s \in Split \cap S
       PROVE  /\ r.kid[s][0] # r.kid[s][1]
              /\ \A i \in 0 .. 1 : r.kid[s][i] # Nil /\ r.up[r.kid[s][i]] = s
  <2>1. s \in U \cap Split /\ s # p
    OBVIOUS
  <2>2. t.kid[s][0] # t.kid[s][1]
    BY <2>1 DEF Linked
  <2>3. ASSUME NEW i \in 0 .. 1, NEW k, k = t.kid[s][i]
        PROVE  /\ k \in U \ {v} /\ t.up[k] = s /\ k # heir
               /\ r.kid[s][i] = IF k = p THEN heir ELSE k
    BY <1>2, <1>4, <2>1, <2>3
  <2>4. r.kid[s][0] # r.kid[s][1]
    BY <2>2, <2>3
  <2>5. ASSUME NEW i \in 0 .. 1 PROVE r.kid[s][i] # Nil /\ r.up[r.kid[s][i]] = s
    <3> DEFINE k == t.kid[s][i]
    <3>1. k \in U \ {v} /\ t.up[k] = s /\ k # heir /\ r.kid[s][i] = IF k = p THEN heir ELSE k
      BY <2>3
    <3> HIDE DEF k
    <3>2. CASE k = p
      <4>1. heir \in Node
        BY <1>1, <1>2
      <4> QED BY <1>2, <3>1, <3>2, <4>1 DEF Prunes
    <3>3. CASE k # p
      <4>1. k \in Node /\ k # v /\ k # Nil
        BY <1>1, <3>1, DwindleConstants
      <4> QED BY <3>1, <3>3, <4>1 DEF Prunes
    <3> QED BY <3>2, <3>3
  <2> QED BY <2>4, <2>5
<1>11. ASSUME NEW m \in Node \ S PROVE r.up[m] = Nil
  <2>1. CASE m = p \/ m = v
    BY <2>1 DEF Prunes
  <2>2. CASE m # p /\ m # v
    <3>1. m \notin U
      BY <2>2
    <3>2. t.up[m] = Nil
      BY <3>1 DEF Linked
    <3> QED BY <1>2, <2>2, <3>1, <3>2 DEF Prunes
  <2> QED BY <2>1, <2>2
<1>12. \A s \in Split \ S : r.kid[s][0] = Nil /\ r.kid[s][1] = Nil
  BY <1>5
<1>13. heir \in S
  BY <1>2
<1> HIDE DEF S
<1> QED
  BY <1>8, <1>9, <1>10, <1>11, <1>12, <1>13 DEF Linked, S

(* A split's children exchanged. *)
Exchanges(r, t, p) ==
    /\ r.root = t.root /\ r.up = t.up
    /\ r.kid[p][0] = t.kid[p][1] /\ r.kid[p][1] = t.kid[p][0]
    /\ \A s \in Split \ {p} : r.kid[s] = t.kid[s]

(* That leaves the same nodes below each. *)
LEMMA Exchanged ==
    ASSUME NEW t, Linked(t), NEW p \in Split, NEW r, Shaped(r), Exchanges(r, t, p)
    PROVE  /\ Linked(r) /\ Used(r) = Used(t)
           /\ \A n \in Node : Below(r, n) = Below(t, n)
<1>1. \A i \in 0 .. 1 : i = 0 \/ i = 1
  OBVIOUS
<1>2. \A S \in SUBSET Node : Closed(r, S) <=> Closed(t, S)
  <2> TAKE S \in SUBSET Node
  <2>1. Closed(r, S) <=> \A s \in S \cap Split : /\ r.kid[s][0] \in S \cup {Nil}
                                                /\ r.kid[s][1] \in S \cup {Nil}
    BY <1>1 DEF Closed
  <2>2. Closed(t, S) <=> \A s \in S \cap Split : /\ t.kid[s][0] \in S \cup {Nil}
                                                /\ t.kid[s][1] \in S \cup {Nil}
    BY <1>1 DEF Closed
  <2>3. \A s \in Split : \/ r.kid[s][0] = t.kid[s][1] /\ r.kid[s][1] = t.kid[s][0]
                         \/ r.kid[s] = t.kid[s]
    BY DEF Exchanges
  <2> QED BY <2>1, <2>2, <2>3
<1>3. Used(r) = Used(t) /\ \A n \in Node : Below(r, n) = Below(t, n)
  BY <1>2, SameBelow DEF Linked, Exchanges
<1>4. ASSUME NEW s \in Split \cap Used(r)
      PROVE  /\ r.kid[s][0] # r.kid[s][1]
             /\ \A i \in 0 .. 1 : r.kid[s][i] # Nil /\ r.up[r.kid[s][i]] = s
  <2>1. /\ t.kid[s][0] # t.kid[s][1]
        /\ t.kid[s][0] # Nil /\ t.up[t.kid[s][0]] = s
        /\ t.kid[s][1] # Nil /\ t.up[t.kid[s][1]] = s
    BY <1>3 DEF Linked
  <2>2. r.up = t.up
    BY DEF Exchanges
  <2>3. \/ r.kid[s][0] = t.kid[s][1] /\ r.kid[s][1] = t.kid[s][0]
        \/ r.kid[s] = t.kid[s]
    BY DEF Exchanges
  <2> QED BY <1>1, <2>1, <2>2, <2>3
<1>5. ASSUME NEW s \in Split \ Used(r) PROVE r.kid[s][0] = Nil /\ r.kid[s][1] = Nil
  <2>1. t.kid[s][0] = Nil /\ t.kid[s][1] = Nil
    BY <1>3 DEF Linked
  <2> QED BY <2>1 DEF Exchanges
<1>6. /\ r.root # Nil => r.up[r.root] = Nil
      /\ \A n \in Node \ Used(r) : r.up[n] = Nil
  BY <1>3 DEF Linked, Exchanges
<1> QED
  BY <1>3, <1>4, <1>5, <1>6 DEF Linked

(* The child of the root that a leaf further down is below, and the other. *)
LEMMA AncestorOf ==
    ASSUME NEW t, Linked(t), NEW v \in View \cap Used(t),
           v # t.root, t.up[v] # t.root,
           NEW n, n = Ancestor(t, v), NEW other, other = Sibling(t, n)
    PROVE  /\ n \in Used(t) /\ n # t.root /\ t.up[n] = t.root /\ v \in Below(t, n)
           /\ v # n /\ t.up[v] \in Below(t, n)
           /\ t.root \in Split /\ other \in Used(t) /\ other # n /\ t.up[other] = t.root
           /\ \/ t.kid[t.root][0] = n /\ t.kid[t.root][1] = other
              \/ t.kid[t.root][0] = other /\ t.kid[t.root][1] = n
           /\ t.root \notin Below(t, n) /\ t.root \notin Below(t, other)
           /\ Below(t, n) \cap Below(t, other) = {}
           /\ Used(t) = {t.root} \cup Below(t, n) \cup Below(t, other)
<1> DEFINE root == t.root
<1>1. /\ root \in Used(t) /\ t.up[root] = Nil /\ v \in Below(t, root)
      /\ Used(t) = Below(t, root) /\ root \in Node
  BY RootParent, UsedLeast DEF Used, Linked
<1>2. root \in Split
  <2>1. root \notin View
    BY <1>1, BelowParts
  <2> QED BY <1>1, <2>1 DEF Node
<1>3. Used(t) = {root} \cup Below(t, t.kid[root][0]) \cup Below(t, t.kid[root][1])
  BY <1>1, <1>2, BelowParts
<1>4. \E k \in Used(t) : t.up[k] = root /\ v \in Below(t, k)
  <2>1. PICK i \in 0 .. 1 : v \in Below(t, t.kid[root][i])
    BY <1>3
  <2> QED BY <1>1, <1>2, <2>1, UsedDown
<1>5. n \in Used(t) /\ t.up[n] = root /\ v \in Below(t, n)
  BY <1>4 DEF Ancestor
<1>6. n # root
  BY <1>1, <1>2, <1>5, DwindleConstants DEF Node
<1>7. v # n
  BY <1>5
<1>8. t.up[v] \in Below(t, n)
  BY <1>5, <1>7, UsedUp
<1>9. /\ other \in Used(t) /\ other # n /\ t.up[other] = root
      /\ \/ t.kid[root][0] = n /\ t.kid[root][1] = other
         \/ t.kid[root][0] = other /\ t.kid[root][1] = n
      /\ root \notin Below(t, n) /\ root \notin Below(t, other)
      /\ Below(t, n) \cap Below(t, other) = {}
  BY <1>5, <1>6, LeafLinks
<1> QED
  BY <1>2, <1>3, <1>5, <1>6, <1>7, <1>8, <1>9

(* Leaf v and the node other, which is not above it, change places. *)
Trades(r, t, v, other) ==
    /\ r.root = t.root
    /\ \A m \in Node : r.up[m] = IF m = other THEN t.up[v]
                                 ELSE IF m = v THEN t.up[other] ELSE t.up[m]
    /\ \A s \in Split : \A i \in 0 .. 1 :
           r.kid[s][i] = IF t.kid[s][i] = v THEN other
                         ELSE IF t.kid[s][i] = other THEN v ELSE t.kid[s][i]

(* When other is the root's child that v is not below, that links the tree. *)
LEMMA TradeLinks ==
    ASSUME NEW t, Linked(t), NEW v \in View \cap Used(t),
           v # t.root, t.up[v] # t.root,
           NEW other, other = Sibling(t, Ancestor(t, v)),
           NEW r, Shaped(r), Trades(r, t, v, other)
    PROVE  Linked(r) /\ Used(r) = Used(t)
<1> DEFINE U == Used(t)
           n == Ancestor(t, v)
           p == t.up[v]
           root == t.root
           A == Below(t, n)
           O == Below(t, other)
<1>1. /\ n \in U /\ n # root /\ t.up[n] = root /\ v \in A /\ v # n /\ p \in A
      /\ root \in Split /\ other \in U /\ other # n /\ t.up[other] = root
      /\ \/ t.kid[root][0] = n /\ t.kid[root][1] = other
         \/ t.kid[root][0] = other /\ t.kid[root][1] = n
      /\ root \notin A /\ root \notin O /\ A \cap O = {}
      /\ U = {root} \cup A \cup O
  BY AncestorOf
<1> HIDE DEF n
<1>2. /\ U \subseteq Node /\ root \in U /\ t.up[root] = Nil /\ Nil \notin Node
      /\ p \in Split /\ p \in U
      /\ \E i \in 0 .. 1 : t.kid[p][i] = v
      /\ t.kid \in Kids
  BY UsedLeast, RootParent, DwindleConstants DEF Linked, Shaped
<1>3. other \in O /\ n \in A /\ v # other /\ Closed(t, A) /\ Closed(t, O)
  BY <1>1, UsedDown
<1>4. \A s \in U \cap Split : \A i \in 0 .. 1 :
          /\ t.kid[s][i] \in U /\ t.up[t.kid[s][i]] = s
          /\ r.kid[s][i] = IF t.kid[s][i] = v THEN other
                           ELSE IF t.kid[s][i] = other THEN v ELSE t.kid[s][i]
  BY UsedDown DEF Trades
<1>5. Used(r) \subseteq U
  <2>1. Closed(r, U)
    BY <1>1, <1>4 DEF Closed
  <2>2. r.root \in U
    BY <1>2 DEF Trades
  <2> QED BY <1>2, <2>1, <2>2, UsedLeast
<1>6. U \subseteq Used(r)
  <2> DEFINE R == Used(r)
  <2>1. root \in R /\ Closed(r, R) /\ R \subseteq Node
    <3>1. r.root = root /\ root # Nil
      BY <1>2 DEF Trades
    <3> QED BY <3>1, UsedLeast
  <2> HIDE DEF R
  <2>2. v \in R /\ n \in R
    <3>1. PICK i, j \in 0 .. 1 : t.kid[root][i] = n /\ t.kid[root][j] = other
      BY <1>1
    <3>2. r.kid[root][i] = n /\ r.kid[root][j] = v
      BY <1>1, <1>2, <1>3, <1>4, <3>1
    <3> QED BY <1>1, <1>2, <2>1, <3>2 DEF Closed
  <2>3. A \subseteq R
    <3> DEFINE T == A \cap R
    <3>1. Closed(t, T)
      <4> SUFFICES ASSUME NEW s \in T \cap Split, NEW i \in 0 .. 1
                   PROVE  t.kid[s][i] \in T
        BY DEF Closed
      <4>1. s \in U \cap Split
        BY <1>1
      <4>2. t.kid[s][i] \in A \cup {Nil} /\ t.kid[s][i] \in U
        BY <1>3, <1>4, <4>1 DEF Closed
      <4>3. t.kid[s][i] \in A
        BY <1>2, <4>2
      <4>4. t.kid[s][i] # other
        BY <1>1, <1>3, <4>3
      <4>5. r.kid[s][i] \in R \cup {Nil}
        BY <2>1 DEF Closed
      <4> QED BY <1>2, <1>4, <2>2, <4>1, <4>2, <4>3, <4>4, <4>5
    <3>2. n \in T /\ T \in SUBSET Node /\ n \in Node
      BY <1>1, <1>2, <1>3, <2>1, <2>2
    <3>3. Below(t, n) \subseteq T
      <4> HIDE DEF T
      <4> QED BY <1>2, <3>1, <3>2, BelowLeast
    <3> QED BY <3>3
  <2>4. other \in R
    <3>1. PICK i \in 0 .. 1 : t.kid[p][i] = v
      BY <1>2
    <3>2. r.kid[p][i] = other
      BY <1>2, <1>4, <3>1
    <3> QED BY <1>1, <1>2, <2>1, <2>3, <3>2 DEF Closed
  <2>5. O \subseteq R
    <3> DEFINE T == O \cap R
    <3>1. Closed(t, T)
      <4> SUFFICES ASSUME NEW s \in T \cap Split, NEW i \in 0 .. 1
                   PROVE  t.kid[s][i] \in T
        BY DEF Closed
      <4>1. s \in U \cap Split
        BY <1>1
      <4>2. t.kid[s][i] \in O \cup {Nil} /\ t.kid[s][i] \in U
        BY <1>3, <1>4, <4>1 DEF Closed
      <4>3. t.kid[s][i] \in O
        BY <1>2, <4>2
      <4>4. t.kid[s][i] # v
        BY <1>1, <4>3
      <4>5. t.kid[s][i] # other
        <5>1. t.up[t.kid[s][i]] = s /\ s # root
          BY <1>1, <1>4, <4>1
        <5> QED BY <1>1, <5>1
      <4>6. r.kid[s][i] \in R \cup {Nil}
        BY <2>1 DEF Closed
      <4> QED BY <1>2, <1>4, <4>1, <4>2, <4>3, <4>4, <4>5, <4>6
    <3>2. other \in T /\ T \in SUBSET Node /\ other \in Node
      BY <1>1, <1>2, <1>3, <2>1, <2>4
    <3>3. Below(t, other) \subseteq T
      <4> HIDE DEF T
      <4> QED BY <1>2, <3>1, <3>2, BelowLeast
    <3> QED BY <3>3
  <2> QED BY <1>1, <2>1, <2>3, <2>5 DEF R
<1>7. Used(r) = U
  BY <1>5, <1>6
<1>8. r.up[r.root] = Nil
  <2>1. root # other /\ root # v /\ root \in Node
    BY <1>1, <1>2, <1>3
  <2> QED BY <1>2, <2>1 DEF Trades
<1>9. ASSUME NEW s \in Split \cap U
      PROVE  /\ r.kid[s][0] # r.kid[s][1]
             /\ \A i \in 0 .. 1 : r.kid[s][i] # Nil /\ r.up[r.kid[s][i]] = s
  <2>1. t.kid[s][0] # t.kid[s][1]
    BY DEF Linked
  <2>2. r.kid[s][0] # r.kid[s][1]
    <3>1. 0 \in 0 .. 1 /\ 1 \in 0 .. 1
      OBVIOUS
    <3> QED BY <1>3, <1>4, <2>1, <3>1
  <2>3. ASSUME NEW i \in 0 .. 1 PROVE r.kid[s][i] # Nil /\ r.up[r.kid[s][i]] = s
    <3> DEFINE k == t.kid[s][i]
    <3>1. k \in U /\ t.up[k] = s
          /\ r.kid[s][i] = IF k = v THEN other ELSE IF k = other THEN v ELSE k
      BY <1>4
    <3> HIDE DEF k
    <3>2. v \in Node /\ other \in Node /\ k \in Node
      BY <1>1, <1>2, <3>1
    <3> QED BY <1>2, <1>3, <3>1, <3>2 DEF Trades
  <2> QED BY <2>2, <2>3
<1>10. ASSUME NEW s \in Split \ U PROVE r.kid[s][0] = Nil /\ r.kid[s][1] = Nil
  <2>1. t.kid[s][0] = Nil /\ t.kid[s][1] = Nil
    BY DEF Linked
  <2>2. v # Nil /\ other # Nil
    BY <1>1, <1>2
  <2>3. 0 \in 0 .. 1 /\ 1 \in 0 .. 1
    OBVIOUS
  <2> QED BY <2>1, <2>2, <2>3 DEF Trades
<1>11. ASSUME NEW m \in Node \ U PROVE r.up[m] = Nil
  <2>1. t.up[m] = Nil /\ m # v /\ m # other
    BY <1>1 DEF Linked
  <2> QED BY <2>1 DEF Trades
<1> QED
  BY <1>7, <1>8, <1>9, <1>10, <1>11 DEF Linked

-----------------------------------------------------------------------------
(* Trees that are sound: typed, linked, and with one split fewer than leaves *)

Counted(t) ==
    t.root # Nil =>
        Cardinality(LeafViews(t)) = Cardinality(Used(t) \cap Split) + 1

Sound(t) == t \in TreeState /\ Linked(t) /\ Counted(t)

(* The fields of a tree, and a tree of given fields. *)
Ups == [Node -> Split \cup {Nil}]
Ratios == [Split -> 1 .. 19]
Boxes == [Node -> Box]
Geos == [View -> Box \cup {Elsewhere, Column, Whole}]
Made(root, up, kid, top, ratio, box, geo) ==
    [root |-> root, up |-> up, kid |-> kid, top |-> top, ratio |-> ratio,
     box |-> box, geo |-> geo]

(* Fields of their types make a tree, and a tree is made of its fields. *)
LEMMA TreeMade ==
    /\ \A root \in MaybeNode, up \in Ups, kid \in Kids, top \in Tops,
          ratio \in Ratios, box \in Boxes, geo \in Geos :
           Made(root, up, kid, top, ratio, box, geo) \in TreeState
    /\ \A t \in TreeState :
           /\ t.root \in MaybeNode /\ t.up \in Ups /\ t.kid \in Kids /\ t.top \in Tops
           /\ t.ratio \in Ratios /\ t.box \in Boxes /\ t.geo \in Geos
           /\ t = Made(t.root, t.up, t.kid, t.top, t.ratio, t.box, t.geo)
           /\ Shaped(t)
<1>1. TreeState = [root : MaybeNode, up : Ups, kid : Kids, top : Tops,
                   ratio : Ratios, box : Boxes, geo : Geos]
  BY DEF TreeState, Kids, Tops, Ups, Ratios, Boxes, Geos
<1>2. \A t \in TreeState : t.root \in MaybeNode /\ t.up \in Ups /\ t.kid \in Kids
  BY <1>1
<1>3. \A t \in TreeState : Shaped(t)
  BY <1>2 DEF Shaped, Ups
<1> QED
  BY <1>1, <1>3 DEF Made

(* The least of some splits is one of them. *)
LEMMA LeastSplit ==
    ASSUME NEW S \in SUBSET Split, S # {}
    PROVE  (CHOOSE s \in S : \A other \in S : s <= other) \in S
<1> DEFINE F == {1 .. k : k \in S}
<1>1. \A s \in Split : s \in Int /\ s >= 1
  BY FinitelyManyNodes DEF Split
<1>2. F \in SUBSET SUBSET Split /\ F # {}
  <2>1. \A k \in S : 1 .. k \in SUBSET Split
    BY FinitelyManyNodes DEF Split
  <2> QED BY <2>1
<1>3. PICK x \in F : \A y \in F : y \subseteq x => y = x
  <2> HIDE DEF F
  <2> QED BY <1>2, FinitelyManyNodes, LeastSet
<1>4. PICK s \in S : x = 1 .. s
  BY <1>3
<1>5. \A other \in S : s <= other
  <2> SUFFICES ASSUME NEW other \in S, other < s PROVE FALSE
    BY <1>1
  <2>1. 1 .. other \in F /\ 1 .. other \subseteq x
    BY <1>1, <1>4
  <2>2. 1 .. other = 1 .. s
    BY <1>3, <1>4, <2>1
  <2>3. s \in 1 .. s /\ s \notin 1 .. other
    BY <1>1
  <2> QED BY <2>2, <2>3
<1> QED
  BY <1>5

(* While a view has no leaf a split is free. *)
LEMMA FreeSplit ==
    ASSUME NEW t, Sound(t), NEW v \in View, v \notin Used(t), t.root # Nil
    PROVE  Split \ Used(t) # {}
<1> DEFINE L == LeafViews(t)
           W == Used(t) \cap Split
<1>1. L \in SUBSET (View \ {v}) /\ W \in SUBSET Split
  BY DEF LeafViews
<1>2. IsFiniteSet(View)
  BY DwindleConstants
<1>3. /\ IsFiniteSet(View \ {v})
      /\ Cardinality(View \ {v}) = Cardinality(View) - 1
  BY <1>2, FS_RemoveElement
<1>4. Cardinality(L) = Cardinality(W) + 1
  BY DEF Sound, Counted
<1> HIDE DEF L, W
<1>5. /\ Cardinality(L) <= Cardinality(View) - 1
      /\ IsFiniteSet(W) /\ Cardinality(W) \in Nat
  BY <1>1, <1>3, FinitelyManyNodes, FS_Subset, FS_CardinalityType
<1>6. Cardinality(W) # Cardinality(Split)
  BY <1>4, <1>5, FinitelyManyNodes
<1> QED
  BY <1>1, <1>6 DEF W

(* A new leaf and a new split keep the count, and so does taking both away. *)
LEMMA CountMoves ==
    ASSUME NEW t, NEW r, Shaped(t), Shaped(r), NEW v \in View, NEW p \in Split,
           v \notin Used(t), p \notin Used(t), Used(r) = Used(t) \cup {v, p}
    PROVE  /\ LeafViews(r) = LeafViews(t) \cup {v}
           /\ t.root # Nil /\ Counted(t) => Counted(r)
           /\ r.root # Nil /\ Counted(r) => Counted(t)
<1> DEFINE L == LeafViews(t)
           W == Used(t) \cap Split
<1>1. /\ LeafViews(r) = L \cup {v} /\ v \notin L
      /\ Used(r) \cap Split = W \cup {p} /\ p \notin W
  BY DwindleConstants DEF LeafViews
<1>2. L \in SUBSET View /\ W \in SUBSET Split /\ IsFiniteSet(View)
  BY DwindleConstants DEF LeafViews
<1> HIDE DEF L, W
<1>3. IsFiniteSet(L) /\ IsFiniteSet(W)
  BY <1>2, FinitelyManyNodes, FS_Subset
<1>4. /\ Cardinality(L \cup {v}) = Cardinality(L) + 1
      /\ Cardinality(W \cup {p}) = Cardinality(W) + 1
      /\ Cardinality(L) \in Nat /\ Cardinality(W) \in Nat
  BY <1>1, <1>3, FS_AddElement, FS_CardinalityType
<1> QED
  <2>1. Counted(t) <=> (t.root # Nil => Cardinality(L) = Cardinality(W) + 1)
    BY DEF Counted, L, W
  <2>2. Counted(r) <=> (r.root # Nil =>
                            Cardinality(L \cup {v}) = Cardinality(W \cup {p}) + 1)
    BY <1>1 DEF Counted
  <2>3. LeafViews(r) = LeafViews(t) \cup {v}
    BY <1>1 DEF L
  <2> QED BY <1>4, <2>1, <2>2, <2>3

(* The empty tree is sound. *)
LEMMA EmptySound ==
    ASSUME NEW geo \in Geos
    PROVE  Sound(Empty(geo)) /\ Used(Empty(geo)) = {} /\ Empty(geo).root = Nil
<1> DEFINE t == Empty(geo)
           up == [n \in Node |-> Nil]
           kid == [s \in Split |-> Childless]
           top == [s \in Split |-> FALSE]
           ratio == [s \in Split |-> 10]
           box == [n \in Node |-> NoBox]
<1>1. up \in Ups /\ kid \in Kids /\ top \in Tops /\ ratio \in Ratios /\ box \in Boxes
  BY DEF Ups, Kids, Tops, Ratios, Boxes, Childless, MaybeNode, NoBox, Box
<1>2. t = Made(Nil, up, kid, top, ratio, box, geo)
  BY DEF Empty, Made
<1>3. t \in TreeState
  <2> HIDE DEF up, kid, top, ratio, box, t
  <2>1. Nil \in MaybeNode
    BY DEF MaybeNode
  <2> QED BY <1>1, <1>2, <2>1, TreeMade
<1>4. t.root = Nil /\ t.up = up /\ t.kid = kid
  BY DEF Empty
<1>5. Shaped(t)
  <2> HIDE DEF t
  <2> QED BY <1>3, TreeMade
<1>6. Used(t) = {}
  <2> HIDE DEF t
  <2> QED BY <1>4, <1>5, UsedLeast
<1>7. Linked(t)
  <2>1. \A s \in Split : t.kid[s][0] = Nil /\ t.kid[s][1] = Nil
    BY <1>4 DEF Childless
  <2>2. \A n \in Node : t.up[n] = Nil
    BY <1>4
  <2> HIDE DEF t
  <2> QED BY <1>4, <1>5, <1>6, <2>1, <2>2 DEF Linked
<1> HIDE DEF t
<1>8. Counted(t)
  BY <1>4 DEF Counted
<1> QED
  BY <1>3, <1>4, <1>6, <1>7, <1>8 DEF Sound, t

(* What insertLeaf has linked before its recalc. *)
Inserted(r, t, on, v, p) ==
    /\ Grafts(r, t, on, v, p)
    /\ r.box = [t.box EXCEPT ![p] = t.box[on]]
    /\ r.geo = t.geo
    /\ \A s \in Split \ {p} : r.top[s] = t.top[s] /\ r.ratio[s] = t.ratio[s]

(* insertLeaf splits a leaf's box between it and the new one, and recalculates
   that split.                                                               *)
LEMMA InsertSplits ==
    ASSUME NEW t, Sound(t), t.root # Nil, NEW v \in View, v \notin Used(t),
           NEW a, NEW focused, NEW cursor,
           NEW on, on = OpeningOn(t, focused)
    PROVE  /\ on \in LeafViews(t)
           /\ \E p \in Split \ Used(t) : \E r \in TreeState :
                  /\ Inserted(r, t, on, v, p)
                  /\ InsertLeaf(t, v, a, focused, cursor) = Recalc(r, p)
<1>1. t \in TreeState /\ Linked(t) /\ t.root \in Used(t) /\ Used(t) \subseteq Node
  BY UsedLeast DEF Sound, Linked
<1>2. LeafViews(t) # {}
  <2>1. Used(t) \in SUBSET Used(t) /\ Used(t) # {}
    BY <1>1
  <2>2. \A s \in Used(t) \cap Split : \E i \in 0 .. 1 : t.kid[s][i] \in Used(t)
    BY <1>1, UsedDown
  <2>3. Used(t) \cap View # {}
    BY <1>1, <2>1, <2>2, Descent
  <2> QED BY <2>3 DEF LeafViews
<1>3. on \in LeafViews(t)
  BY <1>1, <1>2, FirstIsOne DEF OpeningOn
<1>4. on \in Used(t) /\ on \in View /\ on \in Node /\ on # v
  BY <1>1, <1>3 DEF LeafViews
<1> DEFINE free == Split \ Used(t)
           p == CHOOSE s \in free : \A other \in free : s <= other
<1>5. p \in free
  <2>1. free \in SUBSET Split /\ free # {}
    BY FreeSplit
  <2> HIDE DEF free
  <2> QED BY <2>1, LeastSplit
<1> DEFINE b == t.box[on]
           q == t.up[on]
           side_by_side == b.w > b.h
           first == IF side_by_side THEN 2 * cursor.x < 2 * b.x + b.w
                                    ELSE 2 * cursor.y < 2 * b.y + b.h
           pair == [i \in 0 .. 1 |-> IF (i = 0) = first THEN v ELSE on]
           up == [t.up EXCEPT ![p] = q, ![on] = p, ![v] = p]
           kid == [t.kid EXCEPT ![p] = pair]
           top == [t.top EXCEPT ![p] = ~side_by_side]
           ratio == [t.ratio EXCEPT ![p] = 10]
           box == [t.box EXCEPT ![p] = b]
           t1 == [t EXCEPT !.up = up, !.kid[p] = pair, !.top[p] = ~side_by_side,
                           !.ratio[p] = 10, !.box[p] = b]
           r == Rehome(t1, q, on, p)
<1>6. InsertLeaf(t, v, a, focused, cursor) = Recalc(r, p)
  BY DEF InsertLeaf
<1> HIDE DEF p, free
<1>7. p \in Split /\ p \in Node /\ p \notin Used(t) /\ p # on
  BY <1>4, <1>5 DEF free, Node
<1>8. /\ t.root \in MaybeNode /\ t.up \in Ups /\ t.kid \in Kids /\ t.top \in Tops
      /\ t.ratio \in Ratios /\ t.box \in Boxes /\ t.geo \in Geos
      /\ t = Made(t.root, t.up, t.kid, t.top, t.ratio, t.box, t.geo)
  BY <1>1, TreeMade
<1>9. t1 = Made(t.root, up, kid, top, ratio, box, t.geo)
  <2> DEFINE stacked == ~side_by_side
  <2>1. t1 = [t EXCEPT !.up = up, !.kid = kid, !.top = [t.top EXCEPT ![p] = stacked],
                       !.ratio = ratio, !.box = box]
    BY DEF stacked
  <2>2. top = [t.top EXCEPT ![p] = stacked]
    BY DEF stacked
  <2> HIDE DEF up, kid, top, ratio, box, t1
  <2> QED BY <1>8, <2>1, <2>2 DEF Made
<1>10. pair \in [0 .. 1 -> MaybeNode] /\ (\/ pair[0] = v /\ pair[1] = on
                                          \/ pair[0] = on /\ pair[1] = v)
  <2>1. v \in MaybeNode /\ on \in MaybeNode
    BY <1>4 DEF MaybeNode, Node
  <2>2. first \in BOOLEAN
    <3>1. CASE side_by_side
      <4>1. first = (2 * cursor.x < 2 * b.x + b.w)
        BY <3>1
      <4>2. (2 * cursor.x < 2 * b.x + b.w) \in BOOLEAN
        OBVIOUS
      <4> QED BY <4>1, <4>2
    <3>2. CASE ~side_by_side
      <4>1. first = (2 * cursor.y < 2 * b.y + b.h)
        BY <3>2
      <4>2. (2 * cursor.y < 2 * b.y + b.h) \in BOOLEAN
        OBVIOUS
      <4> QED BY <4>1, <4>2
    <3> QED BY <3>1, <3>2
  <2> HIDE DEF first
  <2> QED BY <2>1, <2>2
<1>11. up \in Ups /\ kid \in Kids /\ ratio \in Ratios /\ box \in Boxes
  <2>1. up \in Ups
    BY <1>4, <1>7, <1>8 DEF Ups, Node
  <2>2. kid \in Kids
    BY <1>7, <1>8, <1>10 DEF Kids
  <2>3. ratio \in Ratios
    BY <1>7, <1>8 DEF Ratios
  <2>4. box \in Boxes
    BY <1>4, <1>7, <1>8 DEF Boxes
  <2> QED BY <2>1, <2>2, <2>3, <2>4
<1>12. top \in Tops
  <2> HIDE DEF side_by_side
  <2>1. (~side_by_side) \in BOOLEAN
    OBVIOUS
  <2> QED BY <1>7, <1>8, <2>1 DEF Tops
<1>13. /\ up[p] = q /\ up[on] = p /\ up[v] = p
       /\ \A m \in Node : m # p /\ m # on /\ m # v => up[m] = t.up[m]
       /\ v # p
  <2>1. v \in Node /\ v # p
    BY <1>7, DwindleConstants DEF Node
  <2> QED BY <1>4, <1>7, <1>8, <2>1 DEF Ups
<1>14. /\ box = [t.box EXCEPT ![p] = t.box[on]]
       /\ \A s \in Split \ {p} : top[s] = t.top[s] /\ ratio[s] = t.ratio[s]
  BY <1>8 DEF Tops, Ratios
<1>15. /\ kid[p] = pair
       /\ \A s \in Split \ {p} : kid[s] = t.kid[s]
  BY <1>7, <1>8 DEF Kids
<1>16. \A s \in Split, i \in 0 .. 1 :
           t.kid[s][i] = on => s \in Used(t) /\ t.up[on] = s
  <2> SUFFICES ASSUME NEW s \in Split, NEW i \in 0 .. 1, t.kid[s][i] = on
               PROVE  s \in Used(t) /\ t.up[on] = s
    OBVIOUS
  <2>1. s \in Used(t)
    <3>1. i = 0 \/ i = 1
      OBVIOUS
    <3>2. on # Nil
      BY <1>4, DwindleConstants, SMTT(30)
    <3> QED BY <1>1, <3>1, <3>2 DEF Linked
  <2> QED BY <1>1, <2>1, UsedDown
<1> HIDE DEF up, kid, top, ratio, box, b, pair
<1>17. CASE on = t.root
  <2>1. q = Nil
    BY <1>1, <1>4, <1>17, RootParent
  <2>2. r = Made(p, up, kid, top, ratio, box, t.geo)
    <3>1. r = [t1 EXCEPT !.root = p]
      BY <2>1 DEF Rehome
    <3> HIDE DEF t1, r
    <3> QED BY <1>9, <3>1 DEF Made
  <2> HIDE DEF t1, r
  <2>3. r \in TreeState
    BY <1>7, <1>8, <1>11, <1>12, <2>2, TreeMade DEF MaybeNode
  <2>4. /\ r.root = p /\ r.up = up /\ r.kid = kid /\ r.top = top
        /\ r.ratio = ratio /\ r.box = box /\ r.geo = t.geo
    BY <2>2 DEF Made
  <2>5. \A s \in Split \ {p} : \A i \in 0 .. 1 : t.kid[s][i] # on
    BY <1>7, <1>16, <2>1, DwindleConstants DEF Node
  <2>6. Grafts(r, t, on, v, p)
    BY <1>10, <1>13, <1>15, <1>17, <2>4, <2>5 DEF Grafts
  <2>7. Inserted(r, t, on, v, p)
    BY <1>14, <2>4, <2>6 DEF Inserted
  <2> QED BY <1>3, <1>5, <1>6, <2>3, <2>7 DEF free, r, t1, b, pair, up
<1>18. CASE on # t.root
  <2> DEFINE j == IF kid[q][0] = on THEN 0 ELSE 1
             kid2 == [kid EXCEPT ![q] = [kid[q] EXCEPT ![j] = p]]
  <2>1. q \in Split /\ q \in Used(t) /\ q # p /\ q # Nil /\ kid[q] = t.kid[q]
    BY <1>1, <1>4, <1>7, <1>15, <1>18, RootParent, DwindleConstants DEF Node
  <2>2. r = Made(t.root, up, kid2, top, ratio, box, t.geo)
    <3>1. t1.kid = kid
      <4> HIDE DEF t1
      <4> QED BY <1>9 DEF Made
    <3>2. r = [t1 EXCEPT !.kid[q][IF kid[q][0] = on THEN 0 ELSE 1] = p]
      BY <2>1, <3>1 DEF Rehome
    <3>3. r = [t1 EXCEPT !.kid = kid2]
      BY <3>1, <3>2
    <3> HIDE DEF t1, r, kid2
    <3> QED BY <1>9, <3>3 DEF Made
  <2> HIDE DEF t1, r
  <2>3. /\ kid2 \in Kids
        /\ \A s \in Split \ {q} : kid2[s] = kid[s]
        /\ \A i \in 0 .. 1 : kid2[q][i] = IF i = j THEN p ELSE t.kid[q][i]
    <3>1. kid[q] \in [0 .. 1 -> MaybeNode] /\ p \in MaybeNode
      BY <1>7, <1>11, <2>1 DEF Kids, MaybeNode
    <3>2. [kid[q] EXCEPT ![j] = p] \in [0 .. 1 -> MaybeNode]
      BY <3>1
    <3> QED BY <1>11, <2>1, <3>1, <3>2 DEF Kids
  <2>4. r \in TreeState
    BY <1>8, <1>11, <1>12, <2>2, <2>3, TreeMade
  <2>5. /\ r.root = t.root /\ r.up = up /\ r.kid = kid2 /\ r.top = top
        /\ r.ratio = ratio /\ r.box = box /\ r.geo = t.geo
    BY <2>2 DEF Made
  <2>6. \A i \in 0 .. 1 : t.kid[q][i] = on <=> i = j
    <3>1. t.kid[q][0] # t.kid[q][1] /\ (t.kid[q][0] = on \/ t.kid[q][1] = on)
      <4>1. t.kid[q][0] # t.kid[q][1]
        BY <1>1, <2>1 DEF Linked
      <4>2. PICK i \in 0 .. 1 : t.kid[q][i] = on
        BY <1>1, <1>4, <1>18, RootParent
      <4> QED BY <4>1, <4>2
    <3> QED BY <2>1, <3>1
  <2> HIDE DEF kid2, j
  <2>7. ASSUME NEW s \in Split \ {p}, NEW i \in 0 .. 1
        PROVE  r.kid[s][i] = IF t.kid[s][i] = on THEN p ELSE t.kid[s][i]
    <3>1. CASE s = q
      BY <2>3, <2>5, <2>6, <3>1
    <3>2. CASE s # q
      <4>1. t.kid[s][i] # on
        BY <1>16, <3>2
      <4> QED BY <1>15, <2>3, <2>5, <3>2, <4>1
    <3> QED BY <3>1, <3>2
  <2>8. r.kid[p] = pair
    BY <1>7, <1>15, <2>1, <2>3, <2>5
  <2>9. Grafts(r, t, on, v, p)
    BY <1>10, <1>13, <1>18, <2>5, <2>7, <2>8 DEF Grafts
  <2>10. Inserted(r, t, on, v, p)
    BY <1>14, <2>5, <2>9 DEF Inserted
  <2> QED BY <1>3, <1>5, <1>6, <2>4, <2>10 DEF free, r, t1, b, pair, up
<1> QED
  BY <1>17, <1>18

(* A box at the origin. *)
LEMMA CornerBox == \A a \in Area : Corner(a) \in Box
  BY DwindleConstants DEF Corner, Box

(* A recalculated tree is as sound as it was. *)
LEMMA RecalcSound ==
    ASSUME NEW t, Sound(t), NEW n \in Used(t), NEW r, r = Recalc(t, n)
    PROVE  Sound(r) /\ SameLinks(r, t) /\ Used(r) = Used(t) /\ LeafViews(r) = LeafViews(t)
<1>1. t \in TreeState /\ Linked(t) /\ Counted(t)
  BY DEF Sound
<1>2. r \in TreeState /\ SameLinks(r, t)
  BY <1>1, RecalcEffect
<1>3. Linked(r) /\ Used(r) = Used(t) /\ LeafViews(r) = LeafViews(t)
  BY <1>1, <1>2, LinksOnly
<1>4. Counted(r)
  BY <1>1, <1>2, <1>3 DEF Counted, SameLinks
<1> QED
  BY <1>2, <1>3, <1>4 DEF Sound

(* The first leaf is the whole tree. *)
Planted(t, v, a) == [t EXCEPT !.root = v, !.box[v] = Corner(a)]

(* It makes a sound tree. *)
LEMMA FirstLeaf ==
    ASSUME NEW t, Sound(t), t.root = Nil, NEW v \in View, NEW a \in Area,
           NEW r, r = Planted(t, v, a)
    PROVE  Sound(r) /\ Used(r) = {v} /\ LeafViews(r) = {v}
<1> DEFINE box == [t.box EXCEPT ![v] = Corner(a)]
<1>1. /\ t.root \in MaybeNode /\ t.up \in Ups /\ t.kid \in Kids /\ t.top \in Tops
      /\ t.ratio \in Ratios /\ t.box \in Boxes /\ t.geo \in Geos
      /\ t = Made(t.root, t.up, t.kid, t.top, t.ratio, t.box, t.geo)
      /\ Linked(t) /\ Shaped(t)
  BY TreeMade DEF Sound
<1>2. v \in Node /\ v \in MaybeNode /\ v \notin Split /\ v # Nil
  BY DwindleConstants DEF Node, MaybeNode
<1>3. box \in Boxes
  BY <1>1, <1>2, CornerBox DEF Boxes
<1>4. r = Made(v, t.up, t.kid, t.top, t.ratio, box, t.geo)
  <2>1. r = [t EXCEPT !.root = v, !.box = box]
    BY DEF Planted
  <2> HIDE DEF box
  <2> QED BY <1>1, <2>1 DEF Made
<1> HIDE DEF box
<1>5. r \in TreeState /\ r.root = v /\ r.kid = t.kid /\ r.up = t.up
  <2>1. r \in TreeState
    BY <1>1, <1>2, <1>3, <1>4, TreeMade
  <2> QED BY <1>4, <2>1 DEF Made
<1>6. Shaped(r)
  BY <1>5, TreeMade
<1>7. Used(r) = {v}
  <2>1. {v} \in SUBSET Node /\ r.root \in {v} /\ Closed(r, {v})
    BY <1>2, <1>5 DEF Closed
  <2>2. v \in Used(r)
    BY <1>2, <1>5, <1>6, UsedLeast
  <2>3. \A S \in SUBSET Node : r.root \in S /\ Closed(r, S) => Used(r) \subseteq S
    BY <1>6, UsedLeast
  <2>4. Used(r) \subseteq {v}
    BY <2>1, <2>3
  <2> QED BY <2>2, <2>4
<1>8. Used(t) = {}
  BY <1>1, UsedLeast
<1>9. Linked(r)
  <2>1. \A s \in Split : t.kid[s][0] = Nil /\ t.kid[s][1] = Nil
    BY <1>1, <1>8 DEF Linked
  <2>2. \A n \in Node : t.up[n] = Nil
    BY <1>1, <1>8 DEF Linked
  <2> QED BY <1>2, <1>5, <1>6, <1>7, <2>1, <2>2 DEF Linked
<1>10. LeafViews(r) = {v} /\ Used(r) \cap Split = {}
  BY <1>2, <1>7 DEF LeafViews
<1>11. Counted(r)
  <2>1. Cardinality({v}) = 1 /\ Cardinality({}) = 0
    BY FS_Singleton, FS_EmptySet
  <2> QED BY <1>10, <2>1 DEF Counted
<1> QED
  BY <1>5, <1>7, <1>9, <1>10, <1>11 DEF Sound

(* insertLeaf gives a view without a leaf one, and takes none away. *)
LEMMA InsertSound ==
    ASSUME NEW t, Sound(t), NEW v \in View, v \notin Used(t), NEW a \in Area,
           NEW focused, NEW cursor, NEW r, r = InsertLeaf(t, v, a, focused, cursor)
    PROVE  Sound(r) /\ LeafViews(r) = LeafViews(t) \cup {v}
<1>1. CASE t.root = Nil
  <2>1. r = Planted(t, v, a)
    BY <1>1 DEF InsertLeaf, Planted
  <2>2. Used(t) = {}
    BY <1>1, UsedLeast DEF Sound, Linked
  <2>3. LeafViews(t) = {}
    BY <2>2 DEF LeafViews
  <2> QED BY <1>1, <2>1, <2>3, FirstLeaf
<1>2. CASE t.root # Nil
  <2> DEFINE on == OpeningOn(t, focused)
  <2>1. PICK p \in Split \ Used(t) : \E u \in TreeState :
                  /\ Inserted(u, t, on, v, p)
                  /\ InsertLeaf(t, v, a, focused, cursor) = Recalc(u, p)
    BY <1>2, InsertSplits
  <2>2. PICK u \in TreeState : Inserted(u, t, on, v, p) /\ r = Recalc(u, p)
    BY <2>1
  <2>3. on \in LeafViews(t)
    BY <1>2, InsertSplits
  <2> HIDE DEF on
  <2>4. Linked(t) /\ Counted(t) /\ Shaped(t) /\ Shaped(u) /\ on \in Used(t)
        /\ Grafts(u, t, on, v, p)
    BY <2>2, <2>3, TreeMade DEF Sound, Inserted, LeafViews
  <2>5. Linked(u) /\ Used(u) = Used(t) \cup {p, v}
    BY <2>4, Grafted
  <2>6. LeafViews(u) = LeafViews(t) \cup {v} /\ Counted(u)
    <3>1. Used(u) = Used(t) \cup {v, p}
      BY <2>5
    <3> QED BY <1>2, <2>1, <2>4, <3>1, CountMoves
  <2>7. Sound(u) /\ p \in Used(u)
    BY <2>2, <2>5, <2>6 DEF Sound
  <2> QED BY <2>2, <2>6, <2>7, RecalcSound
<1> QED
  BY <1>1, <1>2

(* What removeLeaf has unlinked before its recalc. *)
Removed(r, t, v, p, heir) ==
    /\ Prunes(r, t, v, p, heir)
    /\ r.box[heir] = t.box[p]
    /\ \A m \in Node \ {v, p, heir} : r.box[m] = t.box[m]
    /\ r.geo = t.geo
    /\ \A s \in Split \ {p} : r.top[s] = t.top[s] /\ r.ratio[s] = t.ratio[s]

(* removeLeaf gives the sibling of the leaf their parent's box, and recalculates
   the sibling.                                                              *)
LEMMA RemoveUnlinks ==
    ASSUME NEW t, Sound(t), NEW v \in LeafViews(t), v # t.root,
           NEW p, p = t.up[v], NEW heir, heir = Sibling(t, v)
    PROVE  \E r \in TreeState : Removed(r, t, v, p, heir) /\ RemoveLeaf(t, v) = Recalc(r, heir)
<1>1. t \in TreeState /\ Linked(t) /\ v \in Used(t) /\ v \in View /\ Used(t) \subseteq Node
  BY UsedLeast DEF Sound, Linked, LeafViews
<1>2. /\ p \in Split /\ p \in Used(t) /\ v # p
      /\ heir \in Used(t) /\ heir # v /\ heir # p /\ t.up[heir] = p
  BY <1>1, LeafLinks
<1>3. v \in Node /\ p \in Node /\ heir \in Node /\ heir \in MaybeNode /\ p # Nil
  BY <1>1, <1>2, DwindleConstants DEF Node, MaybeNode
<1> DEFINE q == t.up[p]
           up == [t.up EXCEPT ![heir] = q, ![v] = Nil, ![p] = Nil]
           kid == [t.kid EXCEPT ![p] = Childless]
           top == [t.top EXCEPT ![p] = FALSE]
           ratio == [t.ratio EXCEPT ![p] = 10]
           box == [t.box EXCEPT ![heir] = t.box[p], ![v] = NoBox, ![p] = NoBox]
           t1 == [t EXCEPT !.up = up, !.box = box, !.kid[p] = Childless,
                           !.top[p] = FALSE, !.ratio[p] = 10]
           r == Rehome(t1, q, p, heir)
<1>4. RemoveLeaf(t, v) = Recalc(r, heir)
  BY <1>3 DEF RemoveLeaf
<1>5. /\ t.root \in MaybeNode /\ t.up \in Ups /\ t.kid \in Kids /\ t.top \in Tops
      /\ t.ratio \in Ratios /\ t.box \in Boxes /\ t.geo \in Geos
      /\ t = Made(t.root, t.up, t.kid, t.top, t.ratio, t.box, t.geo)
  BY <1>1, TreeMade
<1>6. t1 = Made(t.root, up, kid, top, ratio, box, t.geo)
  <2>1. t1 = [t EXCEPT !.up = up, !.box = box, !.kid = kid, !.top = top, !.ratio = ratio]
    OBVIOUS
  <2> HIDE DEF up, kid, top, ratio, box, t1
  <2> QED BY <1>5, <2>1 DEF Made
<1>7. Childless \in [0 .. 1 -> MaybeNode] /\ NoBox \in Box
  BY DEF Childless, MaybeNode, NoBox, Box
<1>8. up \in Ups /\ kid \in Kids /\ ratio \in Ratios /\ box \in Boxes /\ top \in Tops
  <2>1. up \in Ups
    BY <1>2, <1>3, <1>5 DEF Ups
  <2>2. kid \in Kids
    BY <1>2, <1>5, <1>7 DEF Kids
  <2>3. ratio \in Ratios
    BY <1>2, <1>5 DEF Ratios
  <2>4. box \in Boxes
    BY <1>3, <1>5, <1>7 DEF Boxes
  <2>5. top \in Tops
    BY <1>2, <1>5 DEF Tops
  <2> QED BY <2>1, <2>2, <2>3, <2>4, <2>5
<1>9. \A m \in Node : up[m] = IF m = p \/ m = v THEN Nil
                              ELSE IF m = heir THEN t.up[p] ELSE t.up[m]
  BY <1>2, <1>3, <1>5 DEF Ups
<1>10. /\ box[heir] = t.box[p]
       /\ \A m \in Node \ {v, p, heir} : box[m] = t.box[m]
       /\ \A s \in Split \ {p} : top[s] = t.top[s] /\ ratio[s] = t.ratio[s]
  <2>1. box[heir] = t.box[p] /\ \A m \in Node \ {v, p, heir} : box[m] = t.box[m]
    BY <1>2, <1>3, <1>5 DEF Boxes
  <2>2. \A s \in Split \ {p} : top[s] = t.top[s] /\ ratio[s] = t.ratio[s]
    BY <1>2, <1>5 DEF Tops, Ratios
  <2> QED BY <2>1, <2>2
<1>11. /\ kid[p][0] = Nil /\ kid[p][1] = Nil
       /\ \A s \in Split \ {p} : kid[s] = t.kid[s]
  BY <1>2, <1>5 DEF Kids, Childless
<1>12. \A s \in Split, i \in 0 .. 1 :
           t.kid[s][i] = p => s \in Used(t) /\ t.up[p] = s
  <2> SUFFICES ASSUME NEW s \in Split, NEW i \in 0 .. 1, t.kid[s][i] = p
               PROVE  s \in Used(t) /\ t.up[p] = s
    OBVIOUS
  <2>1. s \in Used(t)
    <3>1. i = 0 \/ i = 1
      OBVIOUS
    <3> QED BY <1>1, <1>3, <3>1 DEF Linked
  <2> QED BY <1>1, <2>1, UsedDown
<1> HIDE DEF up, kid, top, ratio, box
<1>13. CASE p = t.root
  <2>1. q = Nil
    BY <1>1, <1>2, <1>13, RootParent
  <2>2. r = Made(heir, up, kid, top, ratio, box, t.geo)
    <3>1. r = [t1 EXCEPT !.root = heir]
      BY <2>1 DEF Rehome
    <3> HIDE DEF t1, r
    <3> QED BY <1>6, <3>1 DEF Made
  <2> HIDE DEF t1, r
  <2>3. r \in TreeState
    BY <1>3, <1>5, <1>8, <2>2, TreeMade
  <2>4. /\ r.root = heir /\ r.up = up /\ r.kid = kid /\ r.top = top
        /\ r.ratio = ratio /\ r.box = box /\ r.geo = t.geo
    BY <2>2 DEF Made
  <2>5. \A s \in Split \ {p} : \A i \in 0 .. 1 : t.kid[s][i] # p
    BY <1>12, <2>1, <1>3, DwindleConstants DEF Node
  <2>6. Prunes(r, t, v, p, heir)
    BY <1>9, <1>11, <1>13, <2>4, <2>5 DEF Prunes
  <2>7. Removed(r, t, v, p, heir)
    BY <1>10, <2>4, <2>6 DEF Removed
  <2> QED BY <1>4, <2>3, <2>7
<1>14. CASE p # t.root
  <2> DEFINE j == IF kid[q][0] = p THEN 0 ELSE 1
             kid2 == [kid EXCEPT ![q] = [kid[q] EXCEPT ![j] = heir]]
  <2>1. q \in Split /\ q \in Used(t) /\ q # Nil
    BY <1>1, <1>2, <1>14, RootParent, DwindleConstants DEF Node
  <2>2. q # p /\ kid[q] = t.kid[q]
    <3>1. PICK i \in 0 .. 1 : t.kid[q][i] = p
      BY <1>1, <1>2, <1>14, RootParent
    <3>2. q \notin Below(t, p)
      BY <1>1, <2>1, <3>1, NotBelowChild
    <3>3. p \in Below(t, p)
      BY <1>1, <1>2, UsedDown
    <3> QED BY <1>11, <2>1, <3>2, <3>3
  <2>3. r = Made(t.root, up, kid2, top, ratio, box, t.geo)
    <3>1. t1.kid = kid
      <4> HIDE DEF t1
      <4> QED BY <1>6 DEF Made
    <3>2. r = [t1 EXCEPT !.kid[q][IF kid[q][0] = p THEN 0 ELSE 1] = heir]
      BY <2>1, <3>1 DEF Rehome
    <3>3. r = [t1 EXCEPT !.kid = kid2]
      BY <3>1, <3>2
    <3> HIDE DEF t1, r, kid2
    <3> QED BY <1>6, <3>3 DEF Made
  <2> HIDE DEF t1, r
  <2>4. /\ kid2 \in Kids
        /\ \A s \in Split \ {q} : kid2[s] = kid[s]
        /\ \A i \in 0 .. 1 : kid2[q][i] = IF i = j THEN heir ELSE t.kid[q][i]
    <3>1. kid[q] \in [0 .. 1 -> MaybeNode]
      BY <1>8, <2>1 DEF Kids
    <3>2. [kid[q] EXCEPT ![j] = heir] \in [0 .. 1 -> MaybeNode]
      BY <1>3, <3>1, SMTT(30)
    <3> QED BY <1>8, <2>1, <2>2, <3>1, <3>2 DEF Kids
  <2>5. r \in TreeState
    BY <1>5, <1>8, <2>3, <2>4, TreeMade
  <2>6. /\ r.root = t.root /\ r.up = up /\ r.kid = kid2 /\ r.top = top
        /\ r.ratio = ratio /\ r.box = box /\ r.geo = t.geo
    BY <2>3 DEF Made
  <2>7. \A i \in 0 .. 1 : t.kid[q][i] = p <=> i = j
    <3>1. t.kid[q][0] # t.kid[q][1] /\ (t.kid[q][0] = p \/ t.kid[q][1] = p)
      <4>1. t.kid[q][0] # t.kid[q][1]
        BY <1>1, <2>1 DEF Linked
      <4>2. PICK i \in 0 .. 1 : t.kid[q][i] = p
        BY <1>1, <1>2, <1>14, RootParent
      <4> QED BY <4>1, <4>2
    <3> QED BY <2>2, <3>1
  <2> HIDE DEF kid2, j
  <2>8. ASSUME NEW s \in Split \ {p}, NEW i \in 0 .. 1
        PROVE  r.kid[s][i] = IF t.kid[s][i] = p THEN heir ELSE t.kid[s][i]
    <3>1. CASE s = q
      BY <2>4, <2>6, <2>7, <3>1
    <3>2. CASE s # q
      <4>1. t.kid[s][i] # p
        BY <1>12, <3>2
      <4> QED BY <1>11, <2>4, <2>6, <3>2, <4>1
    <3> QED BY <3>1, <3>2
  <2>9. r.kid[p][0] = Nil /\ r.kid[p][1] = Nil
    BY <1>2, <1>11, <2>2, <2>4, <2>6
  <2>10. Prunes(r, t, v, p, heir)
    BY <1>9, <1>14, <2>6, <2>8, <2>9 DEF Prunes
  <2>11. Removed(r, t, v, p, heir)
    BY <1>10, <2>6, <2>10 DEF Removed
  <2> QED BY <1>4, <2>5, <2>11
<1> QED
  BY <1>13, <1>14

(* removeLeaf takes one leaf away, and no other. *)
LEMMA RemoveSound ==
    ASSUME NEW t, Sound(t), NEW v \in LeafViews(t), NEW r, r = RemoveLeaf(t, v)
    PROVE  Sound(r) /\ LeafViews(r) = LeafViews(t) \ {v}
<1>1. t \in TreeState /\ Linked(t) /\ Counted(t) /\ v \in Used(t) /\ v \in View
  BY DEF Sound, LeafViews
<1>2. CASE v = t.root
  <2>1. t.up[v] = Nil
    BY <1>1, <1>2, RootParent
  <2>2. r = Empty(t.geo)
    BY <2>1 DEF RemoveLeaf
  <2>3. Sound(r) /\ Used(r) = {}
    BY <1>1, <2>2, EmptySound, TreeMade
  <2>4. Used(t) = {v}
    BY <1>1, <1>2, BelowParts DEF Used
  <2> QED BY <2>3, <2>4 DEF LeafViews
<1>3. CASE v # t.root
  <2> DEFINE p == t.up[v]
             heir == Sibling(t, v)
  <2>1. PICK u \in TreeState : Removed(u, t, v, p, heir) /\ RemoveLeaf(t, v) = Recalc(u, heir)
    BY <1>3, RemoveUnlinks
  <2>2. p \in Split /\ p \in Used(t) /\ v # p
    BY <1>1, <1>3, LeafLinks
  <2>3. Linked(u) /\ Used(u) = Used(t) \ {p, v} /\ heir \in Used(u)
    BY <1>1, <1>3, <2>1, TreeMade, Pruned DEF Removed
  <2> HIDE DEF p, heir
  <2>4. Used(t) = Used(u) \cup {v, p} /\ v \notin Used(u) /\ p \notin Used(u)
    BY <1>1, <2>2, <2>3
  <2>5. Counted(u) /\ LeafViews(t) = LeafViews(u) \cup {v} /\ v \notin LeafViews(u)
    <3>1. Shaped(u) /\ Shaped(t) /\ t.root # Nil
      <4>1. Shaped(u) /\ Shaped(t)
        BY <1>1, <2>1, TreeMade
      <4>2. t.root \in Used(t) /\ Used(t) \subseteq Node
        BY <1>1, <4>1, RootParent, UsedLeast
      <4> QED BY <4>1, <4>2, DwindleConstants
    <3> QED BY <1>1, <2>2, <2>4, <3>1, CountMoves DEF LeafViews
  <2>6. Sound(u)
    BY <2>1, <2>3, <2>5 DEF Sound
  <2>7. Sound(r) /\ LeafViews(r) = LeafViews(u)
    BY <2>1, <2>3, <2>6, RecalcSound
  <2> QED BY <2>5, <2>7
<1> QED
  BY <1>2, <1>3

(* One step of sync's first half: the first leaf that is not of a tiled view
   goes; and n such steps from t.                                             *)
Dropped(t, tiled) == RemoveLeaf(t, FirstOf(t, LeafViews(t) \ tiled))
Drops(f, t, tiled, n) ==
    f[0] = t /\ \A k \in 1 .. n : f[k] = Dropped(f[k - 1], tiled)

(* They are taken as long as there is such a leaf. *)
DropsOn(f, t, tiled, n) ==
    /\ n = Cardinality(LeafViews(t) \ tiled)
    /\ f[0] = t
    /\ \A k \in 1 .. n : Sound(f[k - 1]) /\ LeafViews(f[k - 1]) \ tiled # {}
                         => f[k] = Dropped(f[k - 1], tiled)

(* While there is such a leaf, a step takes one of them and no other. *)
LEMMA DropSound ==
    ASSUME NEW t, Sound(t), NEW tiled, LeafViews(t) \ tiled # {},
           NEW r, r = Dropped(t, tiled)
    PROVE  /\ Sound(r)
           /\ LeafViews(r) \cap tiled = LeafViews(t) \cap tiled
           /\ Cardinality(LeafViews(t) \ tiled) \in Nat
           /\ Cardinality(LeafViews(r) \ tiled) = Cardinality(LeafViews(t) \ tiled) - 1
<1> DEFINE stale == LeafViews(t) \ tiled
           v == FirstOf(t, stale)
<1>1. v \in stale
  <2>1. stale \in SUBSET LeafViews(t) /\ Linked(t)
    BY DEF Sound
  <2> HIDE DEF stale
  <2> QED BY <2>1, FirstIsOne DEF stale
<1>2. r = RemoveLeaf(t, v)
  BY DEF Dropped
<1> HIDE DEF v
<1>3. Sound(r) /\ LeafViews(r) = LeafViews(t) \ {v}
  BY <1>1, <1>2, RemoveSound
<1>4. LeafViews(r) \ tiled = stale \ {v} /\ LeafViews(r) \cap tiled = LeafViews(t) \cap tiled
  BY <1>1, <1>3
<1>5. IsFiniteSet(stale)
  <2>1. stale \in SUBSET View /\ IsFiniteSet(View)
    BY DwindleConstants DEF LeafViews
  <2> HIDE DEF stale
  <2> QED BY <2>1, FS_Subset
<1> HIDE DEF stale
<1>6. Cardinality(stale) \in Nat /\ Cardinality(stale \ {v}) = Cardinality(stale) - 1
  BY <1>1, <1>5, FS_RemoveElement, FS_CardinalityType
<1> QED
  BY <1>3, <1>4, <1>6 DEF stale

(* As many steps as there are such leaves leave none. *)
LEMMA DropsLeave ==
    ASSUME NEW t, Sound(t), NEW tiled, NEW n, NEW f, DropsOn(f, t, tiled, n)
    PROVE  /\ n \in Nat
           /\ \A k \in 0 .. n : /\ Sound(f[k])
                                /\ LeafViews(f[k]) \cap tiled = LeafViews(t) \cap tiled
                                /\ Cardinality(LeafViews(f[k]) \ tiled) = n - k
<1> DEFINE OK(u, k) == /\ Sound(u)
                       /\ LeafViews(u) \cap tiled = LeafViews(t) \cap tiled
                       /\ Cardinality(LeafViews(u) \ tiled) = n - k
           S == {k \in 0 .. n : OK(f[k], k)}
<1>1. n \in Nat
  <2>1. LeafViews(t) \ tiled \in SUBSET View /\ IsFiniteSet(View)
    BY DwindleConstants DEF LeafViews
  <2> QED BY <2>1, FS_Subset, FS_CardinalityType DEF DropsOn
<1>2. 0 \in S
  BY <1>1 DEF DropsOn
<1>3. ASSUME NEW k \in 0 .. n, k \in S, k < n PROVE k + 1 \in S
  <2>1. k + 1 \in 1 .. n /\ k + 1 \in 0 .. n /\ (k + 1) - 1 = k
    BY <1>1, <1>3
  <2>2. OK(f[k], k)
    BY <1>3
  <2>3. LeafViews(f[k]) \ tiled # {}
    <3>1. n - k # 0
      BY <1>1, <1>3
    <3>2. Cardinality({}) = 0
      BY FS_EmptySet
    <3> QED BY <2>2, <3>1, <3>2
  <2>4. f[k + 1] = Dropped(f[k], tiled)
    BY <2>1, <2>2, <2>3 DEF DropsOn
  <2>5. /\ Sound(f[k + 1])
        /\ LeafViews(f[k + 1]) \cap tiled = LeafViews(f[k]) \cap tiled
        /\ Cardinality(LeafViews(f[k + 1]) \ tiled) = (n - k) - 1
    BY <2>2, <2>3, <2>4, DropSound
  <2>6. OK(f[k + 1], k + 1)
    BY <1>1, <2>2, <2>5
  <2> HIDE DEF OK
  <2> QED BY <2>1, <2>6
<1> HIDE DEF S
<1>4. \A k \in 0 .. n : k \in S
  BY <1>1, <1>2, <1>3, UpTo
<1> QED
  BY <1>1, <1>4 DEF S

(* sync's first half takes those steps. *)
LEMMA DropStaleDrops ==
    ASSUME NEW t, Sound(t), NEW tiled, NEW n, n = Cardinality(LeafViews(t) \ tiled)
    PROVE  \E f : Drops(f, t, tiled, n) /\ DropStale(t, tiled) = f[n]
<1> DEFINE T == {u \in TreeState : Sound(u)}
           Legal(u) == LeafViews(u) \ tiled # {}
           h == [x \in T \X (1 .. n) |-> IF Legal(x[1]) THEN Dropped(x[1], tiled) ELSE x[1]]
           Eq(f) == f = [k \in 0 .. n |-> IF k = 0 THEN t ELSE Dropped(f[k - 1], tiled)]
           Left == CHOOSE f : Eq(f)
<1>1. n \in Nat
  <2>1. LeafViews(t) \ tiled \in SUBSET View /\ IsFiniteSet(View)
    BY DwindleConstants DEF LeafViews
  <2> QED BY <2>1, FS_Subset, FS_CardinalityType
<1>2. t \in T
  BY DEF Sound
<1>3. h \in [T \X (1 .. n) -> T]
  <2>1. \A u \in T : Legal(u) => Dropped(u, tiled) \in T
    <3> SUFFICES ASSUME NEW u \in T, Legal(u) PROVE Dropped(u, tiled) \in T
      OBVIOUS
    <3>1. Sound(Dropped(u, tiled))
      BY DropSound
    <3> QED BY <3>1 DEF Sound
  <2> HIDE DEF T, Legal
  <2> QED BY <2>1
<1>4. PICK r \in [0 .. n -> T] : Steps(r, n, t, h)
  <2> HIDE DEF h, T
  <2> QED BY <1>1, <1>2, <1>3, Iterates
<1>5. /\ r[0] = t
      /\ \A k \in 1 .. n : r[k] = IF Legal(r[k - 1]) THEN Dropped(r[k - 1], tiled) ELSE r[k - 1]
  <2>1. r[0] = t /\ \A k \in 1 .. n : r[k] = h[<<r[k - 1], k>>]
    BY <1>4 DEF Steps
  <2>2. \A k \in 1 .. n : k - 1 \in 0 .. n
    BY <1>1
  <2> HIDE DEF T, Legal
  <2> QED BY <2>1, <2>2
<1>6. \A k \in 0 .. n : Cardinality(LeafViews(r[k]) \ tiled) = n - k
  <2>1. DropsOn(r, t, tiled, n)
    BY <1>5 DEF DropsOn
  <2> HIDE DEF T, h
  <2>2. ASSUME NEW f, DropsOn(f, t, tiled, n)
        PROVE  \A k \in 0 .. n : Cardinality(LeafViews(f[k]) \ tiled) = n - k
    BY <2>2, DropsLeave
  <2> QED BY <2>1, <2>2
<1>7. \A k \in 1 .. n : r[k] = Dropped(r[k - 1], tiled)
  <2> SUFFICES ASSUME NEW k \in 1 .. n PROVE Legal(r[k - 1])
    BY <1>5
  <2>1. k - 1 \in 0 .. n /\ n - (k - 1) # 0
    BY <1>1
  <2>2. Cardinality({}) = 0
    BY FS_EmptySet
  <2> QED BY <1>6, <2>1, <2>2
<1>8. Eq(r)
  <2> HIDE DEF T, h
  <2>1. \A k \in 0 .. n : r[k] = IF k = 0 THEN t ELSE Dropped(r[k - 1], tiled)
    <3>1. \A k \in 0 .. n : k # 0 => k \in 1 .. n
      BY <1>1
    <3> QED BY <1>5, <1>7, <3>1
  <2>2. r = [k \in 0 .. n |-> r[k]]
    OBVIOUS
  <2> QED BY <2>1, <2>2
<1>9. Eq(Left)
  <2> HIDE DEF Eq
  <2> QED BY <1>8
<1>10. DropStale(t, tiled) = Left[n]
  BY DEF DropStale, Dropped
<1> HIDE DEF Left
<1>11. Drops(Left, t, tiled, n)
  <2>1. Left = [k \in 0 .. n |-> IF k = 0 THEN t ELSE Dropped(Left[k - 1], tiled)]
    BY <1>9
  <2>2. 0 \in 0 .. n /\ \A k \in 1 .. n : k \in 0 .. n /\ k # 0
    BY <1>1
  <2> HIDE DEF Eq
  <2> QED BY <2>1, <2>2 DEF Drops
<1> QED
  BY <1>10, <1>11

(* It leaves the leaves of the tiled views. *)
LEMMA DropStaleSound ==
    ASSUME NEW t, Sound(t), NEW tiled, NEW r, r = DropStale(t, tiled)
    PROVE  Sound(r) /\ LeafViews(r) = LeafViews(t) \cap tiled
<1> SUFFICES ASSUME NEW n, n = Cardinality(LeafViews(t) \ tiled)
             PROVE  Sound(r) /\ LeafViews(r) = LeafViews(t) \cap tiled
  OBVIOUS
<1>1. PICK f : Drops(f, t, tiled, n) /\ r = f[n]
  BY DropStaleDrops
<1>2. DropsOn(f, t, tiled, n)
  BY <1>1 DEF Drops, DropsOn
<1>3. n \in Nat /\ \A k \in 0 .. n : /\ Sound(f[k])
                                     /\ LeafViews(f[k]) \cap tiled = LeafViews(t) \cap tiled
                                     /\ Cardinality(LeafViews(f[k]) \ tiled) = n - k
  BY <1>2, DropsLeave
<1>4. /\ Sound(r) /\ LeafViews(r) \cap tiled = LeafViews(t) \cap tiled
      /\ Cardinality(LeafViews(r) \ tiled) = 0
  <2>1. n \in 0 .. n /\ n - n = 0
    BY <1>3
  <2> QED BY <1>1, <1>3, <2>1
<1>5. LeafViews(r) \ tiled = {}
  <2>1. LeafViews(r) \ tiled \in SUBSET View /\ IsFiniteSet(View)
    BY DwindleConstants DEF LeafViews
  <2> QED BY <1>4, <2>1, FS_Subset, FS_EmptySet
<1> QED
  BY <1>4, <1>5

(* m views that have no leaf yet, each once. *)
Orders(order, m, t) ==
    /\ m \in Nat /\ DOMAIN order = 1 .. m
    /\ \A k \in 1 .. m : order[k] \in View \ LeafViews(t)
    /\ \A j, k \in 1 .. m : order[j] = order[k] => j = k

(* The steps of sync's second half, and as they are taken while the next view
   has no leaf; where is the box, the focused view and the pointer.           *)
Added(t, v, where) == InsertLeaf(t, v, where[1], where[2], where[3])
Adds(f, t, order, m, where) ==
    f[0] = t /\ \A k \in 1 .. m : f[k] = Added(f[k - 1], order[k], where)
AddsOn(f, t, order, m, where) ==
    /\ f[0] = t
    /\ \A k \in 1 .. m : Sound(f[k - 1]) /\ order[k] \notin LeafViews(f[k - 1])
                         => f[k] = Added(f[k - 1], order[k], where)

(* A step gives the view a leaf. *)
LEMMA AddSound ==
    ASSUME NEW t, Sound(t), NEW v \in View \ LeafViews(t), NEW where, where[1] \in Area,
           NEW r, r = Added(t, v, where)
    PROVE  Sound(r) /\ LeafViews(r) = LeafViews(t) \cup {v}
<1>1. v \notin Used(t) /\ v \in View
  BY DEF LeafViews
<1>2. r = InsertLeaf(t, v, where[1], where[2], where[3])
  BY DEF Added
<1> QED
  BY <1>1, <1>2, InsertSound

(* After all the steps every view has one. *)
LEMMA AddsGrow ==
    ASSUME NEW t, Sound(t), NEW order, NEW m, Orders(order, m, t),
           NEW where, where[1] \in Area, NEW f, AddsOn(f, t, order, m, where)
    PROVE  \A k \in 0 .. m : /\ Sound(f[k])
                             /\ LeafViews(f[k]) = LeafViews(t) \cup {order[j] : j \in 1 .. k}
<1> DEFINE Upto(k) == {order[j] : j \in 1 .. k}
           OK(u, k) == Sound(u) /\ LeafViews(u) = LeafViews(t) \cup Upto(k)
           S == {k \in 0 .. m : OK(f[k], k)}
<1>1. m \in Nat
  BY DEF Orders
<1>2. 0 \in S
  <2>1. Upto(0) = {}
    OBVIOUS
  <2>2. OK(t, 0)
    BY <2>1
  <2> HIDE DEF OK
  <2> QED BY <1>1, <2>2 DEF AddsOn
<1>3. ASSUME NEW k \in 0 .. m, k \in S, k < m PROVE k + 1 \in S
  <2> DEFINE v == order[k + 1]
  <2>1. k + 1 \in 1 .. m /\ k + 1 \in 0 .. m /\ (k + 1) - 1 = k
    BY <1>1, <1>3
  <2>2. Sound(f[k]) /\ LeafViews(f[k]) = LeafViews(t) \cup Upto(k)
    BY <1>3
  <2>3. v \in View \ LeafViews(t)
    BY <2>1 DEF Orders
  <2>4. v \notin Upto(k)
    <3>1. \A j \in 1 .. k : j \in 1 .. m /\ j # k + 1
      BY <1>1, <1>3
    <3>2. \A j \in 1 .. k : order[j] # order[k + 1]
      BY <2>1, <3>1 DEF Orders
    <3> QED BY <3>2
  <2>5. Upto(k + 1) = Upto(k) \cup {v}
    <3>1. \A j \in 1 .. k + 1 : j \in 1 .. k \/ j = k + 1
      BY <1>1, <1>3
    <3>2. \A j \in 1 .. k : j \in 1 .. k + 1
      BY <1>1, <1>3
    <3>3. k + 1 \in 1 .. k + 1
      BY <1>1, <1>3
    <3> QED BY <3>1, <3>2, <3>3
  <2> HIDE DEF Upto, v
  <2>6. f[k + 1] = Added(f[k], v, where)
    BY <2>1, <2>2, <2>3, <2>4 DEF AddsOn, v
  <2>7. Sound(f[k + 1]) /\ LeafViews(f[k + 1]) = LeafViews(f[k]) \cup {v}
    BY <2>2, <2>3, <2>4, <2>6, AddSound
  <2>8. OK(f[k + 1], k + 1)
    BY <2>2, <2>5, <2>7
  <2> HIDE DEF OK
  <2> QED BY <2>1, <2>8
<1> HIDE DEF S, Upto
<1>4. \A k \in 0 .. m : k \in S
  BY <1>1, <1>2, <1>3, UpTo
<1> QED
  BY <1>4 DEF S, Upto

(* sync's second half takes those steps. *)
LEMMA AddMissingAdds ==
    ASSUME NEW t, Sound(t), NEW order, NEW m, Orders(order, m, t),
           NEW a \in Area, NEW focused, NEW cursor
    PROVE  \E f : /\ Adds(f, t, order, m, <<a, focused, cursor>>)
                  /\ AddMissing(t, order, a, focused, cursor) = f[m]
<1> DEFINE w == <<a, focused, cursor>>
           T == {u \in TreeState : Sound(u)}
           Legal(u, k) == order[k] \notin LeafViews(u)
           h == [x \in T \X (1 .. m) |->
                    IF Legal(x[1], x[2]) THEN Added(x[1], order[x[2]], w) ELSE x[1]]
           Eq(f) == f = [k \in 0 .. m |-> IF k = 0 THEN t ELSE Added(f[k - 1], order[k], w)]
           Grown == CHOOSE f : Eq(f)
<1>1. m \in Nat /\ Cardinality(DOMAIN order) = m
  <2>1. m \in Nat /\ DOMAIN order = 1 .. m
    BY DEF Orders
  <2> QED BY <2>1, FS_Interval
<1>2. t \in T
  BY DEF Sound
<1>3. w[1] \in Area
  OBVIOUS
<1>4. AddMissing(t, order, a, focused, cursor) = Grown[m]
  BY <1>1 DEF AddMissing, Added
<1> HIDE DEF w
<1>5. h \in [T \X (1 .. m) -> T]
  <2>1. \A u \in T, k \in 1 .. m : Legal(u, k) => Added(u, order[k], w) \in T
    <3> SUFFICES ASSUME NEW u \in T, NEW k \in 1 .. m, Legal(u, k)
                 PROVE  Added(u, order[k], w) \in T
      OBVIOUS
    <3>1. order[k] \in View \ LeafViews(u)
      BY DEF Orders
    <3>2. Sound(Added(u, order[k], w))
      BY <1>3, <3>1, AddSound
    <3> QED BY <3>2 DEF Sound
  <2> HIDE DEF T, Legal
  <2> QED BY <2>1
<1>6. PICK r \in [0 .. m -> T] : Steps(r, m, t, h)
  <2> HIDE DEF h, T
  <2> QED BY <1>1, <1>2, <1>5, Iterates
<1>7. /\ r[0] = t
      /\ \A k \in 1 .. m : r[k] = IF Legal(r[k - 1], k) THEN Added(r[k - 1], order[k], w)
                                                        ELSE r[k - 1]
  <2>1. r[0] = t /\ \A k \in 1 .. m : r[k] = h[<<r[k - 1], k>>]
    BY <1>6 DEF Steps
  <2>2. \A k \in 1 .. m : k - 1 \in 0 .. m
    BY <1>1
  <2> HIDE DEF T, Legal
  <2> QED BY <2>1, <2>2
<1>8. \A k \in 1 .. m : r[k] = Added(r[k - 1], order[k], w)
  <2>1. AddsOn(r, t, order, m, w)
    BY <1>7 DEF AddsOn
  <2>2. ASSUME NEW f, AddsOn(f, t, order, m, w)
        PROVE  \A k \in 0 .. m : LeafViews(f[k]) = LeafViews(t) \cup {order[j] : j \in 1 .. k}
    BY <1>3, <2>2, AddsGrow
  <2> SUFFICES ASSUME NEW k \in 1 .. m PROVE Legal(r[k - 1], k)
    BY <1>7
  <2>3. LeafViews(r[k - 1]) = LeafViews(t) \cup {order[j] : j \in 1 .. k - 1}
    <3>1. k - 1 \in 0 .. m
      BY <1>1
    <3> HIDE DEF T, h
    <3> QED BY <2>1, <2>2, <3>1
  <2>4. \A j \in 1 .. k - 1 : order[j] # order[k]
    <3>1. \A j \in 1 .. k - 1 : j \in 1 .. m /\ j # k
      BY <1>1
    <3> QED BY <3>1 DEF Orders
  <2>5. order[k] \notin LeafViews(t)
    BY DEF Orders
  <2> QED BY <2>3, <2>4, <2>5
<1>9. Eq(r)
  <2> HIDE DEF T, h
  <2>1. \A k \in 0 .. m : r[k] = IF k = 0 THEN t ELSE Added(r[k - 1], order[k], w)
    <3>1. \A k \in 0 .. m : k # 0 => k \in 1 .. m
      BY <1>1
    <3> QED BY <1>7, <1>8, <3>1
  <2>2. r = [k \in 0 .. m |-> r[k]]
    OBVIOUS
  <2> QED BY <2>1, <2>2
<1>10. Eq(Grown)
  <2> HIDE DEF Eq
  <2> QED BY <1>9
<1> HIDE DEF Grown
<1>11. Adds(Grown, t, order, m, w)
  <2>1. Grown = [k \in 0 .. m |-> IF k = 0 THEN t ELSE Added(Grown[k - 1], order[k], w)]
    BY <1>10
  <2>2. 0 \in 0 .. m /\ \A k \in 1 .. m : k \in 0 .. m /\ k # 0
    BY <1>1
  <2> HIDE DEF Eq
  <2> QED BY <2>1, <2>2 DEF Adds
<1> QED
  BY <1>4, <1>11 DEF w

(* It gives those views leaves, and takes none away. *)
LEMMA AddMissingSound ==
    ASSUME NEW t, Sound(t), NEW order, NEW m, Orders(order, m, t),
           NEW a \in Area, NEW focused, NEW cursor,
           NEW r, r = AddMissing(t, order, a, focused, cursor)
    PROVE  Sound(r) /\ LeafViews(r) = LeafViews(t) \cup {order[j] : j \in 1 .. m}
<1> SUFFICES ASSUME NEW w, w = <<a, focused, cursor>>
             PROVE  Sound(r) /\ LeafViews(r) = LeafViews(t) \cup {order[j] : j \in 1 .. m}
  OBVIOUS
<1>1. PICK f : Adds(f, t, order, m, w) /\ r = f[m]
  BY AddMissingAdds
<1>2. AddsOn(f, t, order, m, w)
  BY <1>1 DEF Adds, AddsOn
<1>3. w[1] \in Area
  OBVIOUS
<1>4. \A k \in 0 .. m : /\ Sound(f[k])
                        /\ LeafViews(f[k]) = LeafViews(t) \cup {order[j] : j \in 1 .. k}
  BY <1>2, <1>3, AddsGrow
<1>5. m \in 0 .. m
  BY DEF Orders
<1> QED
  BY <1>1, <1>4, <1>5

-----------------------------------------------------------------------------
(* What an arrange leaves *)

(* The boxes of tree t are those that recalc gives it when the usable box is a. *)
Boxed(t, a) ==
    /\ t.root # Nil => t.box[t.root] = Corner(a)
    /\ \A s \in Used(t) \cap Split : Shares(t, s) /\ Stacked(t, s)

(* And the views have them. *)
Laid(t, a) == Boxed(t, a) /\ \A v \in LeafViews(t) : t.geo[v] = Inset(t.box[v])

(* Tree t after an arrange for the tiled views. *)
Tidy(t, tiled, a) == Sound(t) /\ LeafViews(t) = tiled /\ Laid(t, a)

(* The tree whose root has the usable box. *)
Anchored(t, a) == [t EXCEPT !.box[t.root] = Corner(a)]

(* It is as sound as before, and nothing else has another box. *)
LEMMA AnchoredSound ==
    ASSUME NEW t, Sound(t), t.root # Nil, NEW a \in Area, NEW r, r = Anchored(t, a)
    PROVE  /\ Sound(r) /\ SameLinks(r, t) /\ Used(r) = Used(t) /\ LeafViews(r) = LeafViews(t)
           /\ r.box = [t.box EXCEPT ![t.root] = Corner(a)]
           /\ r.geo = t.geo /\ r.top = t.top /\ r.ratio = t.ratio
<1> DEFINE box == [t.box EXCEPT ![t.root] = Corner(a)]
<1>1. t \in TreeState /\ Linked(t) /\ Counted(t)
  BY DEF Sound
<1>2. t.root \in Node /\ t.box \in Boxes /\ t.geo \in Geos /\ t.top \in Tops
  BY <1>1, TreeMade DEF MaybeNode
<1>3. box \in [Node -> Box]
  BY <1>2, CornerBox DEF Boxes
<1>4. r = Reboxed(t, box, t.geo, t.top)
  <2>1. t.box \in Boxes /\ t = Made(t.root, t.up, t.kid, t.top, t.ratio, t.box, t.geo)
    BY <1>1, TreeMade
  <2>2. r = [t EXCEPT !.box = box]
    BY DEF Anchored
  <2> HIDE DEF box
  <2> QED BY <2>1, <2>2 DEF Reboxed, Made
<1> HIDE DEF box
<1>5. /\ r \in TreeState /\ SameLinks(r, t) /\ r.ratio = t.ratio
      /\ r.box = box /\ r.geo = t.geo /\ r.top = t.top
  BY <1>1, <1>2, <1>3, <1>4, TreeBoxes DEF Geos, Tops
<1>6. Linked(r) /\ Used(r) = Used(t) /\ LeafViews(r) = LeafViews(t)
  BY <1>1, <1>5, LinksOnly
<1>7. Counted(r)
  BY <1>1, <1>5, <1>6 DEF Counted, SameLinks
<1> QED
  BY <1>5, <1>6, <1>7 DEF Sound, box

(* A recalc from the root lays the tree out. *)
LEMMA RecalcLays ==
    ASSUME NEW t, Sound(t), t.root # Nil, NEW a \in Area, NEW r, r = Recalc(Anchored(t, a), t.root)
    PROVE  Tidy(r, LeafViews(t), a)
<1> DEFINE u == Anchored(t, a)
           n == t.root
<1>1. /\ Sound(u) /\ SameLinks(u, t) /\ Used(u) = Used(t) /\ LeafViews(u) = LeafViews(t)
      /\ u.box = [t.box EXCEPT ![n] = Corner(a)]
  BY AnchoredSound
<1>2. n \in Used(t) /\ n \in Node /\ u.root = n /\ t.box \in Boxes
  BY <1>1, TreeMade, UsedLeast DEF Sound, Linked, SameLinks, MaybeNode
<1>3. u.box[n] = Corner(a)
  BY <1>1, <1>2 DEF Boxes
<1> HIDE DEF u
<1>4. Sound(r) /\ SameLinks(r, u) /\ Used(r) = Used(u) /\ LeafViews(r) = LeafViews(u)
  BY <1>1, <1>2, RecalcSound DEF u
<1>5. Below(u, n) = Used(u)
  BY <1>2 DEF Used
<1>6. /\ r.box[n] = u.box[n]
      /\ \A v \in View \cap Below(u, n) : r.geo[v] = Inset(r.box[v])
      /\ \A s \in Split \cap Below(u, n) : Shares(r, s) /\ Stacked(r, s)
  <2>1. r = Recalc(u, n) /\ u \in TreeState /\ Linked(u) /\ n \in Used(u)
    BY <1>1, <1>2 DEF Sound, u
  <2> HIDE DEF n
  <2> QED BY <2>1, RecalcEffect
<1>7. Laid(r, a)
  BY <1>1, <1>2, <1>3, <1>4, <1>5, <1>6 DEF Laid, Boxed, SameLinks, LeafViews
<1> QED
  BY <1>1, <1>4, <1>7 DEF Tidy

(* An order of the m tiled views that lack a leaf. *)
Ordered(order, m, t, tiled) ==
    /\ Orders(order, m, t)
    /\ {order[j] : j \in 1 .. m} = tiled \ LeafViews(t)
    /\ m = Cardinality(tiled \ LeafViews(t))

(* An arrange of a sound tree, with an order of those views. *)
LEMMA ArrangeTidies ==
    ASSUME NEW t, Sound(t), NEW tiled \in SUBSET View, NEW order, NEW m,
           Ordered(order, m, t, tiled), NEW a \in Area, NEW focused, NEW cursor,
           NEW r, r = Arrange(t, tiled, order, a, focused, cursor)
    PROVE  Tidy(r, tiled, a)
<1> DEFINE u == DropStale(t, tiled)
           w == AddMissing(u, order, a, focused, cursor)
<1>1. Sound(u) /\ LeafViews(u) = LeafViews(t) \cap tiled
  BY DropStaleSound
<1>2. Orders(order, m, u)
  BY <1>1 DEF Ordered, Orders
<1>3. r = IF w.root = Nil THEN w ELSE Recalc(Anchored(w, a), w.root)
  BY DEF Arrange, Fitted, Sync, Anchored
<1> HIDE DEF u
<1>4. Sound(w) /\ LeafViews(w) = LeafViews(u) \cup {order[j] : j \in 1 .. m}
  BY <1>1, <1>2, AddMissingSound
<1>5. LeafViews(w) = tiled
  BY <1>1, <1>4 DEF Ordered
<1> HIDE DEF w
<1>6. CASE w.root = Nil
  <2>1. Used(w) = {}
    BY <1>4, <1>6, UsedLeast DEF Sound, Linked
  <2>2. Laid(w, a)
    BY <1>6, <2>1 DEF Laid, Boxed, LeafViews
  <2> QED BY <1>3, <1>4, <1>5, <1>6, <2>2 DEF Tidy
<1>7. CASE w.root # Nil
  <2>1. r = Recalc(Anchored(w, a), w.root)
    BY <1>3, <1>7
  <2>2. Tidy(r, LeafViews(w), a)
    BY <1>4, <1>7, <2>1, RecalcLays
  <2> QED BY <1>5, <2>2
<1> QED
  BY <1>6, <1>7

(* What an arrange may make of a tree that lacks leaves for the views missing. *)
Choices(t, tiled, missing, a, focus) ==
    {Arrange(t, tiled, order, a, f, cursor) :
        order \in Bijection(1 .. Cardinality(missing), missing),
        f \in focus, cursor \in Cursor}

(* Each comes of an order of those views. *)
LEMMA ChosenOrder ==
    ASSUME NEW t, NEW tiled, NEW missing, NEW a, NEW focus,
           NEW r \in Choices(t, tiled, missing, a, focus)
    PROVE  \E order, f, cursor :
               /\ order \in Bijection(1 .. Cardinality(missing), missing)
               /\ r = Arrange(t, tiled, order, a, f, cursor)
  BY DEF Choices

(* Whatever the focus and the pointer, it is what layout::arrange may do. *)
LEMMA ArrangementOrder ==
    ASSUME NEW t, NEW status \in [View -> At], NEW a, NEW focus,
           NEW r \in Arrangements(t, status, a, focus)
    PROVE  \E order, m, f, cursor :
               /\ Ordered(order, m, t, With(status, "tiled"))
               /\ r = Arrange(t, With(status, "tiled"), order, a, f, cursor)
<1> DEFINE tiled == With(status, "tiled")
           missing == tiled \ LeafViews(t)
<1>1. tiled \in SUBSET View
  BY DEF With
<1>2. r \in IF missing = {} THEN {Arrange(t, tiled, <<>>, a, NoView, NoBox)}
            ELSE Choices(t, tiled, missing, a, focus)
  <2>1. Arrangements(t, status, a, focus) =
            IF missing = {} THEN {Arrange(t, tiled, <<>>, a, NoView, NoBox)}
            ELSE Choices(t, tiled, missing, a, focus)
    BY DEF Arrangements, Choices
  <2> HIDE DEF tiled, missing
  <2> QED BY <2>1
<1>3. missing \in SUBSET View /\ IsFiniteSet(missing) /\ Cardinality(missing) \in Nat
  <2>1. missing \in SUBSET View /\ IsFiniteSet(View)
    BY <1>1, DwindleConstants
  <2> HIDE DEF missing
  <2> QED BY <2>1, FS_Subset, FS_CardinalityType
<1> HIDE DEF tiled
<1>4. CASE missing = {}
  <2>1. r = Arrange(t, tiled, <<>>, a, NoView, NoBox)
    BY <1>2, <1>4
  <2>2. Orders(<<>>, 0, t)
    BY DEF Orders
  <2>3. {<<>>[j] : j \in 1 .. 0} = missing /\ Cardinality(missing) = 0
    BY <1>4, FS_EmptySet
  <2>4. Ordered(<<>>, 0, t, tiled)
    BY <2>2, <2>3 DEF Ordered
  <2> QED BY <2>1, <2>4 DEF tiled
<1>5. CASE missing # {}
  <2> DEFINE m == Cardinality(missing)
  <2>1. PICK order, f, cursor :
            /\ order \in Bijection(1 .. m, missing)
            /\ r = Arrange(t, tiled, order, a, f, cursor)
    <3> HIDE DEF missing
    <3> QED BY <1>2, <1>5, ChosenOrder
  <2>2. /\ order \in [1 .. m -> missing]
        /\ \A j, k \in 1 .. m : order[j] = order[k] => j = k
        /\ \A v \in missing : \E j \in 1 .. m : order[j] = v
    <3> HIDE DEF missing, m
    <3> QED BY <2>1 DEF Bijection, Injection, Surjection, IsInjective
  <2>3. Orders(order, m, t)
    BY <1>1, <1>3, <2>2 DEF Orders
  <2>4. {order[j] : j \in 1 .. m} = tiled \ LeafViews(t)
    <3> HIDE DEF m
    <3> QED BY <2>2
  <2>5. Ordered(order, m, t, tiled)
    BY <2>3, <2>4 DEF Ordered
  <2> HIDE DEF m
  <2> QED BY <2>1, <2>5 DEF tiled
<1> QED
  BY <1>4, <1>5

(* Whatever the order of the views, the focus and the pointer, an arrange of a
   sound tree leaves one that is laid out and has a leaf for each tiled view.   *)
LEMMA ArrangementsTidy ==
    ASSUME NEW t, Sound(t), NEW status \in [View -> At], NEW a \in Area, NEW focus,
           NEW r \in Arrangements(t, status, a, focus)
    PROVE  Tidy(r, With(status, "tiled"), a)
<1>1. With(status, "tiled") \in SUBSET View
  BY DEF With
<1>2. PICK order, m, f, cursor :
          /\ Ordered(order, m, t, With(status, "tiled"))
          /\ r = Arrange(t, With(status, "tiled"), order, a, f, cursor)
  BY ArrangementOrder
<1> QED
  BY <1>1, <1>2, ArrangeTidies

-----------------------------------------------------------------------------
(* What the commands and the handlers leave of a sound tree *)

(* A tree linked over the same nodes is as sound. *)
LEMMA SameNodes ==
    ASSUME NEW t, Sound(t), NEW r \in TreeState, Linked(r), r.root = t.root, Used(r) = Used(t)
    PROVE  Sound(r) /\ LeafViews(r) = LeafViews(t)
<1>1. LeafViews(r) = LeafViews(t)
  BY DEF LeafViews
<1>2. Counted(r)
  BY <1>1 DEF Sound, Counted
<1> QED
  BY <1>1, <1>2 DEF Sound

(* So is one with the same links. *)
LEMMA SameLinksSound ==
    ASSUME NEW t, Sound(t), NEW r \in TreeState, SameLinks(r, t)
    PROVE  Sound(r) /\ LeafViews(r) = LeafViews(t) /\ Used(r) = Used(t)
<1>1. Linked(t)
  BY DEF Sound
<1>2. Linked(r) /\ Used(r) = Used(t) /\ r.root = t.root
  BY <1>1, LinksOnly DEF SameLinks
<1> QED
  BY <1>2, SameNodes

(* The split above a leaf that has one. *)
LEMMA SplitAbove ==
    ASSUME NEW t, Sound(t), NEW v \in View, HasSplit(t, v)
    PROVE  /\ v \in Used(t) /\ v \in LeafViews(t) /\ v # t.root
           /\ t.up[v] \in Split /\ t.up[v] \in Used(t)
<1>1. Linked(t) /\ v \in Used(t) /\ v \in LeafViews(t) /\ t.up[v] # Nil
  BY DEF Sound, HasSplit, LeafViews
<1> QED
  BY <1>1, RootParent

(* togglesplit changes an orientation only. *)
LEMMA ToggleSound ==
    ASSUME NEW t, Sound(t), NEW v \in View, HasSplit(t, v)
    PROVE  Sound(ToggleSplit(t, v))
<1> DEFINE p == t.up[v]
           top == [t.top EXCEPT ![p] = ~t.top[p]]
           r == ToggleSplit(t, v)
<1>1. p \in Split
  BY SplitAbove
<1>2. t \in TreeState /\ t.kid \in Kids /\ t.top \in Tops
  BY TreeMade DEF Sound
<1>3. top \in Tops
  BY <1>1, <1>2 DEF Tops
<1>4. r = Reboxed(t, t.box, t.geo, top)
  <2>1. r = [t EXCEPT !.top = top]
    BY DEF ToggleSplit
  <2>2. t = Made(t.root, t.up, t.kid, t.top, t.ratio, t.box, t.geo)
    BY <1>2, TreeMade
  <2> HIDE DEF r, top
  <2> QED BY <2>1, <2>2 DEF Reboxed, Made
<1> HIDE DEF r, top, p
<1>5. r \in TreeState /\ SameLinks(r, t)
  BY <1>2, <1>3, <1>4, TreeBoxes, TreeMade DEF Boxes, Geos, Tops
<1>6. Sound(r)
  BY <1>5, SameLinksSound
<1> QED
  BY <1>6 DEF r

(* An exchange of a split's children keeps the nodes. *)
LEMMA ExchangeSound ==
    ASSUME NEW t, Sound(t), NEW p \in Split, NEW r, r = Exchange(t, p)
    PROVE  Sound(r) /\ Used(r) = Used(t) /\ Exchanges(r, t, p)
<1>1. t \in TreeState /\ t.kid \in Kids /\ t.top \in Tops /\ Linked(t)
  BY TreeMade DEF Sound
<1> DEFINE kid == Mirrored(t.kid, p)
<1>2. kid \in Kids
  BY <1>1, MirroredTwice
<1>3. r = Refit(t, kid, t.top)
  <2>1. r = [t EXCEPT !.kid = kid]
    BY DEF Exchange, Mirrored
  <2>2. t = Made(t.root, t.up, t.kid, t.top, t.ratio, t.box, t.geo)
    BY <1>1, TreeMade
  <2> HIDE DEF kid
  <2> QED BY <2>1, <2>2 DEF Refit, Made
<1>4. kid[p][0] = t.kid[p][1] /\ kid[p][1] = t.kid[p][0] /\ \A s \in Split \ {p} : kid[s] = t.kid[s]
  BY <1>1 DEF Mirrored, Kids
<1> HIDE DEF kid
<1>5. r \in TreeState /\ r.kid = kid /\ r.up = t.up /\ r.root = t.root
  <2>1. r \in TreeState /\ r.kid = kid /\ r.up = t.up
    BY <1>1, <1>2, <1>3, TreeFields
  <2>2. r.root = t.root
    <3>1. t = Made(t.root, t.up, t.kid, t.top, t.ratio, t.box, t.geo)
      BY <1>1, TreeMade
    <3> QED BY <1>3, <3>1 DEF Refit, Made
  <2> QED BY <2>1, <2>2
<1>6. Exchanges(r, t, p)
  BY <1>4, <1>5 DEF Exchanges
<1>7. Linked(r) /\ Used(r) = Used(t)
  BY <1>1, <1>5, <1>6, TreeMade, Exchanged
<1> QED
  BY <1>5, <1>6, <1>7, SameNodes

(* rotatesplit changes an orientation and may exchange children. *)
LEMMA RotateSound ==
    ASSUME NEW t, Sound(t), NEW v \in View, HasSplit(t, v), NEW q \in 0 .. 3
    PROVE  Sound(RotateSplit(t, v, q))
<1> DEFINE p == t.up[v]
           top == Flipped(t.top, p, Flips(q))
           u == Refit(t, t.kid, top)
           swap == Swaps(q, t.top[p])
           r == RotateSplit(t, v, q)
<1>1. p \in Split
  BY SplitAbove
<1>2. t \in TreeState /\ t.kid \in Kids /\ t.top \in Tops
  BY TreeMade DEF Sound
<1>3. top \in Tops
  <2>1. Flips(q) \in BOOLEAN
    BY DEF Flips
  <2> HIDE DEF p
  <2> QED BY <1>1, <1>2, <2>1, FlippedTwice
<1>4. u \in TreeState /\ u.kid = t.kid /\ u.up = t.up /\ u.root = t.root
  <2> HIDE DEF top
  <2>1. u \in TreeState /\ u.kid = t.kid /\ u.up = t.up
    BY <1>2, <1>3, TreeFields
  <2>2. u.root = t.root
    <3>1. t = Made(t.root, t.up, t.kid, t.top, t.ratio, t.box, t.geo)
      BY <1>2, TreeMade
    <3> QED BY <3>1 DEF Refit, Made
  <2> QED BY <2>1, <2>2
<1>5. r = Turned(t, p, swap, Flips(q))
  BY <1>1, <1>2, RotateFields
<1> HIDE DEF r
<1>6. Sound(u)
  <2>1. SameLinks(u, t)
    BY <1>4 DEF SameLinks
  <2> HIDE DEF u
  <2> QED BY <1>4, <2>1, SameLinksSound
<1>7. CASE ~swap
  <2>1. r = u
    BY <1>5, <1>7 DEF Turned
  <2> QED BY <1>6, <2>1 DEF r
<1>8. CASE swap
  <2>1. r = Refit(t, Mirrored(t.kid, p), top)
    BY <1>5, <1>8 DEF Turned
  <2>2. r = Exchange(u, p)
    <3>1. Exchange(u, p) = [u EXCEPT !.kid = Mirrored(u.kid, p)]
      BY DEF Exchange, Mirrored
    <3>2. t = Made(t.root, t.up, t.kid, t.top, t.ratio, t.box, t.geo)
      BY <1>2, TreeMade
    <3> HIDE DEF top, p
    <3> QED BY <1>4, <2>1, <3>1, <3>2 DEF Refit, Made
  <2> HIDE DEF u, p
  <2>3. Sound(r)
    BY <1>1, <1>6, <2>2, ExchangeSound
  <2> QED BY <2>3 DEF r
<1> QED
  BY <1>7, <1>8

(* splitratio changes a ratio, and holds it between 0.1 and 1.9. *)
LEMMA AdjustSound ==
    ASSUME NEW t, Sound(t), NEW v \in View, HasSplit(t, v), NEW delta \in Delta
    PROVE  Sound(AdjustSplitRatio(t, v, delta))
<1> DEFINE p == t.up[v]
           x == t.ratio[p] + delta
           held == IF x < 1 THEN 1 ELSE IF x > 19 THEN 19 ELSE x
           ratio == [t.ratio EXCEPT ![p] = held]
           r == AdjustSplitRatio(t, v, delta)
<1>1. p \in Split
  BY SplitAbove
<1>2. /\ t.root \in MaybeNode /\ t.up \in Ups /\ t.kid \in Kids /\ t.top \in Tops
      /\ t.ratio \in Ratios /\ t.box \in Boxes /\ t.geo \in Geos
      /\ t = Made(t.root, t.up, t.kid, t.top, t.ratio, t.box, t.geo)
  BY TreeMade DEF Sound
<1>3. held \in 1 .. 19
  <2>1. t.ratio[p] \in Int /\ delta \in Int
    BY <1>1, <1>2, DwindleConstants DEF Ratios
  <2> HIDE DEF p
  <2> QED BY <2>1
<1>4. ratio \in Ratios
  <2> HIDE DEF held, p
  <2> QED BY <1>1, <1>2, <1>3 DEF Ratios
<1>5. r = Made(t.root, t.up, t.kid, t.top, ratio, t.box, t.geo)
  <2>1. r = [t EXCEPT !.ratio = ratio]
    BY DEF AdjustSplitRatio
  <2> HIDE DEF ratio, r
  <2> QED BY <1>2, <2>1 DEF Made
<1> HIDE DEF ratio, r, p
<1>6. r \in TreeState
  BY <1>2, <1>4, <1>5, TreeMade
<1>7. SameLinks(r, t)
  BY <1>5 DEF SameLinks, Made
<1>8. Sound(r)
  BY <1>6, <1>7, SameLinksSound
<1> QED
  BY <1>8 DEF r

(* Geometries are no part of the links. *)
LEMMA PutSound ==
    ASSUME NEW t, Sound(t), NEW S, NEW geo \in {Elsewhere, Column, Whole},
           NEW r, r = Put(t, S, geo)
    PROVE  /\ Sound(r) /\ LeafViews(r) = LeafViews(t) /\ Used(r) = Used(t)
           /\ SameLinks(r, t) /\ r.box = t.box /\ r.top = t.top /\ r.ratio = t.ratio
           /\ \A v \in View : r.geo[v] = IF v \in S THEN geo ELSE t.geo[v]
<1> DEFINE new == [v \in View |-> IF v \in S THEN geo ELSE t.geo[v]]
<1>1. /\ t.root \in MaybeNode /\ t.up \in Ups /\ t.kid \in Kids /\ t.top \in Tops
      /\ t.ratio \in Ratios /\ t.box \in Boxes /\ t.geo \in Geos
      /\ t = Made(t.root, t.up, t.kid, t.top, t.ratio, t.box, t.geo)
      /\ t \in TreeState
  BY TreeMade DEF Sound
<1>2. new \in Geos
  BY <1>1 DEF Geos
<1>3. r = Reboxed(t, t.box, new, t.top)
  <2>1. r = [t EXCEPT !.geo = new]
    BY DEF Put
  <2> HIDE DEF new
  <2> QED BY <1>1, <2>1 DEF Reboxed, Made
<1>4. \A v \in View : new[v] = IF v \in S THEN geo ELSE t.geo[v]
  OBVIOUS
<1> HIDE DEF new
<1>5. /\ r \in TreeState /\ SameLinks(r, t) /\ r.ratio = t.ratio
      /\ r.box = t.box /\ r.geo = new /\ r.top = t.top
  BY <1>1, <1>2, <1>3, TreeBoxes DEF Boxes, Geos, Tops
<1> QED
  BY <1>4, <1>5, SameLinksSound

(* The one slot that holds a node. *)
LEMMA SlotOf ==
    ASSUME NEW t, Linked(t), NEW n \in Used(t), n # t.root
    PROVE  /\ t.up[n] \in Split /\ t.up[n] \in Used(t) /\ Side(t, n) \in 0 .. 1
           /\ \A s \in Split, i \in 0 .. 1 :
                  t.kid[s][i] = n <=> s = t.up[n] /\ i = Side(t, n)
<1>1. n \in Node /\ n # Nil
  BY UsedLeast, DwindleConstants DEF Linked
<1>2. t.up[n] \in Split /\ t.up[n] \in Used(t)
  BY RootParent
<1>3. PICK j \in 0 .. 1 : t.kid[t.up[n]][j] = n
  BY RootParent
<1>4. Side(t, n) = j
  BY <1>2, <1>3, SideOfChild
<1>5. ASSUME NEW s \in Split, NEW i \in 0 .. 1, t.kid[s][i] = n
      PROVE  s = t.up[n] /\ i = Side(t, n)
  <2>1. s \in Used(t)
    <3>1. i = 0 \/ i = 1
      OBVIOUS
    <3> QED BY <1>1, <1>5, <3>1 DEF Linked
  <2> QED BY <1>5, <2>1, UsedDown, SideOfChild
<1> QED
  BY <1>2, <1>3, <1>4, <1>5

(* What movetoroot links. *)
LEMMA TradedFields ==
    ASSUME NEW t, Sound(t), NEW v \in View, BelowChildren(t, v),
           NEW other, other = Sibling(t, Ancestor(t, v)), NEW r, r = Traded(t, v)
    PROVE  /\ v \in Used(t) /\ v # t.root /\ t.up[v] # t.root
           /\ r \in TreeState /\ Trades(r, t, v, other)
<1>1. Linked(t) /\ t \in TreeState
  BY DEF Sound
<1> DEFINE p == t.up[v]
           n == Ancestor(t, v)
           q == t.root
           i == Side(t, v)
           j == Side(t, other)
           kid == [t.kid EXCEPT ![p][i] = other, ![q][j] = v]
           up == [t.up EXCEPT ![other] = p, ![v] = q]
<1>2. v \in Used(t) /\ v # q /\ p \in Split /\ p \in Used(t)
  BY SplitAbove DEF BelowChildren
<1>3. p # q
  BY <1>1, <1>2, RootParent DEF BelowChildren
<1>4. /\ v # n /\ q \in Split /\ other \in Used(t) /\ t.up[other] = q
      /\ v \in Below(t, n) /\ q \notin Below(t, other)
      /\ Below(t, n) \cap Below(t, other) = {}
  BY <1>1, <1>2, <1>3, AncestorOf
<1>5. other # q /\ other # v
  <2>1. other \in Below(t, other)
    BY <1>1, <1>4, UsedDown
  <2> QED BY <1>4, <2>1
<1>6. /\ t.root \in MaybeNode /\ t.up \in Ups /\ t.kid \in Kids /\ t.top \in Tops
      /\ t.ratio \in Ratios /\ t.box \in Boxes /\ t.geo \in Geos
      /\ t = Made(t.root, t.up, t.kid, t.top, t.ratio, t.box, t.geo)
  BY <1>1, TreeMade
<1>7. /\ i \in 0 .. 1
      /\ \A s \in Split, k \in 0 .. 1 : t.kid[s][k] = v <=> s = p /\ k = i
  <2> HIDE DEF p, i
  <2> QED BY <1>1, <1>2, SlotOf DEF p, i
<1>8. /\ j \in 0 .. 1
      /\ \A s \in Split, k \in 0 .. 1 : t.kid[s][k] = other <=> s = q /\ k = j
  BY <1>1, <1>4, <1>5, SlotOf
<1>9. v \in Node /\ other \in Node /\ v \in MaybeNode /\ other \in MaybeNode
  BY <1>1, <1>2, <1>4, UsedLeast DEF Linked, MaybeNode
<1>10. r = Made(t.root, up, kid, t.top, t.ratio, t.box, t.geo)
  <2>1. r = [t EXCEPT !.kid = kid, !.up = up]
    BY DEF Traded
  <2> HIDE DEF kid, up
  <2> QED BY <1>6, <2>1 DEF Made
<1> HIDE DEF p, n, q, i, j
<1>11. up \in Ups /\ \A m \in Node : up[m] = IF m = other THEN p ELSE IF m = v THEN q ELSE t.up[m]
  BY <1>2, <1>4, <1>5, <1>6, <1>9 DEF Ups
<1>12. kid = [t.kid EXCEPT ![p] = [t.kid[p] EXCEPT ![i] = other],
                           ![q] = [t.kid[q] EXCEPT ![j] = v]]
  BY <1>2, <1>3, <1>4, <1>6 DEF Kids
<1>13. /\ kid \in Kids
       /\ \A k \in 0 .. 1 : kid[p][k] = IF k = i THEN other ELSE t.kid[p][k]
       /\ \A k \in 0 .. 1 : kid[q][k] = IF k = j THEN v ELSE t.kid[q][k]
       /\ \A s \in Split \ {p, q} : kid[s] = t.kid[s]
  <2> DEFINE x == [t.kid[p] EXCEPT ![i] = other]
             y == [t.kid[q] EXCEPT ![j] = v]
  <2>1. t.kid[p] \in [0 .. 1 -> MaybeNode] /\ t.kid[q] \in [0 .. 1 -> MaybeNode]
    BY <1>2, <1>4, <1>6 DEF Kids
  <2>2. x \in [0 .. 1 -> MaybeNode] /\ \A k \in 0 .. 1 : x[k] = IF k = i THEN other ELSE t.kid[p][k]
    BY <1>9, <2>1
  <2>3. y \in [0 .. 1 -> MaybeNode] /\ \A k \in 0 .. 1 : y[k] = IF k = j THEN v ELSE t.kid[q][k]
    BY <1>9, <2>1
  <2>4. kid = [t.kid EXCEPT ![p] = x, ![q] = y]
    BY <1>12
  <2> HIDE DEF x, y, kid
  <2> QED BY <1>2, <1>3, <1>4, <1>6, <2>2, <2>3, <2>4 DEF Kids
<1> HIDE DEF kid, up
<1>14. r \in TreeState
  BY <1>6, <1>10, <1>11, <1>13, TreeMade
<1>15. r.root = t.root /\ r.up = up /\ r.kid = kid
  BY <1>10 DEF Made
<1>16. ASSUME NEW s \in Split, NEW k \in 0 .. 1
       PROVE  kid[s][k] = IF t.kid[s][k] = v THEN other
                          ELSE IF t.kid[s][k] = other THEN v ELSE t.kid[s][k]
  <2>1. CASE s = p
    BY <1>3, <1>7, <1>8, <1>13, <2>1
  <2>2. CASE s = q
    BY <1>3, <1>7, <1>8, <1>13, <2>2
  <2>3. CASE s # p /\ s # q
    BY <1>7, <1>8, <1>13, <2>3
  <2> QED BY <2>1, <2>2, <2>3
<1>17. Trades(r, t, v, other)
  BY <1>4, <1>11, <1>15, <1>16 DEF Trades, p, q
<1> QED
  BY <1>2, <1>3, <1>14, <1>17 DEF p, q

(* movetoroot links a tree over the same nodes, with v a child of the root in
   the slot that the other one had.                                          *)
LEMMA TradedSound ==
    ASSUME NEW t, Sound(t), NEW v \in View, BelowChildren(t, v), NEW r, r = Traded(t, v)
    PROVE  /\ Sound(r) /\ Used(r) = Used(t) /\ r.root = t.root /\ r.up[v] = t.root
           /\ t.root \in Split /\ t.root \in Used(t)
           /\ \E i \in 0 .. 1 : /\ Side(t, Ancestor(t, v)) = i
                                /\ r.kid[t.root][1 - i] = v
<1> DEFINE n == Ancestor(t, v)
           other == Sibling(t, n)
<1>1. /\ v \in Used(t) /\ v # t.root /\ t.up[v] # t.root
      /\ r \in TreeState /\ Trades(r, t, v, other)
  BY TradedFields
<1>2. Linked(t) /\ Linked(r) /\ Used(r) = Used(t)
  BY <1>1, TradeLinks, TreeMade DEF Sound
<1>3. r.root = t.root
  BY <1>1 DEF Trades
<1>4. Sound(r)
  BY <1>1, <1>2, <1>3, SameNodes
<1>5. /\ v # n /\ t.root \in Split /\ t.root \in Used(t) /\ other # n /\ t.up[other] = t.root
      /\ \/ t.kid[t.root][0] = n /\ t.kid[t.root][1] = other
         \/ t.kid[t.root][0] = other /\ t.kid[t.root][1] = n
      /\ other \in Used(t) /\ v \in Below(t, n) /\ Below(t, n) \cap Below(t, other) = {}
      /\ n \in Used(t)
  BY <1>1, <1>2, AncestorOf, RootParent
<1>6. PICK i \in 0 .. 1 : t.kid[t.root][i] = n /\ t.kid[t.root][1 - i] = other
  BY <1>5
<1>7. Side(t, n) = i
  BY <1>2, <1>5, <1>6, SideOfChild
<1>8. other # v
  BY <1>2, <1>5, UsedDown
<1> HIDE DEF n, other
<1>9. r.up[v] = t.root
  <2>1. v \in Node
    BY DEF Node
  <2> QED BY <1>1, <1>5, <1>8, <2>1 DEF Trades
<1>10. r.kid[t.root][1 - i] = v
  <2>1. 1 - i \in 0 .. 1
    OBVIOUS
  <2> QED BY <1>1, <1>5, <1>6, <1>8, <2>1 DEF Trades
<1> QED
  BY <1>2, <1>3, <1>4, <1>5, <1>7, <1>9, <1>10 DEF n

(* movetoroot, stable or not. *)
LEMMA MoveToRootSound ==
    ASSUME NEW t, Sound(t), NEW v \in View, BelowChildren(t, v), NEW stable \in BOOLEAN,
           NEW r, r = MoveToRoot(t, v, stable)
    PROVE  /\ Sound(r) /\ r.up[v] = r.root
           /\ stable => Side(r, v) = Side(t, Ancestor(t, v))
<1> DEFINE u == Traded(t, v)
           q == t.root
<1>1. /\ Sound(u) /\ Used(u) = Used(t) /\ u.root = q /\ u.up[v] = q
      /\ q \in Split /\ q \in Used(t)
  BY TradedSound
<1>2. PICK i \in 0 .. 1 : Side(t, Ancestor(t, v)) = i /\ u.kid[q][1 - i] = v
  BY TradedSound
<1>3. CASE ~stable
  BY <1>1, <1>3 DEF MoveToRoot
<1>4. CASE stable
  <2>1. r = Exchange(u, q)
    BY <1>4 DEF MoveToRoot
  <2> HIDE DEF u, q
  <2>2. Sound(r) /\ Used(r) = Used(u) /\ Exchanges(r, u, q)
    BY <1>1, <2>1, ExchangeSound
  <2>3. r.root = q /\ r.up[v] = q
    BY <1>1, <2>2 DEF Exchanges
  <2>4. r.kid[q][i] = v
    <3>1. i = 0 \/ i = 1
      OBVIOUS
    <3> QED BY <1>2, <2>2, <3>1 DEF Exchanges
  <2>5. Side(r, v) = i
    BY <1>1, <2>2, <2>4, SideOfChild DEF Sound
  <2> QED BY <1>2, <2>2, <2>3, <2>5
<1> QED
  BY <1>3, <1>4

-----------------------------------------------------------------------------
(* The inductive invariant *)

(* The tree is sound whatever the layout; in the dwindle layout its boxes divide
   the usable box, and each tiled view has the box of a leaf of its own.       *)
Tiles(t, status, a) ==
    /\ Boxed(t, a)
    /\ \A v \in With(status, "tiled") : v \in LeafViews(t) /\ t.geo[v] = Inset(t.box[v])

IInv ==
    /\ TypeOK
    /\ Sound(tree)
    /\ mode = "dwindle" => Tiles(tree, at, area)

(* An arranged tree tiles. *)
LEMMA TidyTiles ==
    ASSUME NEW t, NEW status, NEW a, Tidy(t, With(status, "tiled"), a)
    PROVE  Sound(t) /\ t \in TreeState /\ Tiles(t, status, a)
  BY DEF Tidy, Laid, Tiles, Sound

(* What layout::arrange leaves in either layout. *)
LEMMA LayoutsSound ==
    ASSUME NEW t, Sound(t), NEW m \in {"dwindle", "master"}, NEW status \in [View -> At],
           NEW a \in Area, NEW r \in Layouts(t, m, status, a)
    PROVE  Sound(r) /\ r \in TreeState /\ (m = "dwindle" => Tiles(r, status, a))
<1>1. CASE m = "dwindle"
  <2>1. r \in Arrangements(t, status, a, With(status, "tiled") \cup {NoView})
    BY <1>1 DEF Layouts
  <2>2. Tidy(r, With(status, "tiled"), a)
    BY <2>1, ArrangementsTidy
  <2> QED BY <2>2, TidyTiles
<1>2. CASE m # "dwindle"
  <2>1. r = [t EXCEPT !.geo = [v \in View |-> IF status[v] = "tiled" THEN Column ELSE t.geo[v]]]
    BY <1>2 DEF Layouts
  <2>2. [v \in View |-> IF status[v] = "tiled" THEN Column ELSE t.geo[v]]
            = [v \in View |-> IF v \in With(status, "tiled") THEN Column ELSE t.geo[v]]
    BY DEF With
  <2>3. r = Put(t, With(status, "tiled"), Column)
    BY <2>1, <2>2 DEF Put
  <2>4. Sound(r)
    BY <2>3, PutSound
  <2> QED BY <1>2, <2>4 DEF Sound
<1> QED
  BY <1>1, <1>2

(* It holds at first. *)
LEMMA InitInv == Init => IInv
<1> SUFFICES ASSUME Init PROVE IInv
  OBVIOUS
<1> DEFINE geo == [v \in View |-> Elsewhere]
<1>1. tree = Empty(geo) /\ at = [v \in View |-> "none"] /\ area \in Area /\ mode = "dwindle"
  BY DEF Init
<1>2. geo \in Geos
  BY DEF Geos
<1> HIDE DEF geo
<1>3. Sound(tree) /\ Used(tree) = {} /\ tree.root = Nil
  BY <1>1, <1>2, EmptySound
<1>4. TypeOK
  BY <1>1, <1>3 DEF TypeOK, At, Sound
<1>5. Tiles(tree, at, area)
  BY <1>1, <1>3 DEF Tiles, Boxed, With
<1> QED
  BY <1>3, <1>4, <1>5 DEF IInv

(* Putting a view that is tiled no more elsewhere leaves the others. *)
LEMMA PutTiles ==
    ASSUME NEW t, Sound(t), NEW status \in [View -> At], NEW a, Tiles(t, status, a),
           NEW v \in View, NEW new \in At, new # "tiled",
           NEW geo \in {Elsewhere, Column, Whole}, NEW r, r = Put(t, {v}, geo)
    PROVE  Tiles(r, [status EXCEPT ![v] = new], a)
<1>1. /\ Sound(r) /\ LeafViews(r) = LeafViews(t) /\ Used(r) = Used(t)
      /\ SameLinks(r, t) /\ r.box = t.box /\ r.top = t.top /\ r.ratio = t.ratio
      /\ \A w \in View : r.geo[w] = IF w \in {v} THEN geo ELSE t.geo[w]
  BY PutSound
<1>2. \A w \in With([status EXCEPT ![v] = new], "tiled") :
          w \in With(status, "tiled") /\ w # v /\ w \in View
  BY DEF With
<1>3. \A s : (Shares(r, s) <=> Shares(t, s)) /\ (Stacked(r, s) <=> Stacked(t, s))
  BY <1>1 DEF Shares, Stacked, Stacks, SameLinks
<1>4. Boxed(r, a)
  BY <1>1, <1>3 DEF Tiles, Boxed, SameLinks
<1>5. \A w \in With([status EXCEPT ![v] = new], "tiled") :
          w \in LeafViews(r) /\ r.geo[w] = Inset(r.box[w])
  BY <1>1, <1>2 DEF Tiles
<1> QED
  BY <1>4, <1>5 DEF Tiles

(* A command that leaves a sound tree to the arrange. *)
LEMMA CommandInv ==
    ASSUME IInv, NEW kind, NEW v, NEW t, Sound(t), Command(kind, v, t)
    PROVE  IInv'
<1>1. tree' \in Arrangements(t, at, area, {v}) /\ UNCHANGED <<at, area, mode>>
  BY DEF Command
<1>2. at \in [View -> At] /\ area \in Area /\ mode \in {"dwindle", "master"}
  BY DEF IInv, TypeOK
<1>3. Tidy(tree', With(at, "tiled"), area)
  BY <1>1, <1>2, ArrangementsTidy
<1>4. Sound(tree') /\ tree' \in TreeState /\ Tiles(tree', at, area)
  BY <1>3, TidyTiles
<1>5. TypeOK'
  BY <1>1, <1>2, <1>4 DEF TypeOK
<1>6. Sound(tree)' /\ (mode = "dwindle" => Tiles(tree, at, area))'
  BY <1>1, <1>4
<1> QED
  BY <1>5, <1>6 DEF IInv

(* A handler that ends in layout::arrange. *)
LEMMA LayoutsInv ==
    ASSUME IInv, NEW t, Sound(t), tree' \in Layouts(t, mode', at', area'),
           at' \in [View -> At], area' \in Area, mode' \in {"dwindle", "master"}
    PROVE  IInv'
<1>1. Sound(tree') /\ tree' \in TreeState /\ (mode' = "dwindle" => Tiles(tree', at', area'))
  BY LayoutsSound
<1>2. TypeOK'
  BY <1>1 DEF TypeOK
<1>3. Sound(tree)' /\ (mode = "dwindle" => Tiles(tree, at, area))'
  BY <1>1
<1> QED
  BY <1>2, <1>3 DEF IInv

(* A handler that puts one view elsewhere and leaves the tree. *)
LEMMA PutInv ==
    ASSUME IInv, NEW v \in View, NEW new \in At, new # "tiled",
           NEW geo \in {Elsewhere, Column, Whole}, tree' = Put(tree, {v}, geo),
           at' = [at EXCEPT ![v] = new], UNCHANGED <<area, mode>>
    PROVE  IInv'
<1>1. Sound(tree) /\ at \in [View -> At] /\ area \in Area /\ mode \in {"dwindle", "master"}
  BY DEF IInv, TypeOK
<1>2. Sound(tree')
  BY <1>1, PutSound
<1>3. TypeOK'
  BY <1>1, <1>2 DEF TypeOK, Sound
<1>4. mode' = "dwindle" => Tiles(tree', at', area')
  <2>1. ASSUME mode' = "dwindle" PROVE Tiles(tree, at, area)
    BY <2>1 DEF IInv
  <2> QED BY <1>1, <2>1, PutTiles
<1>5. Sound(tree)' /\ (mode = "dwindle" => Tiles(tree, at, area))'
  BY <1>2, <1>4
<1> QED
  BY <1>3, <1>5 DEF IInv

(* And every step keeps it. *)
LEMMA NextInv == IInv /\ [Next]_vars => IInv'
<1> SUFFICES ASSUME IInv, [Next]_vars PROVE IInv'
  OBVIOUS
<1>1. Sound(tree) /\ at \in [View -> At] /\ area \in Area /\ mode \in {"dwindle", "master"}
  BY DEF IInv, TypeOK
<1>2. ASSUME NEW v \in View, EnterFullscreen(v) PROVE IInv'
  <2>1. "full" \in At /\ "full" # "tiled"
    BY DEF At
  <2>2. tree' = Put(tree, {v}, Whole) /\ at' = [at EXCEPT ![v] = "full"] /\ UNCHANGED <<area, mode>>
    BY <1>2 DEF EnterFullscreen
  <2> QED BY <2>1, <2>2, PutInv
<1>3. ASSUME NEW v \in View, NEW to \in {"none", "away"}, Go(v, to) PROVE IInv'
  <2>1. to \in At /\ to # "tiled"
    BY DEF At
  <2>2. tree' = Put(tree, {v}, Elsewhere) /\ at' = [at EXCEPT ![v] = to]
        /\ UNCHANGED <<area, mode>>
    BY <1>3 DEF Go
  <2> QED BY <2>1, <2>2, PutInv
<1>4. ASSUME NEW S \in SUBSET View, NEW H \in SUBSET (View \ S), Retile(S, H) PROVE IInv'
  <2> DEFINE status == [v \in View |-> IF v \in S THEN "tiled"
                                       ELSE IF v \in H THEN "idle" ELSE at[v]]
             t == Put(tree, {v \in H : at[v] # "idle"}, Elsewhere)
  <2>1. /\ at' = status /\ tree' \in Layouts(t, mode, status, area)
        /\ area' = area /\ mode' = mode
    BY <1>4 DEF Retile
  <2>2. status \in [View -> At]
    BY <1>1 DEF At
  <2>3. Sound(t)
    BY <1>1, PutSound
  <2> HIDE DEF status, t
  <2> QED BY <1>1, <2>1, <2>2, <2>3, LayoutsInv
<1>5. ASSUME NEW m \in {"dwindle", "master"}, SetLayout(m) PROVE IInv'
  BY <1>1, <1>5, LayoutsInv DEF SetLayout
<1>6. ASSUME NEW a \in Area, Resize(a) PROVE IInv'
  BY <1>1, <1>6, LayoutsInv DEF Resize
<1>7. ASSUME NEW v \in View, Toggle(v) PROVE IInv'
  BY <1>1, <1>7, ToggleSound, CommandInv DEF Toggle
<1>8. ASSUME NEW v \in View, Swap(v) PROVE IInv'
  <2>1. Sound(SwapSplit(tree, v))
    BY <1>1, <1>8, SplitAbove, ExchangeSound DEF Swap, SwapSplit
  <2> QED BY <1>8, <2>1, CommandInv DEF Swap
<1>9. ASSUME NEW v \in View, NEW q \in 0 .. 3, Rotate(v, q) PROVE IInv'
  BY <1>1, <1>9, RotateSound, CommandInv DEF Rotate
<1>10. ASSUME NEW v \in View, NEW delta \in Delta, SplitRatio(v, delta) PROVE IInv'
  BY <1>1, <1>10, AdjustSound, CommandInv DEF SplitRatio
<1>11. ASSUME NEW v \in View, NEW stable \in BOOLEAN, ToRoot(v, stable) PROVE IInv'
  BY <1>1, <1>11, MoveToRootSound, CommandInv DEF ToRoot
<1>12. CASE UNCHANGED vars
  BY <1>12 DEF vars, IInv, TypeOK
<1> QED
  BY <1>2, <1>3, <1>4, <1>5, <1>6, <1>7, <1>8, <1>9, <1>10, <1>11, <1>12
     DEF Next, MoveAway, Destroy

(* So it always holds. *)
LEMMA Invariant == Spec => []IInv
<1>1. Init => IInv
  BY InitInv
<1>2. IInv /\ [Next]_vars => IInv'
  BY NextInv
<1> QED
  BY <1>1, <1>2, PTL DEF Spec

(* Every variable keeps its shape, and no command moves a split's ratio out of
   its range (adjustSplitRatio).                                             *)
THEOREM TypeCorrect == Spec => []TypeOK
<1>1. IInv => TypeOK
  BY DEF IInv
<1> QED
  BY <1>1, Invariant, PTL

(* The links of a sound tree are those of a tree. *)
LEMMA SoundIsLinked == Sound(tree) => WellLinked
<1> SUFFICES ASSUME Sound(tree) PROVE WellLinked
  OBVIOUS
<1>1. Linked(tree)
  BY DEF Sound
<1>2. tree.root # Nil => tree.up[tree.root] = Nil
  BY <1>1 DEF Linked
<1>3. \A n \in Node \ Used(tree) : tree.up[n] = Nil
  BY <1>1 DEF Linked
<1>4. ASSUME NEW s \in Split, NEW i \in 0 .. 1, s \in Used(tree)
      PROVE  /\ tree.kid[s][i] # Nil /\ tree.up[tree.kid[s][i]] = s
             /\ s \notin Below(tree, tree.kid[s][i])
             /\ Below(tree, tree.kid[s][i]) \cap Below(tree, tree.kid[s][1 - i]) = {}
  <2>1. tree.kid[s][i] # Nil /\ tree.up[tree.kid[s][i]] = s
    BY <1>1, <1>4 DEF Linked
  <2>2. s \notin Below(tree, tree.kid[s][i])
    BY <1>1, <1>4, NotBelowChild
  <2>3. Below(tree, tree.kid[s][i]) \cap Below(tree, tree.kid[s][1 - i]) = {}
    BY <1>1, <1>4, HalvesApart
  <2> QED BY <2>1, <2>2, <2>3
<1>5. ASSUME NEW s \in Split, NEW i \in 0 .. 1, s \notin Used(tree)
      PROVE  tree.kid[s][i] = Nil
  <2>1. i = 0 \/ i = 1
    OBVIOUS
  <2> QED BY <1>1, <1>5, <2>1 DEF Linked
<1> QED
  BY <1>2, <1>3, <1>4, <1>5 DEF WellLinked

(* However windows come and go and commands move them about, the nodes make one
   tree: what a node owns points back at it, nothing is reached twice or below
   itself, and what is not reached owns nothing (insertLeaf, removeLeaf,
   moveToRoot and the rest of dwindle.cpp).                                  *)
THEOREM AlwaysLinked == Spec => []WellLinked
<1>1. IInv => WellLinked
  BY SoundIsLinked DEF IInv
<1> QED
  BY <1>1, Invariant, PTL

(* However deep a view is, movetoroot makes it a child of the root, and when
   stable on the side it came from.                                          *)
THEOREM AlwaysMovesToRoot == Spec => []MovesToRoot
<1>1. Sound(tree) => MovesToRoot
  <2> SUFFICES ASSUME Sound(tree), NEW v \in View, BelowChildren(tree, v), NEW stable \in BOOLEAN,
                      NEW r, r = MoveToRoot(tree, v, stable)
               PROVE  /\ r.up[v] = r.root
                      /\ stable => Side(r, v) = Side(tree, Ancestor(tree, v))
    BY DEF MovesToRoot
  <2> QED BY MoveToRootSound
<1>2. IInv => MovesToRoot
  BY <1>1 DEF IInv
<1> QED
  BY <1>2, Invariant, PTL

-----------------------------------------------------------------------------
(* The leaves tile the usable box *)

(* What a box covers, what it is inside of covers; and boxes nest. *)
LEMMA InsideBoxes ==
    ASSUME NEW a \in Box, NEW b \in Box, Inside(a, b)
    PROVE  /\ \A x, y \in Int : Covers(a, x, y) => Covers(b, x, y)
           /\ \A c \in Box : Inside(b, c) => Inside(a, c)
<1>1. /\ a.x \in Int /\ a.y \in Int /\ a.w \in Nat /\ a.h \in Nat
      /\ b.x \in Int /\ b.y \in Int /\ b.w \in Nat /\ b.h \in Nat
  BY DEF Box
<1>2. \A x, y \in Int : Covers(a, x, y) => Covers(b, x, y)
  BY <1>1 DEF Inside, Covers
<1>3. ASSUME NEW c \in Box, Inside(b, c) PROVE Inside(a, c)
  <2>1. c.x \in Int /\ c.y \in Int /\ c.w \in Nat /\ c.h \in Nat
    BY DEF Box
  <2> QED BY <1>1, <1>3, <2>1 DEF Inside
<1> QED
  BY <1>2, <1>3

(* A pixel of a box is in one of the two shares, and in one only. *)
LEMMA SharesPart ==
    ASSUME NEW b \in Box, NEW top \in BOOLEAN, NEW ratio \in 1 .. 19,
           NEW x \in Int, NEW y \in Int, Covers(b, x, y)
    PROVE  Covers(Share(b, top, ratio, 0), x, y) <=> ~Covers(Share(b, top, ratio, 1), x, y)
<1> DEFINE side == IF top THEN b.h ELSE b.w
           first == (side * ratio) \div 20
<1>1. side \in Nat /\ b.x \in Int /\ b.y \in Int /\ b.w \in Nat /\ b.h \in Nat
  BY DEF Box
<1>2. first \in Nat /\ first <= side
  <2> HIDE DEF side
  <2> QED BY <1>1, ShareOfSide
<1>3. b = [x |-> b.x, y |-> b.y, w |-> b.w, h |-> b.h]
  BY DEF Box
<1>4. CASE top
  <2>1. Share(b, top, ratio, 0) = [x |-> b.x, y |-> b.y, w |-> b.w, h |-> first]
    BY <1>3, <1>4 DEF Share
  <2>2. Share(b, top, ratio, 1) = [x |-> b.x, y |-> b.y + first, w |-> b.w, h |-> b.h - first]
    <3>1. ASSUME NEW i, i # 0
          PROVE  Share(b, top, ratio, i) = [x |-> b.x, y |-> b.y + first, w |-> b.w, h |-> b.h - first]
      BY <1>3, <1>4, <3>1 DEF Share
    <3> QED BY <3>1
  <2>3. first <= b.h
    BY <1>2, <1>4
  <2> HIDE DEF first
  <2> QED BY <1>1, <1>2, <2>1, <2>2, <2>3 DEF Covers
<1>5. CASE ~top
  <2>1. Share(b, top, ratio, 0) = [x |-> b.x, y |-> b.y, w |-> first, h |-> b.h]
    BY <1>3, <1>5 DEF Share
  <2>2. Share(b, top, ratio, 1) = [x |-> b.x + first, y |-> b.y, w |-> b.w - first, h |-> b.h]
    <3>1. ASSUME NEW i, i # 0
          PROVE  Share(b, top, ratio, i) = [x |-> b.x + first, y |-> b.y, w |-> b.w - first, h |-> b.h]
      BY <1>3, <1>5, <3>1 DEF Share
    <3> QED BY <3>1
  <2>3. first <= b.w
    BY <1>2, <1>5
  <2> HIDE DEF first
  <2> QED BY <1>1, <1>2, <2>1, <2>2, <2>3 DEF Covers
<1> QED
  BY <1>4, <1>5

(* In a tree that is boxed, the children of a split divide its box. *)
LEMMA ChildBoxes ==
    ASSUME NEW t, Sound(t), NEW a \in Area, Boxed(t, a), NEW s \in Used(t) \cap Split
    PROVE  /\ t.box[s] \in Box
           /\ \A i \in 0 .. 1 : /\ t.kid[s][i] \in Used(t) /\ t.box[t.kid[s][i]] \in Box
                                /\ Inside(t.box[t.kid[s][i]], t.box[s])
           /\ \A x, y \in Int : Covers(t.box[s], x, y) =>
                  (Covers(t.box[t.kid[s][0]], x, y) <=> ~Covers(t.box[t.kid[s][1]], x, y))
<1>1. Linked(t) /\ t.box \in Boxes /\ t.top \in Tops /\ t.ratio \in Ratios
  BY TreeMade DEF Sound
<1>2. t.box[s] \in Box /\ t.top[s] \in BOOLEAN /\ t.ratio[s] \in 1 .. 19
  BY <1>1 DEF Boxes, Tops, Ratios, Node
<1>3. \A i \in 0 .. 1 : t.box[t.kid[s][i]] = Share(t.box[s], t.top[s], t.ratio[s], i)
  BY DEF Boxed, Shares
<1>4. ASSUME NEW i \in 0 .. 1
      PROVE  /\ t.kid[s][i] \in Used(t) /\ t.box[t.kid[s][i]] \in Box
             /\ Inside(t.box[t.kid[s][i]], t.box[s])
  <2>1. t.kid[s][i] \in Used(t)
    BY <1>1, UsedDown
  <2>2. Share(t.box[s], t.top[s], t.ratio[s], i) \in Box
        /\ Inside(Share(t.box[s], t.top[s], t.ratio[s], i), t.box[s])
    BY <1>2, ShareOfBox
  <2> QED BY <1>3, <2>1, <2>2
<1>5. ASSUME NEW x \in Int, NEW y \in Int, Covers(t.box[s], x, y)
      PROVE  Covers(t.box[t.kid[s][0]], x, y) <=> ~Covers(t.box[t.kid[s][1]], x, y)
  BY <1>2, <1>3, <1>5, SharesPart
<1> QED
  BY <1>2, <1>4, <1>5

(* There everything below a node is inside its box. *)
LEMMA BelowInside ==
    ASSUME NEW t, Sound(t), NEW a \in Area, Boxed(t, a), NEW n \in Used(t)
    PROVE  /\ \A m \in Below(t, n) : m \in Used(t) /\ t.box[m] \in Box /\ Inside(t.box[m], t.box[n])
           /\ t.box[n] \in Box
<1> DEFINE S == {m \in Below(t, n) : t.box[m] \in Box /\ Inside(t.box[m], t.box[n])}
<1>1. /\ Linked(t) /\ t.box \in Boxes /\ t.kid \in Kids
      /\ n \in Below(t, n) /\ Below(t, n) \subseteq Used(t) /\ Closed(t, Below(t, n))
      /\ n \in Node /\ Used(t) \subseteq Node
  BY TreeMade, UsedDown, UsedLeast DEF Sound, Linked
<1>2. t.box[n] \in Box
  BY <1>1 DEF Boxes
<1>3. n \in S
  BY <1>1, <1>2 DEF Inside, Box
<1>4. ASSUME NEW s \in S \cap Split, NEW i \in 0 .. 1 PROVE t.kid[s][i] \in S
  <2>1. s \in Used(t) \cap Split /\ t.box[s] \in Box /\ Inside(t.box[s], t.box[n])
    BY <1>1
  <2>2. t.box[t.kid[s][i]] \in Box /\ Inside(t.box[t.kid[s][i]], t.box[s])
    BY <2>1, ChildBoxes
  <2>3. Inside(t.box[t.kid[s][i]], t.box[n])
    BY <1>2, <2>1, <2>2, InsideBoxes
  <2>4. t.kid[s][i] \in Below(t, n)
    <3>1. t.kid[s][i] \in Below(t, s) /\ s \in Below(t, n)
      BY <1>1, <2>1, UsedDown
    <3> QED BY <1>1, <3>1, UsedDown
  <2> QED BY <2>2, <2>3, <2>4
<1>5. Below(t, n) \subseteq S
  <2>1. S \in SUBSET Node
    BY <1>1
  <2>2. Closed(t, S)
    BY <1>4 DEF Closed
  <2> HIDE DEF S
  <2> QED BY <1>1, <1>3, <2>1, <2>2, BelowLeast
<1> QED
  BY <1>1, <1>2, <1>5

(* A pixel of the usable box is in the box of some leaf. *)
LEMMA SomeLeafCovers ==
    ASSUME NEW t, Sound(t), NEW a \in Area, Boxed(t, a), t.root # Nil,
           NEW x \in 0 .. a.w - 1, NEW y \in 0 .. a.h - 1
    PROVE  \E v \in LeafViews(t) : Covers(t.box[v], x, y)
<1> DEFINE Q == {n \in Used(t) : Covers(t.box[n], x, y)}
<1>1. Linked(t) /\ t.root \in Used(t) /\ x \in Int /\ y \in Int
  BY UsedLeast DEF Sound, Linked
<1>2. Covers(Corner(a), x, y)
  BY DwindleConstants DEF Covers, Corner
<1>3. t.root \in Q
  BY <1>1, <1>2 DEF Boxed
<1>4. ASSUME NEW s \in Q \cap Split PROVE \E i \in 0 .. 1 : t.kid[s][i] \in Q
  <2>1. s \in Used(t) \cap Split /\ Covers(t.box[s], x, y)
    OBVIOUS
  <2>2. Covers(t.box[t.kid[s][0]], x, y) \/ Covers(t.box[t.kid[s][1]], x, y)
    BY <1>1, <2>1, ChildBoxes
  <2>3. t.kid[s][0] \in Used(t) /\ t.kid[s][1] \in Used(t)
    <3>1. 0 \in 0 .. 1 /\ 1 \in 0 .. 1
      OBVIOUS
    <3> QED BY <1>1, <2>1, <3>1, UsedDown
  <2> QED BY <2>2, <2>3
<1>5. Q \cap View # {}
  <2>1. Q \in SUBSET Used(t) /\ Q # {}
    BY <1>3
  <2> HIDE DEF Q
  <2> QED BY <1>1, <1>4, <2>1, Descent
<1> QED
  BY <1>5 DEF LeafViews

(* No pixel is in the boxes of two. *)
LEMMA OneLeafCovers ==
    ASSUME NEW t, Sound(t), NEW a \in Area, Boxed(t, a), NEW x \in Int, NEW y \in Int,
           NEW v \in LeafViews(t), NEW w \in LeafViews(t),
           Covers(t.box[v], x, y), Covers(t.box[w], x, y)
    PROVE  v = w
<1> DEFINE Q == {n \in Used(t) : v \in Below(t, n) /\ w \in Below(t, n)}
<1>1. Linked(t) /\ v \in Used(t) /\ w \in Used(t) /\ v \in View /\ w \in View
  BY DEF Sound, LeafViews
<1>2. t.root \in Q
  BY <1>1, RootParent
<1>3. ASSUME NEW s \in Q \cap Split PROVE \E i \in 0 .. 1 : t.kid[s][i] \in Q
  <2>1. s \in Used(t) \cap Split /\ v \in Below(t, s) /\ w \in Below(t, s) /\ v # s /\ w # s
    BY <1>1, DwindleConstants
  <2> DEFINE l == t.kid[s][0]
             r == t.kid[s][1]
  <2>2. Below(t, s) = {s} \cup Below(t, l) \cup Below(t, r)
    BY <1>1, <2>1, BelowParts
  <2>3. l \in Used(t) /\ r \in Used(t)
    <3>1. 0 \in 0 .. 1 /\ 1 \in 0 .. 1
      OBVIOUS
    <3> QED BY <1>1, <2>1, <3>1, UsedDown
  <2> HIDE DEF l, r
  <2>4. \A n \in {l, r}, m \in {v, w} : m \in Below(t, n) => Covers(t.box[n], x, y)
    <3> SUFFICES ASSUME NEW n \in {l, r}, NEW m \in {v, w}, m \in Below(t, n)
                 PROVE  Covers(t.box[n], x, y)
      OBVIOUS
    <3>1. t.box[n] \in Box /\ t.box[m] \in Box /\ Inside(t.box[m], t.box[n])
      BY <2>3, BelowInside
    <3>2. Covers(t.box[m], x, y)
      OBVIOUS
    <3> QED BY <3>1, <3>2, InsideBoxes
  <2>5. ~(Covers(t.box[l], x, y) /\ Covers(t.box[r], x, y))
    <3>1. Covers(t.box[s], x, y)
      <4>1. t.box[s] \in Box /\ t.box[v] \in Box /\ Inside(t.box[v], t.box[s])
        BY <2>1, BelowInside
      <4> QED BY <4>1, InsideBoxes
    <3> QED BY <2>1, <3>1, ChildBoxes DEF l, r
  <2>6. l \in Q \/ r \in Q
    BY <2>1, <2>2, <2>3, <2>4, <2>5
  <2> HIDE DEF Q
  <2> QED BY <2>6 DEF l, r
<1>4. PICK n \in Q : n \in View
  <2>1. Q \in SUBSET Used(t) /\ Q # {}
    BY <1>2
  <2>2. Q \cap View # {}
    <3> HIDE DEF Q
    <3> QED BY <1>1, <1>3, <2>1, Descent
  <2> QED BY <2>2
<1>5. Below(t, n) = {n}
  BY <1>1, <1>4, BelowParts
<1> QED
  BY <1>4, <1>5

(* In the dwindle layout every tiled window has the box of its leaf less the
   gap, or a pixel where nothing is left, and every pixel of the usable box
   belongs to one leaf, whatever the ratios the user set and however the sizes
   round (dwindle::arrange, recalc).                                         *)
THEOREM AlwaysTiles == Spec => []LeavesTile
<1>1. ASSUME IInv, mode = "dwindle"
      PROVE  /\ \A v \in With(at, "tiled") : v \in LeafViews(tree) /\ tree.geo[v] = Inset(tree.box[v])
             /\ \A v \in LeafViews(tree) : Inside(tree.box[v], Corner(area))
             /\ tree.root # Nil => \A x \in 0 .. area.w - 1, y \in 0 .. area.h - 1 :
                    Cardinality({v \in LeafViews(tree) : Covers(tree.box[v], x, y)}) = 1
  <2>1. /\ Sound(tree) /\ Boxed(tree, area) /\ area \in Area
        /\ \A v \in With(at, "tiled") : v \in LeafViews(tree) /\ tree.geo[v] = Inset(tree.box[v])
    BY <1>1 DEF IInv, Tiles, TypeOK
  <2>2. ASSUME NEW v \in LeafViews(tree) PROVE Inside(tree.box[v], Corner(area))
    <3>1. Linked(tree) /\ v \in Used(tree)
      BY <2>1 DEF Sound, LeafViews
    <3>2. tree.root \in Used(tree) /\ v \in Below(tree, tree.root) /\ tree.root # Nil
      <4>1. tree.root \in Used(tree) /\ v \in Below(tree, tree.root)
        BY <3>1, RootParent
      <4>2. Used(tree) \subseteq Node
        BY <3>1, UsedLeast DEF Linked
      <4> QED BY <4>1, <4>2, DwindleConstants
    <3> QED BY <2>1, <3>2, BelowInside DEF Boxed
  <2>3. ASSUME tree.root # Nil, NEW x \in 0 .. area.w - 1, NEW y \in 0 .. area.h - 1
        PROVE  Cardinality({v \in LeafViews(tree) : Covers(tree.box[v], x, y)}) = 1
    <3>1. PICK v \in LeafViews(tree) : Covers(tree.box[v], x, y)
      BY <2>1, <2>3, SomeLeafCovers
    <3>2. \A w \in LeafViews(tree) : Covers(tree.box[w], x, y) => w = v
      BY <2>1, <3>1, OneLeafCovers
    <3>3. {w \in LeafViews(tree) : Covers(tree.box[w], x, y)} = {v}
      BY <3>1, <3>2
    <3> QED BY <3>3, FS_Singleton
  <2> QED BY <2>1, <2>2, <2>3
<1>2. IInv => LeavesTile
  BY <1>1 DEF LeavesTile
<1> QED
  BY <1>2, Invariant, PTL

-----------------------------------------------------------------------------
(* One window comes or goes *)

(* With preserve_split a recalc keeps the orientations. *)
LEMMA RecalcTops ==
    ASSUME NEW t \in TreeState, PreserveSplit, NEW n
    PROVE  \A s \in Split : Recalc(t, n).top[s] = t.top[s]
<1>1. \A s \in Split : \A b : Stacks(t, s, b) = t.top[s]
  BY DEF Stacks
<1> DEFINE below == Below(t, n)
           Given == CHOOSE f : f = [m \in below |->
                        IF m = n THEN t.box[n]
                        ELSE LET s == t.up[m]
                                 b == f[s]
                             IN  Share(b, Stacks(t, s, b), t.ratio[s], Side(t, m))]
           box == [m \in Node |-> IF m \in below THEN Given[m] ELSE t.box[m]]
           geo == [v \in View |-> IF v \in below THEN Inset(Given[v]) ELSE t.geo[v]]
           top == [s \in Split |-> IF s \in below THEN Stacks(t, s, Given[s]) ELSE t.top[s]]
<1>2. Recalc(t, n) = [t EXCEPT !.box = box, !.geo = geo, !.top = top]
  BY DEF Recalc
<1>3. \A s \in Split : top[s] = t.top[s]
  <2> HIDE DEF Given, below
  <2> QED BY <1>1
<1> HIDE DEF box, geo, top
<1>4. Recalc(t, n).top = top
  <2>1. t = Made(t.root, t.up, t.kid, t.top, t.ratio, t.box, t.geo)
    BY TreeMade
  <2> QED BY <1>2, <2>1 DEF Made
<1> QED
  BY <1>3, <1>4

(* A split that was neither turned nor resized between t and r. *)
Unturned(r, t, s) == r.ratio[s] = t.ratio[s] /\ (PreserveSplit => r.top[s] = t.top[s])

(* It divides the same box in the same way. *)
LEMMA SameShares ==
    ASSUME NEW t, NEW r, NEW s, Unturned(r, t, s), Shares(t, s), Stacked(t, s),
           Shares(r, s), Stacked(r, s), r.box[s] = t.box[s], NEW i \in 0 .. 1
    PROVE  r.box[r.kid[s][i]] = t.box[t.kid[s][i]]
<1>1. r.top[s] = t.top[s]
  <2>1. CASE PreserveSplit
    BY <2>1 DEF Unturned
  <2>2. CASE ~PreserveSplit
    <3>1. /\ t.top[s] = (t.box[s].h > t.box[s].w)
          /\ r.top[s] = (r.box[s].h > r.box[s].w)
      BY <2>2 DEF Stacked, Stacks
    <3> QED BY <3>1
  <2> QED BY <2>1, <2>2
<1> QED
  BY <1>1 DEF Shares, Unturned

(* What the arrange's recalc keeps of the tree that sync left. *)
LEMMA RecalcKeeps ==
    ASSUME NEW t, Sound(t), t.root # Nil, NEW a \in Area, NEW r, r = Recalc(Anchored(t, a), t.root)
    PROVE  /\ Tidy(r, LeafViews(t), a) /\ SameLinks(r, t) /\ Used(r) = Used(t)
           /\ \A s \in Split : Unturned(r, t, s)
<1> DEFINE u == Anchored(t, a)
<1>1. /\ Sound(u) /\ SameLinks(u, t) /\ Used(u) = Used(t) /\ u.top = t.top /\ u.ratio = t.ratio
  BY AnchoredSound
<1>2. Tidy(r, LeafViews(t), a)
  BY RecalcLays
<1>3. u \in TreeState /\ Linked(u) /\ t.root \in Used(u) /\ r = Recalc(u, t.root)
  BY <1>1, UsedLeast DEF Sound, Linked
<1> HIDE DEF u
<1>4. SameLinks(r, u) /\ r.ratio = u.ratio
  BY <1>3, RecalcEffect
<1>5. PreserveSplit => \A s \in Split : r.top[s] = u.top[s]
  BY <1>3, RecalcTops
<1>6. SameLinks(r, t)
  BY <1>1, <1>4 DEF SameLinks
<1>7. Used(r) = Used(t)
  BY <1>6, LinksOnly DEF Sound
<1> QED
  BY <1>1, <1>2, <1>4, <1>5, <1>6, <1>7 DEF Unturned

(* sync drops nothing where every leaf is of a tiled view, and the one leaf that
   is not where there is one.                                                *)
LEMMA DropOne ==
    ASSUME NEW t, Sound(t), NEW tiled
    PROVE  /\ LeafViews(t) \ tiled = {} => DropStale(t, tiled) = t
           /\ \A v : LeafViews(t) \ tiled = {v} => DropStale(t, tiled) = RemoveLeaf(t, v)
<1>1. ASSUME LeafViews(t) \ tiled = {} PROVE DropStale(t, tiled) = t
  <2>1. Cardinality(LeafViews(t) \ tiled) = 0
    BY <1>1, FS_EmptySet
  <2>2. PICK f : Drops(f, t, tiled, 0) /\ DropStale(t, tiled) = f[0]
    BY <2>1, DropStaleDrops
  <2> QED BY <2>2 DEF Drops
<1>2. ASSUME NEW v, LeafViews(t) \ tiled = {v} PROVE DropStale(t, tiled) = RemoveLeaf(t, v)
  <2>1. Cardinality(LeafViews(t) \ tiled) = 1
    BY <1>2, FS_Singleton
  <2>2. PICK f : Drops(f, t, tiled, 1) /\ DropStale(t, tiled) = f[1]
    BY <2>1, DropStaleDrops
  <2>3. f[1] = Dropped(t, tiled)
    <3>1. f[0] = t /\ f[1] = Dropped(f[1 - 1], tiled)
      BY <2>2 DEF Drops
    <3> QED BY <3>1
  <2>4. FirstOf(t, {v}) = v
    <3>1. {v} \in SUBSET LeafViews(t) /\ {v} # {} /\ Linked(t)
      BY <1>2 DEF Sound
    <3>2. FirstOf(t, {v}) \in {v}
      BY <3>1, FirstIsOne
    <3> QED BY <3>2
  <2> QED BY <1>2, <2>2, <2>3, <2>4 DEF Dropped
<1> QED
  BY <1>1, <1>2

(* It adds nothing where every tiled view has a leaf, and the one leaf that
   lacks where one does.                                                     *)
LEMMA AddOne ==
    ASSUME NEW t, Sound(t), NEW a \in Area, NEW focused, NEW cursor
    PROVE  /\ \A order : Orders(order, 0, t) => AddMissing(t, order, a, focused, cursor) = t
           /\ \A order : Orders(order, 1, t) =>
                  AddMissing(t, order, a, focused, cursor)
                      = InsertLeaf(t, order[1], a, focused, cursor)
<1> SUFFICES ASSUME NEW w, w = <<a, focused, cursor>>
             PROVE  /\ \A order : Orders(order, 0, t) =>
                           AddMissing(t, order, a, focused, cursor) = t
                    /\ \A order : Orders(order, 1, t) =>
                           AddMissing(t, order, a, focused, cursor)
                               = InsertLeaf(t, order[1], a, focused, cursor)
  OBVIOUS
<1>1. ASSUME NEW order, Orders(order, 0, t)
      PROVE  AddMissing(t, order, a, focused, cursor) = t
  <2>1. PICK f : Adds(f, t, order, 0, w) /\ AddMissing(t, order, a, focused, cursor) = f[0]
    BY <1>1, AddMissingAdds
  <2> QED BY <2>1 DEF Adds
<1>2. ASSUME NEW order, Orders(order, 1, t)
      PROVE  AddMissing(t, order, a, focused, cursor) = InsertLeaf(t, order[1], a, focused, cursor)
  <2>1. PICK f : Adds(f, t, order, 1, w) /\ AddMissing(t, order, a, focused, cursor) = f[1]
    BY <1>2, AddMissingAdds
  <2>2. f[0] = t /\ f[1] = Added(f[1 - 1], order[1], w)
    BY <2>1 DEF Adds
  <2>3. f[1] = Added(t, order[1], w)
    BY <2>2
  <2>4. w[1] = a /\ w[2] = focused /\ w[3] = cursor
    OBVIOUS
  <2> QED BY <2>1, <2>3, <2>4 DEF Added
<1> QED
  BY <1>1, <1>2

(* dwindle::arrange, step by step. *)
LEMMA ArrangeSteps ==
    ASSUME NEW t, NEW tiled, NEW order, NEW a, NEW focused, NEW cursor,
           NEW w, w = AddMissing(DropStale(t, tiled), order, a, focused, cursor), w.root # Nil
    PROVE  Arrange(t, tiled, order, a, focused, cursor) = Recalc(Anchored(w, a), w.root)
  BY DEF Arrange, Fitted, Sync, Anchored

(* The leaves of t, but one at most, have the same box in r. *)
AllButOne(r, t) == \E on : \A w \in LeafViews(t) \ {on} : r.box[w] = t.box[w]

(* Where a view comes, one leaf at most has another box afterwards: the one it
   shares.                                                                   *)
LEMMA Arrival ==
    ASSUME NEW t, Sound(t), NEW a \in Area, Boxed(t, a), t.root # Nil,
           NEW status \in [View -> At], NEW v \in View \ LeafViews(t),
           With(status, "tiled") = LeafViews(t) \cup {v},
           NEW focus, NEW r \in Arrangements(t, status, a, focus)
    PROVE  AllButOne(r, t)
<1> DEFINE tiled == With(status, "tiled")
<1>1. PICK order, m, f, cursor : Ordered(order, m, t, tiled) /\ r = Arrange(t, tiled, order, a, f, cursor)
  BY ArrangementOrder
<1>2. Orders(order, 1, t) /\ order[1] = v
  <2>1. tiled \ LeafViews(t) = {v}
    OBVIOUS
  <2> HIDE DEF tiled
  <2>2. m = 1
    BY <1>1, <2>1, FS_Singleton DEF Ordered
  <2>3. order[1] \in {v}
    <3>1. 1 \in 1..m
      BY <2>2
    <3>2. order[1] \in {order[j] : j \in 1..m}
      BY <3>1
    <3>3. {order[j] : j \in 1..m} = tiled \ LeafViews(t)
      BY <1>1 DEF Ordered
    <3> QED BY <2>1, <3>2, <3>3
  <2> QED BY <1>1, <2>2, <2>3 DEF Ordered
<1>3. DropStale(t, tiled) = t
  <2>1. LeafViews(t) \ tiled = {}
    OBVIOUS
  <2> HIDE DEF tiled
  <2> QED BY <2>1, DropOne
<1> HIDE DEF tiled
<1> DEFINE u == InsertLeaf(t, v, a, f, cursor)
           on == OpeningOn(t, f)
<1>4. AddMissing(DropStale(t, tiled), order, a, f, cursor) = u
  BY <1>2, <1>3, AddOne
<1>5. v \notin Used(t)
  BY DEF LeafViews
<1>6. PICK p \in Split \ Used(t) : \E q \in TreeState :
          Inserted(q, t, on, v, p) /\ u = Recalc(q, p)
  BY <1>5, InsertSplits
<1>7. PICK q \in TreeState : Inserted(q, t, on, v, p) /\ u = Recalc(q, p)
  BY <1>6
<1>8. on \in LeafViews(t)
  BY <1>5, InsertSplits
<1>9. Sound(u)
  BY <1>5, InsertSound
<1> HIDE DEF u, on
<1>10. Linked(t) /\ Shaped(q) /\ on \in Used(t) /\ on \in View /\ Grafts(q, t, on, v, p)
  BY <1>7, <1>8, TreeMade DEF Sound, Inserted, LeafViews
<1>11. Linked(q) /\ Used(q) = Used(t) \cup {p, v}
  BY <1>5, <1>10, Grafted
<1>12. /\ SameLinks(u, q) /\ Used(u) = Used(q)
       /\ \A s \in Split : Unturned(u, q, s)
  <2>1. p \in Used(q) /\ p \in Split
    BY <1>11
  <2>2. SameLinks(u, q) /\ u.ratio = q.ratio
    BY <1>7, <1>11, <2>1, RecalcEffect
  <2>3. Used(u) = Used(q)
    BY <1>11, <2>2, LinksOnly
  <2>4. PreserveSplit => \A s \in Split : u.top[s] = q.top[s]
    BY <1>7, RecalcTops
  <2> QED BY <2>2, <2>3, <2>4 DEF Unturned
<1>13. u.root # Nil
  <2>1. v \in Used(u)
    BY <1>11, <1>12
  <2> QED BY <1>9, <2>1, UsedLeast DEF Sound, Linked
<1>14. r = Recalc(Anchored(u, a), u.root)
  <2> DEFINE w == AddMissing(DropStale(t, tiled), order, a, f, cursor)
  <2>1. w = u
    BY <1>4
  <2>2. w.root # Nil
    BY <1>13, <2>1
  <2> HIDE DEF w
  <2>3. Arrange(t, tiled, order, a, f, cursor) = Recalc(Anchored(w, a), w.root)
    BY <2>2, ArrangeSteps DEF w
  <2> QED BY <1>1, <2>1, <2>3
<1>15. /\ Tidy(r, LeafViews(u), a) /\ SameLinks(r, u) /\ Used(r) = Used(u)
       /\ \A s \in Split : Unturned(r, u, s)
  BY <1>9, <1>13, <1>14, RecalcKeeps
<1>16. /\ Used(r) = Used(t) \cup {p, v} /\ r.root = q.root /\ r.kid = q.kid
       /\ Linked(r) /\ Shaped(r) /\ Boxed(r, a)
       /\ \A s \in Split \ {p} : Unturned(r, t, s)
  <2>1. Used(r) = Used(t) \cup {p, v} /\ r.root = q.root /\ r.kid = q.kid
    BY <1>11, <1>12, <1>15 DEF SameLinks
  <2>2. Linked(r) /\ Shaped(r) /\ Boxed(r, a)
    BY <1>15 DEF Tidy, Laid, Sound, Linked
  <2>3. \A s \in Split \ {p} : Unturned(q, t, s)
    BY <1>7 DEF Inserted, Unturned
  <2>4. \A s \in Split \ {p} : Unturned(r, t, s)
    BY <1>12, <1>15, <2>3 DEF Unturned
  <2> QED BY <2>1, <2>2, <2>4
<1> DEFINE old(n) == IF n = p THEN t.box[on] ELSE t.box[n]
           S == {n \in Used(r) : n \in {v, on} \/ r.box[n] = old(n)}
<1>17. r.root \in S
  <2>1. r.root = IF on = t.root THEN p ELSE t.root
    BY <1>10, <1>16 DEF Grafts
  <2>2. r.root \in Used(r) /\ r.root # Nil
    <3>1. v \in Used(r)
      BY <1>16
    <3> QED BY <1>16, <3>1, UsedLeast
  <2>3. r.box[r.root] = Corner(a) /\ t.box[t.root] = Corner(a)
    BY <1>16, <2>2 DEF Boxed
  <2>4. t.root \in Used(t)
    BY <1>10, RootParent
  <2> QED BY <2>1, <2>2, <2>3, <2>4
<1>18. ASSUME NEW s \in S \cap Split, NEW i \in 0 .. 1 PROVE r.kid[s][i] \in S
  <2>1. s \in Used(r) /\ s \in Split /\ s # v /\ s # on
    BY <1>10, DwindleConstants
  <2>2. r.kid[s][i] \in Used(r)
    BY <1>16, <2>1, UsedDown
  <2>3. CASE s = p
    <3>1. i = 0 \/ i = 1
      OBVIOUS
    <3>2. r.kid[s][i] \in {v, on}
      BY <1>10, <1>16, <2>3, <3>1 DEF Grafts
    <3> QED BY <2>2, <3>2
  <2>4. CASE s # p
    <3>1. s \in Used(t) /\ r.box[s] = t.box[s]
      BY <1>16, <2>1, <2>4
    <3>2. r.kid[s][i] = IF t.kid[s][i] = on THEN p ELSE t.kid[s][i]
      BY <1>10, <1>16, <2>1, <2>4 DEF Grafts
    <3>3. /\ Unturned(r, t, s) /\ Shares(t, s) /\ Stacked(t, s)
          /\ Shares(r, s) /\ Stacked(r, s)
      BY <1>16, <2>1, <2>4, <3>1 DEF Boxed
    <3>4. r.box[r.kid[s][i]] = t.box[t.kid[s][i]]
      BY <3>1, <3>3, SameShares
    <3>5. t.kid[s][i] \in Used(t)
      BY <1>10, <2>1, <3>1, UsedDown
    <3> QED BY <2>2, <3>2, <3>4, <3>5
  <2> QED BY <2>3, <2>4
<1>19. Used(r) \subseteq S
  <2>1. S \in SUBSET Node
    BY <1>16, UsedLeast
  <2>2. Closed(r, S)
    BY <1>18 DEF Closed
  <2>3. \A R \in SUBSET Node : r.root \in R /\ Closed(r, R) => Used(r) \subseteq R
    BY <1>16, UsedLeast
  <2> HIDE DEF S
  <2> QED BY <1>17, <2>1, <2>2, <2>3
<1>20. \A w \in LeafViews(t) \ {on} : r.box[w] = t.box[w]
  <2> SUFFICES ASSUME NEW w \in LeafViews(t) \ {on} PROVE r.box[w] = t.box[w]
    OBVIOUS
  <2>1. w \in Used(t) /\ w \in Used(r) /\ w # p /\ w # v
    BY <1>5, <1>6, <1>16 DEF LeafViews
  <2> QED BY <1>19, <2>1
<1> QED
  BY <1>20 DEF AllButOne

(* Where a view goes, only leaves below its sibling have another box. *)
LEMMA Departure ==
    ASSUME NEW t, Sound(t), NEW a \in Area, Boxed(t, a),
           NEW status \in [View -> At], NEW v \in View, HasSplit(t, v),
           With(status, "tiled") = LeafViews(t) \ {v},
           NEW focus, NEW r \in Arrangements(t, status, a, focus)
    PROVE  \A w \in LeafViews(t) \ {v} :
               w \notin Below(t, Sibling(t, v)) => r.box[w] = t.box[w]
<1> DEFINE tiled == With(status, "tiled")
           p == t.up[v]
           heir == Sibling(t, v)
           u == RemoveLeaf(t, v)
<1>1. PICK order, m, f, cursor : Ordered(order, m, t, tiled) /\ r = Arrange(t, tiled, order, a, f, cursor)
  BY ArrangementOrder
<1>2. v \in LeafViews(t) /\ v \in Used(t) /\ v # t.root /\ p \in Split /\ p \in Used(t) /\ t.root # Nil
  <2>1. v \in LeafViews(t) /\ v \in Used(t) /\ v # t.root /\ p \in Split /\ p \in Used(t)
    BY SplitAbove
  <2>2. t.root # Nil
    BY <2>1, UsedLeast DEF Sound, Linked
  <2> QED BY <2>1, <2>2
<1>3. DropStale(t, tiled) = u
  <2>1. LeafViews(t) \ tiled = {v}
    BY <1>2
  <2> HIDE DEF tiled
  <2> QED BY <2>1, DropOne
<1>4. Sound(u) /\ LeafViews(u) = LeafViews(t) \ {v}
  BY <1>2, RemoveSound
<1>5. Orders(order, 0, u)
  <2>1. tiled \ LeafViews(t) = {}
    OBVIOUS
  <2> HIDE DEF tiled
  <2>2. m = 0
    BY <1>1, <2>1, FS_EmptySet DEF Ordered
  <2> QED BY <1>1, <2>2 DEF Ordered, Orders
<1>6. PICK q \in TreeState : Removed(q, t, v, p, heir) /\ u = Recalc(q, heir)
  BY <1>2, RemoveUnlinks
<1>7. Linked(t) /\ Shaped(q) /\ Prunes(q, t, v, p, heir)
  BY <1>6, TreeMade DEF Sound, Removed
<1>8. Linked(q) /\ Used(q) = Used(t) \ {p, v} /\ heir \in Used(q)
  BY <1>2, <1>7, Pruned
<1>9. p \notin Below(t, heir) /\ heir \in Used(t)
  BY <1>2, <1>7, LeafLinks
<1> HIDE DEF tiled, u, p, heir
<1>10. AddMissing(DropStale(t, tiled), order, a, f, cursor) = u
  BY <1>3, <1>4, <1>5, AddOne
<1>11. /\ SameLinks(u, q) /\ Used(u) = Used(q)
       /\ \A s \in Split : Unturned(u, q, s)
  <2>1. SameLinks(u, q) /\ u.ratio = q.ratio
    BY <1>6, <1>8, RecalcEffect
  <2>2. Used(u) = Used(q)
    BY <1>8, <2>1, LinksOnly
  <2>3. PreserveSplit => \A s \in Split : u.top[s] = q.top[s]
    BY <1>6, RecalcTops
  <2> QED BY <2>1, <2>2, <2>3 DEF Unturned
<1>12. u.root # Nil
  BY <1>4, <1>8, <1>11, UsedLeast DEF Sound, Linked
<1>13. r = Recalc(Anchored(u, a), u.root)
  <2> DEFINE w == AddMissing(DropStale(t, tiled), order, a, f, cursor)
  <2>1. w = u
    BY <1>10
  <2>2. w.root # Nil
    BY <1>12, <2>1
  <2> HIDE DEF w
  <2>3. Arrange(t, tiled, order, a, f, cursor) = Recalc(Anchored(w, a), w.root)
    BY <2>2, ArrangeSteps DEF w
  <2> QED BY <1>1, <2>1, <2>3
<1>14. /\ Tidy(r, LeafViews(u), a) /\ SameLinks(r, u) /\ Used(r) = Used(u)
       /\ \A s \in Split : Unturned(r, u, s)
  BY <1>4, <1>12, <1>13, RecalcKeeps
<1>15. /\ Used(r) = Used(t) \ {p, v} /\ r.root = q.root /\ r.kid = q.kid
       /\ Linked(r) /\ Shaped(r) /\ Boxed(r, a) /\ heir \in Used(r)
       /\ \A s \in Split \ {p} : Unturned(r, t, s)
  <2>1. Used(r) = Used(t) \ {p, v} /\ r.root = q.root /\ r.kid = q.kid /\ heir \in Used(r)
    BY <1>8, <1>11, <1>14 DEF SameLinks
  <2>2. Linked(r) /\ Shaped(r) /\ Boxed(r, a)
    BY <1>14 DEF Tidy, Laid, Sound, Linked
  <2>3. \A s \in Split \ {p} : Unturned(q, t, s)
    BY <1>6 DEF Removed, Unturned
  <2>4. \A s \in Split \ {p} : Unturned(r, t, s)
    BY <1>11, <1>14, <2>3 DEF Unturned
  <2> QED BY <2>1, <2>2, <2>4
<1> DEFINE B == Below(t, heir)
           S == {n \in Used(r) : n \in B \/ r.box[n] = t.box[n]}
<1>16. heir \in B /\ Closed(t, B) /\ \A m2 \in B : m2 \in Used(t)
  BY <1>7, <1>9, UsedDown
<1>17. r.root \in S
  <2>1. r.root = IF p = t.root THEN heir ELSE t.root
    BY <1>7, <1>15 DEF Prunes
  <2>2. r.root \in Used(r) /\ r.root # Nil
    BY <1>15, UsedLeast
  <2>3. r.box[r.root] = Corner(a) /\ t.box[t.root] = Corner(a)
    BY <1>2, <1>15, <2>2 DEF Boxed
  <2> HIDE DEF B
  <2> QED BY <1>16, <2>1, <2>2, <2>3
<1>18. ASSUME NEW s \in S \cap Split, NEW i \in 0 .. 1 PROVE r.kid[s][i] \in S
  <2>1. s \in Used(r) /\ s \in Split /\ s # p /\ s \in Used(t)
    BY <1>15
  <2>2. r.kid[s][i] \in Used(r)
    BY <1>15, <2>1, UsedDown
  <2>3. r.kid[s][i] = IF t.kid[s][i] = p THEN heir ELSE t.kid[s][i]
    BY <1>7, <1>15, <2>1 DEF Prunes
  <2>4. CASE s \in B
    <3>1. t.kid[s][i] \in B
      <4>1. t.kid[s][i] \in B \cup {Nil} /\ t.kid[s][i] \in Used(t)
        BY <1>7, <1>16, <2>1, <2>4, UsedDown DEF Closed
      <4>2. Used(t) \subseteq Node
        BY <1>7, UsedLeast DEF Linked
      <4> QED BY <4>1, <4>2, DwindleConstants
    <3> QED BY <1>16, <2>2, <2>3, <3>1
  <2>5. CASE s \notin B
    <3>1. r.box[s] = t.box[s]
      BY <2>5
    <3>2. /\ Unturned(r, t, s) /\ Shares(t, s) /\ Stacked(t, s)
          /\ Shares(r, s) /\ Stacked(r, s)
      BY <1>15, <2>1 DEF Boxed
    <3>3. r.box[r.kid[s][i]] = t.box[t.kid[s][i]]
      BY <3>1, <3>2, SameShares
    <3> QED BY <1>16, <2>2, <2>3, <3>3
  <2> QED BY <2>4, <2>5
<1>19. Used(r) \subseteq S
  <2>1. S \in SUBSET Node
    BY <1>15, UsedLeast
  <2>2. Closed(r, S)
    BY <1>18 DEF Closed
  <2>3. \A R \in SUBSET Node : r.root \in R /\ Closed(r, R) => Used(r) \subseteq R
    BY <1>15, UsedLeast
  <2> HIDE DEF S
  <2> QED BY <1>17, <2>1, <2>2, <2>3
<1>20. \A w \in LeafViews(t) \ {v} : w \notin B => r.box[w] = t.box[w]
  <2> SUFFICES ASSUME NEW w \in LeafViews(t) \ {v}, w \notin B PROVE r.box[w] = t.box[w]
    OBVIOUS
  <2>1. w \in Used(r)
    <3>1. w \in Used(t) /\ w \in View /\ w # p
      BY <1>2, DwindleConstants DEF LeafViews
    <3> QED BY <1>15, <3>1
  <2> QED BY <1>19, <2>1
<1> QED
  BY <1>20 DEF heir

(* An arrange() that hides the tiled views of no leaf: the tree it starts from
   is laid out as before.                                                    *)
LEMMA HiddenBoxed ==
    ASSUME NEW t, Sound(t), NEW a, Boxed(t, a), NEW S, NEW r, r = Put(t, S, Elsewhere)
    PROVE  /\ Sound(r) /\ Boxed(r, a) /\ r.root = t.root /\ r.box = t.box
           /\ LeafViews(r) = LeafViews(t)
           /\ \A v \in View : /\ HasSplit(r, v) <=> HasSplit(t, v)
                              /\ HasSplit(t, v) => Below(r, Sibling(r, v)) = Below(t, Sibling(t, v))
<1>1. /\ Sound(r) /\ LeafViews(r) = LeafViews(t) /\ Used(r) = Used(t)
      /\ SameLinks(r, t) /\ r.box = t.box /\ r.top = t.top /\ r.ratio = t.ratio
  BY PutSound
<1>2. \A s : (Shares(r, s) <=> Shares(t, s)) /\ (Stacked(r, s) <=> Stacked(t, s))
  BY <1>1 DEF Shares, Stacked, Stacks, SameLinks
<1>3. Boxed(r, a)
  BY <1>1, <1>2 DEF Boxed, SameLinks
<1>4. ASSUME NEW v \in View
      PROVE  /\ HasSplit(r, v) <=> HasSplit(t, v)
             /\ HasSplit(t, v) => Below(r, Sibling(r, v)) = Below(t, Sibling(t, v))
  <2>1. HasSplit(r, v) <=> HasSplit(t, v)
    BY <1>1 DEF HasSplit, SameLinks
  <2>2. Sibling(r, v) = Sibling(t, v)
    BY <1>1 DEF Sibling, Side, SameLinks
  <2>3. ASSUME HasSplit(t, v) PROVE Sibling(t, v) \in Node
    <3>1. v \in Used(t) /\ v # t.root /\ Linked(t)
      BY <2>3, SplitAbove DEF Sound
    <3>2. Sibling(t, v) \in Used(t) /\ Used(t) \subseteq Node
      BY <3>1, LeafLinks, UsedLeast DEF Linked
    <3> QED BY <3>2
  <2> QED BY <1>1, <2>1, <2>2, <2>3, LinksOnly DEF Sound
<1> QED
  BY <1>1, <1>3, <1>4 DEF SameLinks

(* What OthersStay says of the views W that stay tiled while v comes or goes. *)
Keeps(t, r, from, to, v, W) ==
    /\ from # "tiled" /\ to = "tiled"
           => \E on : \A w \in W \ {on} : r.geo[w] = t.geo[w]
    /\ HasSplit(t, v) /\ from = "tiled" /\ to # "tiled"
           => \A w \in W : w \notin Below(t, Sibling(t, v)) => r.geo[w] = t.geo[w]

Stay(t, r, old, new, v) ==
    LET kept == {w \in View \ {v} : old[w] = "tiled" /\ new[w] = "tiled"}
    IN  Keeps(t, r, old[v], new[v], v, kept)

(* arrange() keeps them. *)
LEMMA ArrangeStays ==
    ASSUME NEW t, Sound(t), NEW a \in Area, NEW old \in [View -> At], Tiles(t, old, a),
           \A w \in View : old[w] = "tiled" <=> w \in LeafViews(t),
           NEW new \in [View -> At], NEW v \in View, \A w \in View \ {v} : new[w] = old[w],
           NEW u, u = Put(t, {w \in View : new[w] = "idle" /\ old[w] # "idle"}, Elsewhere),
           NEW focus, NEW r \in Arrangements(u, new, a, focus)
    PROVE  Stay(t, r, old, new, v)
<1> DEFINE kept == {w \in View \ {v} : old[w] = "tiled" /\ new[w] = "tiled"}
<1>1. Boxed(t, a)
  BY DEF Tiles
<1>2. /\ Sound(u) /\ Boxed(u, a) /\ u.root = t.root /\ u.box = t.box
      /\ LeafViews(u) = LeafViews(t)
      /\ HasSplit(u, v) <=> HasSplit(t, v)
      /\ HasSplit(t, v) => Below(u, Sibling(u, v)) = Below(t, Sibling(t, v))
  BY <1>1, HiddenBoxed
<1>3. Tidy(r, With(new, "tiled"), a)
  BY <1>2, ArrangementsTidy
<1>4. \A w \in kept : /\ w \in LeafViews(u) /\ w # v
                      /\ t.geo[w] = Inset(u.box[w]) /\ r.geo[w] = Inset(r.box[w])
  BY <1>2, <1>3 DEF Tidy, Laid, Tiles, With
<1>5. LeafViews(t) \subseteq View
  BY DEF LeafViews
<1>6. ASSUME old[v] # "tiled", new[v] = "tiled"
      PROVE  \E on : \A w \in kept \ {on} : r.geo[w] = t.geo[w]
  <2>1. v \in View \ LeafViews(u) /\ With(new, "tiled") = LeafViews(u) \cup {v}
    BY <1>2, <1>5, <1>6 DEF With
  <2>2. CASE u.root = Nil
    <3>1. LeafViews(u) = {}
      BY <1>2, <2>2, UsedLeast DEF Sound, Linked, LeafViews
    <3>2. kept = {}
      BY <1>4, <3>1
    <3> HIDE DEF kept
    <3> QED BY <3>2
  <2>3. CASE u.root # Nil
    <3>1. AllButOne(r, u)
      BY <1>2, <2>1, <2>3, Arrival
    <3>2. PICK on : \A w \in LeafViews(u) \ {on} : r.box[w] = u.box[w]
      BY <3>1 DEF AllButOne
    <3>3. \A w \in kept \ {on} : r.geo[w] = t.geo[w]
      BY <1>4, <3>2
    <3> HIDE DEF kept
    <3> QED BY <3>3, Zenon
  <2> QED BY <2>2, <2>3
<1>7. ASSUME HasSplit(t, v), old[v] = "tiled", new[v] # "tiled"
      PROVE  \A w \in kept : w \notin Below(t, Sibling(t, v)) => r.geo[w] = t.geo[w]
  <2>1. HasSplit(u, v) /\ With(new, "tiled") = LeafViews(u) \ {v}
    BY <1>2, <1>5, <1>7 DEF With
  <2>2. \A w \in LeafViews(u) \ {v} :
            w \notin Below(u, Sibling(u, v)) => r.box[w] = u.box[w]
    BY <1>2, <2>1, Departure
  <2> HIDE DEF kept
  <2> QED BY <1>2, <1>4, <1>7, <2>2
<1> QED
  BY <1>6, <1>7 DEF Stay, Keeps

(* A step that leaves every view where it was, or takes one view that is tiled
   no more elsewhere, is such a step.                                        *)
LEMMA NothingComes ==
    ASSUME NEW t, NEW r, NEW old, NEW new, NEW v, new[v] = old[v]
    PROVE  Stay(t, r, old, new, v)
  BY DEF Stay, Keeps

(* A view that is put elsewhere and is tiled no more.                        *)
LEMMA PutStays ==
    ASSUME NEW t, Sound(t), NEW old \in [View -> At], NEW x \in View, NEW to \in At,
           to # "tiled", NEW geo \in {Elsewhere, Column, Whole},
           NEW r, r = Put(t, {x}, geo), NEW new, new = [old EXCEPT ![x] = to], NEW v
    PROVE  Stay(t, r, old, new, v)
<1>1. \A w \in View : r.geo[w] = IF w \in {x} THEN geo ELSE t.geo[w]
  BY PutSound
<1>2. \A w \in View : new[w] = "tiled" => w # x
  OBVIOUS
<1>3. \A w \in {w \in View \ {v} : old[w] = "tiled" /\ new[w] = "tiled"} : r.geo[w] = t.geo[w]
  BY <1>1, <1>2
<1> QED
  BY <1>3 DEF Stay, Keeps

(* So is every step that concerns one view. *)
LEMMA NextStays ==
    ASSUME IInv, [Next]_vars, NEW v \in View, mode = "dwindle", InSync,
           UNCHANGED <<mode, area>>, \A w \in View \ {v} : at'[w] = at[w]
    PROVE  Stay(tree, tree', at, at', v)
<1>1. Sound(tree) /\ at \in [View -> At] /\ area \in Area /\ Tiles(tree, at, area)
  BY DEF IInv, TypeOK
<1>2. ASSUME NEW x \in View, EnterFullscreen(x) PROVE Stay(tree, tree', at, at', v)
  <2>1. tree' = Put(tree, {x}, Whole) /\ at' = [at EXCEPT ![x] = "full"]
    BY <1>2 DEF EnterFullscreen
  <2>2. "full" \in At /\ "full" # "tiled"
    BY DEF At
  <2> QED BY <1>1, <2>1, <2>2, PutStays
<1>3. ASSUME NEW x \in View, NEW to \in {"none", "away"}, Go(x, to)
      PROVE  Stay(tree, tree', at, at', v)
  <2>1. tree' = Put(tree, {x}, Elsewhere) /\ at' = [at EXCEPT ![x] = to]
    BY <1>3 DEF Go
  <2>2. to \in At /\ to # "tiled"
    BY DEF At
  <2> QED BY <1>1, <2>1, <2>2, PutStays
<1>4. ASSUME NEW S \in SUBSET View, NEW H \in SUBSET (View \ S), Retile(S, H)
      PROVE  Stay(tree, tree', at, at', v)
  <2> DEFINE status == [w \in View |-> IF w \in S THEN "tiled"
                                       ELSE IF w \in H THEN "idle" ELSE at[w]]
             hidden == {w \in H : at[w] # "idle"}
             anyone == With(status, "tiled") \cup {NoView}
  <2>1. /\ at' = status /\ tree' \in Layouts(Put(tree, hidden, Elsewhere), mode, status, area)
        /\ With(at, "idle") \subseteq S \cup H
    BY <1>4 DEF Retile
  <2>2. status \in [View -> At]
    BY <1>1 DEF At
  <2>3. hidden = {w \in View : status[w] = "idle" /\ at[w] # "idle"}
    OBVIOUS
  <2>4. tree' \in Arrangements(Put(tree, hidden, Elsewhere), status, area, anyone)
    BY <2>1 DEF Layouts
  <2> HIDE DEF status, hidden, anyone
  <2> QED BY <1>1, <2>1, <2>2, <2>3, <2>4, ArrangeStays DEF InSync
<1>5. CASE at' = at
  BY <1>5, NothingComes
<1>6. ASSUME NEW kind, NEW x, NEW t, Command(kind, x, t) PROVE at' = at
  BY <1>6 DEF Command
<1>7. \/ \E x \in View : EnterFullscreen(x) \/ \E to \in {"none", "away"} : Go(x, to)
      \/ \E S \in SUBSET View : \E H \in SUBSET (View \ S) : Retile(S, H)
      \/ at' = at
  BY <1>6 DEF Next, MoveAway, Destroy, SetLayout, Resize, Toggle, Swap, Rotate, SplitRatio, ToRoot, vars
<1> QED
  BY <1>2, <1>3, <1>4, <1>5, <1>7

(* The views that a set holds, when one exception is made: one at most. *)
LEMMA AtMostOne ==
    ASSUME NEW S, NEW on, S \subseteq {on}
    PROVE  Cardinality(S) <= 1
<1>1. S = {} \/ S = {on}
  OBVIOUS
<1>2. Cardinality({}) = 0 /\ Cardinality({on}) = 1
  BY FS_EmptySet, FS_Singleton
<1> QED
  BY <1>1, <1>2

(* A window that comes takes its room from one other at most, and one that goes
   gives it to the windows below its sibling: no other window moves, whatever
   the tree, the ratios and the commands before (insertLeaf, removeLeaf).    *)
THEOREM OthersKeepTheirPlace == Spec => OthersStay
<1> DEFINE StayOf(v) ==
        LET kept == {w \in View \ {v} : at[w] = "tiled" /\ at'[w] = "tiled"}
            moved == {w \in kept : tree'.geo[w] # tree.geo[w]}
        IN  /\ mode = "dwindle" /\ InSync /\ UNCHANGED <<mode, area>>
            /\ \A w \in View \ {v} : at'[w] = at[w]
            => /\ at[v] # "tiled" /\ at'[v] = "tiled"
                      => Cardinality(moved) <= 1
               /\ HasSplit(tree, v) /\ at[v] = "tiled" /\ at'[v] # "tiled"
                      => moved \subseteq Below(tree, Sibling(tree, v))
<1>1. ASSUME IInv, [Next]_vars, NEW v \in View PROVE StayOf(v)
  <2> DEFINE kept == {w \in View \ {v} : at[w] = "tiled" /\ at'[w] = "tiled"}
             moved == {w \in kept : tree'.geo[w] # tree.geo[w]}
  <2> SUFFICES ASSUME mode = "dwindle", InSync, UNCHANGED <<mode, area>>,
                      \A w \in View \ {v} : at'[w] = at[w]
               PROVE  /\ at[v] # "tiled" /\ at'[v] = "tiled"
                             => Cardinality(moved) <= 1
                      /\ HasSplit(tree, v) /\ at[v] = "tiled" /\ at'[v] # "tiled"
                             => moved \subseteq Below(tree, Sibling(tree, v))
    OBVIOUS
  <2>1. Keeps(tree, tree', at[v], at'[v], v, kept)
    <3>1. Stay(tree, tree', at, at', v)
      BY <1>1, NextStays
    <3> QED BY <3>1 DEF Stay
  <2>2. ASSUME at[v] # "tiled", at'[v] = "tiled" PROVE Cardinality(moved) <= 1
    <3>1. PICK on : \A w \in kept \ {on} : tree'.geo[w] = tree.geo[w]
      BY <2>1, <2>2 DEF Keeps
    <3>2. moved \subseteq {on}
      BY <3>1
    <3> HIDE DEF moved
    <3> QED BY <3>2, AtMostOne
  <2>3. ASSUME HasSplit(tree, v), at[v] = "tiled", at'[v] # "tiled"
        PROVE  moved \subseteq Below(tree, Sibling(tree, v))
    BY <2>1, <2>3 DEF Keeps
  <2> QED BY <2>2, <2>3
<1>2. IInv /\ [Next]_vars => [\A v \in View : StayOf(v)]_vars
  <2> HIDE DEF StayOf
  <2> QED BY <1>1
<1> QED
  BY <1>2, Invariant, PTL DEF Spec, OthersStay
=============================================================================
