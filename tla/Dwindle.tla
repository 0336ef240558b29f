------------------------------ MODULE Dwindle ------------------------------
(* The binary tree that tiles one output (dwindle.cpp), the views it tiles and
   the handlers that reach it through layout::arrange() or directly.

   A tree is only brought up to date by the arrange() of its own output, in the
   dwindle layout.  Between two of them views go fullscreen, move to another
   output or are destroyed, and their leaves stay.

   A leaf is named by its view, for a view never has two; an inner node is a
   split, taken from a pool.  The nodes keep both the children that own and the
   parent pointers that do not, as the code does, with their boxes in pixels.

   A leaf may outlive its View, and sync() may lay it out before it drops it,
   which writes to freed memory.  What the write does to anything else is not
   modelled: the steps after it are those of a build that it does not disturb.
   A view that is gone with a geo other than Elsewhere was laid out so.       *)
EXTENDS Integers, FiniteSets, Functions

CONSTANTS
    View, NoView,     \* views; one slot holds one view at a time
    Nil,              \* no node
    Area,             \* the usable boxes that bars and modes leave: [w, h]
    Cursor,           \* where the pointer may be: [x, y]
    Delta,            \* arguments of splitratio(), in tenths
    Gap,              \* settings.gap_px, which nothing keeps from being negative
    PreserveSplit,    \* settings.dwindle_preserve_split
    Commands          \* the kinds of dwindle command that a run issues

Split == 1 .. Cardinality(View) - 1
Node == View \cup Split
MaybeNode == Node \cup {Nil}

ASSUME DwindleConstants ==
    /\ IsFiniteSet(View) /\ View # {} /\ NoView \notin View
    /\ View \cap Split = {}
    /\ Nil \notin Node
    /\ \A a \in Area : a.w \in Nat \ {0} /\ a.h \in Nat \ {0}
    /\ \A c \in Cursor : c.x \in Int /\ c.y \in Int
    /\ Delta \subseteq Int
    /\ Gap \in Int
    /\ PreserveSplit \in BOOLEAN
    /\ Commands \subseteq {"toggle", "swap", "rotate", "ratio", "root"}

VARIABLES
    tree,     \* Output::dwindle_root and what setGeometry() gave the views
    at,       \* what each view is to this output
    area,     \* Output::usable_box, whose corner is the origin
    mode      \* Output::layout_mode

vars == <<tree, at, area, mode>>

At == {"none",     \* no view: not created yet, or destroyed
       "away",     \* on another output
       "idle",     \* on this output, but layout::getTiledViews skips it
       "tiled",    \* counted by layout::getTiledViews
       "full"}     \* fullscreen here

NoBox == [x |-> 0, y |-> 0, w |-> 0, h |-> 0]
Corner(a) == [x |-> 0, y |-> 0, w |-> a.w, h |-> a.h]
\* Geometry that no leaf gave: none of this output's layouts chose it, a slot of
\* the master-stack layout, the whole output.
Elsewhere == [kind |-> "elsewhere"]
Column == [kind |-> "column"]
Whole == [kind |-> "whole"]

Childless == [i \in 0 .. 1 |-> Nil]

Box == [x : Int, y : Int, w : Nat, h : Nat]

TreeState ==
    [root : MaybeNode,
     up : [Node -> Split \cup {Nil}],           \* DwindleNode::parent
     kid : [Split -> [0 .. 1 -> MaybeNode]],   \* DwindleNode::children
     top : [Split -> BOOLEAN],                 \* split_top
     ratio : [Split -> 1 .. 19],               \* split_ratio, in tenths
     box : [Node -> Box],
     geo : [View -> Box \cup {Elsewhere, Column, Whole}]]   \* View::geo

(* No node in use; geo is what each view keeps. *)
Empty(geo) ==
    [root |-> Nil,
     up |-> [n \in Node |-> Nil],
     kid |-> [s \in Split |-> Childless],
     top |-> [s \in Split |-> FALSE],
     ratio |-> [s \in Split |-> 10],
     box |-> [n \in Node |-> NoBox],
     geo |-> geo]

-----------------------------------------------------------------------------
(* Walks down a tree *)

(* The children that the splits of S own. *)
Children(t, S) ==
    (UNION {{t.kid[s][0], t.kid[s][1]} : s \in S \cap Split}) \ {Nil}

(* The nodes below n, itself among them: n, its children, theirs, as deep as
   there are splits.                                                          *)
Below(t, n) ==
    LET Deep[k \in 0 .. Cardinality(Split)] ==
            IF k = 0 THEN {n} \ {Nil}
            ELSE LET known == Deep[k - 1] IN known \cup Children(t, known)
    IN  Deep[Cardinality(Split)]

Used(t) == Below(t, t.root)
LeafViews(t) == Used(t) \cap View

(* The one of the leaves S that collectLeaves and firstLeaf meet first: where
   it is below a second child, no other is below the first.                   *)
FirstOf(t, S) ==
    CHOOSE v \in S : \A s \in Used(t) \cap Split :
        Below(t, t.kid[s][0]) \cap S # {} => v \notin Below(t, t.kid[s][1])

(* Which child of its parent n is; the other one is 1 - Side(t, n). *)
Side(t, n) == IF t.kid[t.up[n]][0] = n THEN 0 ELSE 1
Sibling(t, n) == t.kid[t.up[n]][1 - Side(t, n)]

-----------------------------------------------------------------------------
(* recalc *)

(* The box of child i of a node that has box b. *)
Share(b, top, ratio, i) ==
    LET first == ((IF top THEN b.h ELSE b.w) * ratio) \div 20
    IN  IF top
        THEN IF i = 0 THEN [b EXCEPT !.h = first]
                      ELSE [b EXCEPT !.y = @ + first, !.h = @ - first]
        ELSE IF i = 0 THEN [b EXCEPT !.w = first]
                      ELSE [b EXCEPT !.x = @ + first, !.w = @ - first]

(* Whether split s stacks its children once it has box b. *)
Stacks(t, s, b) == IF PreserveSplit THEN t.top[s] ELSE b.h > b.w

AtLeastOne(n) == IF n < 1 THEN 1 ELSE n

(* What a leaf with box b gives its view: the gap goes off on every side, and
   one pixel is left in any case, be it the next leaf's.                      *)
Inset(b) == [x |-> b.x + Gap, y |-> b.y + Gap,
             w |-> AtLeastOne(b.w - 2 * Gap), h |-> AtLeastOne(b.h - 2 * Gap)]

(* A split below n divides the box its parent gives it between its children, a
   leaf insets its own for its view, which is not asked whether it is tiled, or
   there still.                                                               *)
Recalc(t, n) ==
    LET below == Below(t, n)
        Given[m \in below] ==
            IF m = n THEN t.box[n]
            ELSE LET s == t.up[m]
                     b == Given[s]
                 IN  Share(b, Stacks(t, s, b), t.ratio[s], Side(t, m))
    IN  [t EXCEPT !.box = [m \in Node |-> IF m \in below THEN Given[m]
                                          ELSE t.box[m]],
                  !.geo = [v \in View |-> IF v \in below THEN Inset(Given[v])
                                          ELSE t.geo[v]],
                  !.top = [s \in Split |-> IF s \in below
                                           THEN Stacks(t, s, Given[s])
                                           ELSE t.top[s]]]

-----------------------------------------------------------------------------
(* insertLeaf, removeLeaf, sync, arrange *)

(* The slot under parent p that owned old owns new, or the root does. *)
Rehome(t, p, old, new) ==
    IF p = Nil THEN [t EXCEPT !.root = new]
    ELSE [t EXCEPT !.kid[p][IF t.kid[p][0] = old THEN 0 ELSE 1] = new]

(* What a new leaf shares its box with, were it always the whole tree... *)
OpeningOnRoot(t, focused) == t.root

(* ... and as it is: the focused view's leaf, or the first. *)
OpeningOn(t, focused) ==
    IF focused \in LeafViews(t) THEN focused ELSE FirstOf(t, LeafViews(t))

InsertLeaf(t, v, a, focused, cursor) ==
    IF t.root = Nil
    THEN [t EXCEPT !.root = v, !.box[v] = Corner(a)]
    ELSE
    LET on == OpeningOn(t, focused)
        b == t.box[on]
        free == Split \ Used(t)
        p == CHOOSE s \in free : \A other \in free : s <= other
        side_by_side == b.w > b.h
        first == IF side_by_side THEN 2 * cursor.x < 2 * b.x + b.w
                                 ELSE 2 * cursor.y < 2 * b.y + b.h
        t1 == [t EXCEPT
                  !.up = [@ EXCEPT ![p] = t.up[on], ![on] = p, ![v] = p],
                  !.kid[p] = [i \in 0 .. 1 |->
                                IF (i = 0) = first THEN v ELSE on],
                  !.top[p] = ~side_by_side,
                  !.ratio[p] = 10,
                  !.box[p] = b]
    IN  Recalc(Rehome(t1, t.up[on], on, p), p)

(* The leaf of v and its parent go; the sibling takes the parent's slot and
   box.                                                                      *)
RemoveLeaf(t, v) ==
    LET p == t.up[v]
        heir == Sibling(t, v)
        t1 == [t EXCEPT
                  !.up = [@ EXCEPT ![heir] = t.up[p], ![v] = Nil, ![p] = Nil],
                  !.box = [@ EXCEPT ![heir] = t.box[p], ![v] = NoBox,
                                    ![p] = NoBox],
                  !.kid[p] = Childless, !.top[p] = FALSE, !.ratio[p] = 10]
    IN  IF p = Nil THEN Empty(t.geo)
        ELSE Recalc(Rehome(t1, t.up[p], p, heir), heir)

(* The leaves of views that are tiled no more go, in the order of the tree. *)
DropStale(t, tiled) ==
    LET stale == LeafViews(t) \ tiled
        Left[k \in 0 .. Cardinality(stale)] ==
            IF k = 0 THEN t
            ELSE LET t1 == Left[k - 1]
                 IN  RemoveLeaf(t1, FirstOf(t1, LeafViews(t1) \ tiled))
    IN  Left[Cardinality(stale)]

(* The tiled views that have no leaf get one, in the order of Server::views. *)
AddMissing(t, order, a, focused, cursor) ==
    LET Grown[k \in 0 .. Cardinality(DOMAIN order)] ==
            IF k = 0 THEN t
            ELSE InsertLeaf(Grown[k - 1], order[k], a, focused, cursor)
    IN  Grown[Cardinality(DOMAIN order)]

Sync(t, tiled, order, a, focused, cursor) ==
    AddMissing(DropStale(t, tiled), order, a, focused, cursor)

(* dwindle::arrange, were the root left with the box it had... *)
ArrangeInOldBox(t, tiled, order, a, focused, cursor) ==
    LET t1 == Sync(t, tiled, order, a, focused, cursor)
    IN  IF t1.root = Nil THEN t1 ELSE Recalc(t1, t1.root)

(* ... and as it is: the root gets the usable box. *)
Fitted(t, a) ==
    IF t.root = Nil THEN t
    ELSE Recalc([t EXCEPT !.box[t.root] = Corner(a)], t.root)

Arrange(t, tiled, order, a, focused, cursor) ==
    Fitted(Sync(t, tiled, order, a, focused, cursor), a)

-----------------------------------------------------------------------------
(* The commands' changes to a tree, before the arrange() that ends each *)

(* findLeaf and the null checks: a leaf that has a parent. *)
HasSplit(t, v) == v \in LeafViews(t) /\ t.up[v] # Nil
BelowChildren(t, v) == HasSplit(t, v) /\ t.up[t.up[v]] # Nil

ToggleSplit(t, v) == [t EXCEPT !.top[t.up[v]] = ~@]

Exchange(t, n) == [t EXCEPT !.kid[n] = [i \in 0 .. 1 |-> @[1 - i]]]

SwapSplit(t, v) == Exchange(t, t.up[v])

(* quarters is angle_deg / 90, brought into 0..3: turned that far, the split
   flips on a quarter and the children change places in the cases swapped.    *)
Turn(t, p, quarters, swapped) ==
    LET t1 == [t EXCEPT !.top[p] = (quarters \in {1, 3}) # @]
    IN  IF swapped THEN Exchange(t1, p) ELSE t1

(* rotateSplit, were a quarter to swap in the same case either way round... *)
RotateSwapsAlike(t, v, quarters) ==
    LET p == t.up[v]
    IN  Turn(t, p, quarters, quarters = 2 \/ (quarters \in {1, 3} /\ t.top[p]))

(* ... and as it is. *)
RotateSplit(t, v, quarters) ==
    LET p == t.up[v]
    IN  Turn(t, p, quarters, \/ quarters = 1 /\ t.top[p]
                             \/ quarters = 2
                             \/ quarters = 3 /\ ~t.top[p])

(* adjustSplitRatio, were the ratio not held to 0.1 .. 1.9... *)
AdjustUnclamped(t, v, delta) == [t EXCEPT !.ratio[t.up[v]] = @ + delta]

(* ... and as it is. *)
AdjustSplitRatio(t, v, delta) ==
    LET r == t.ratio[t.up[v]] + delta
    IN  [t EXCEPT !.ratio[t.up[v]] =
            IF r < 1 THEN 1 ELSE IF r > 19 THEN 19 ELSE r]

(* The child of the root that v is below. *)
Ancestor(t, v) ==
    CHOOSE n \in Used(t) : t.up[n] = t.root /\ v \in Below(t, n)

(* v changes places with the other child of the root. *)
Traded(t, v) ==
    LET p == t.up[v]
        other == Sibling(t, Ancestor(t, v))
    IN  [t EXCEPT !.kid = [@ EXCEPT ![p][Side(t, v)] = other,
                                    ![t.root][Side(t, other)] = v],
                  !.up = [@ EXCEPT ![other] = p, ![v] = t.root]]

(* moveToRoot, were the parent of the one that makes room forgotten, or were
   stable taken the other way round...                                       *)
MoveToRootOneWay(t, v, stable) ==
    LET t1 == [Traded(t, v) EXCEPT !.up[Sibling(t, Ancestor(t, v))] = t.root]
    IN  IF stable THEN Exchange(t1, t.root) ELSE t1

MoveToRootCrosses(t, v, stable) ==
    IF stable THEN Traded(t, v) ELSE Exchange(Traded(t, v), t.root)

(* ... and as it is: with stable the root's two children change sides, so that
   v is where its ancestor was.                                              *)
MoveToRoot(t, v, stable) ==
    IF stable THEN Exchange(Traded(t, v), t.root) ELSE Traded(t, v)

-----------------------------------------------------------------------------
(* Handlers that change which views are tiled *)

With(status, what) == {v \in View : status[v] = what}

(* The views on this output. *)
Present(status) == View \ (With(status, "none") \cup With(status, "away"))

(* What dwindle::arrange can make of t: the views without a leaf stand in some
   order in Server::views, one of focus is the focused view (or none on this
   output is) and the pointer is somewhere, all of which only insertions see. *)
Arrangements(t, status, a, focus) ==
    LET tiled == With(status, "tiled")
        missing == tiled \ LeafViews(t)
    IN  IF missing = {} THEN {Arrange(t, tiled, <<>>, a, NoView, NoBox)}
        ELSE {Arrange(t, tiled, order, a, f, cursor) :
                 order \in Bijection(1 .. Cardinality(missing), missing),
                 f \in focus, cursor \in Cursor}

(* layout::arrange, once the views stand as in status: no view but a tiled one
   has a leaf to open on.  The master-stack layout leaves the tree alone.    *)
Layouts(t, m, status, a) ==
    IF m = "dwindle"
    THEN Arrangements(t, status, a, With(status, "tiled") \cup {NoView})
    ELSE {[t EXCEPT !.geo = [v \in View |->
              IF status[v] = "tiled" THEN Column ELSE t.geo[v]]]}

(* The views S get a geometry that no layout chose. *)
Put(t, S, geo) ==
    [t EXCEPT !.geo = [v \in View |-> IF v \in S THEN geo ELSE t.geo[v]]]

Init ==
    /\ tree = Empty([v \in View |-> Elsewhere])
    /\ at = [v \in View |-> "none"]
    /\ area \in Area
    /\ mode = "dwindle"

(* Anything that ends in layout::arrange of this output: views map, unmap, are
   minimized or restored, float or not, change tags, come from another output
   or leave fullscreen; the output shows other tags; or nothing changes at all
   (a reload).  The views S are tiled from now on, the views H hidden or
   floating; the rest stay fullscreen or elsewhere.                          *)
Retile(S, H) ==
    LET status == [v \in View |-> IF v \in S THEN "tiled"
                                  ELSE IF v \in H THEN "idle" ELSE at[v]]
        hidden == {v \in H : at[v] # "idle"}
    IN  /\ With(at, "tiled") \cup With(at, "idle") \subseteq S \cup H
        /\ at' = status
        /\ tree' \in Layouts(Put(tree, hidden, Elsewhere), mode, status, area)
        /\ UNCHANGED <<area, mode>>

(* View::setFullscreen(true) leaves the tree to the next arrange(). *)
EnterFullscreen(v) ==
    /\ at[v] = "tiled"
    /\ at' = [at EXCEPT ![v] = "full"]
    /\ tree' = Put(tree, {v}, Whole)
    /\ UNCHANGED <<area, mode>>

(* The view goes, and its leaf, if it has one, stays. *)
Go(v, to) ==
    /\ at' = [at EXCEPT ![v] = to]
    /\ tree' = Put(tree, {v}, Elsewhere)
    /\ UNCHANGED <<area, mode>>

(* client:move_to_output arranges the other output only... *)
MoveAway(v) == v \in Present(at) /\ Go(v, "away")

(* ... and ~View arranges none.  The view was unmapped before, and hidden by the
   arrange() that goes with it, here or on the other output.                  *)
Destroy(v) == at[v] \in {"idle", "away"} /\ Go(v, "none")

(* uwu.layout.set, which arranges even when the layout stays. *)
SetLayout(m) ==
    /\ mode' = m
    /\ tree' \in Layouts(tree, m, at, area)
    /\ UNCHANGED <<at, area>>

(* A bar, a layer surface or an output mode changes the usable box. *)
Resize(a) ==
    /\ area' = a
    /\ tree' \in Layouts(tree, mode, at, a)
    /\ UNCHANGED <<at, mode>>

-----------------------------------------------------------------------------
(* The commands of uwu.layout.dwindle.  v is the focused view, and no command
   asks which layout the output has.                                         *)

Command(kind, v, t) ==
    /\ kind \in Commands
    /\ v \in Present(at)
    /\ tree' \in Arrangements(t, at, area, {v})
    /\ UNCHANGED <<at, area, mode>>

Toggle(v) == HasSplit(tree, v) /\ Command("toggle", v, ToggleSplit(tree, v))

Swap(v) == HasSplit(tree, v) /\ Command("swap", v, SwapSplit(tree, v))

Rotate(v, quarters) ==
    HasSplit(tree, v) /\ Command("rotate", v, RotateSplit(tree, v, quarters))

SplitRatio(v, delta) ==
    HasSplit(tree, v) /\ Command("ratio", v, AdjustSplitRatio(tree, v, delta))

ToRoot(v, stable) ==
    BelowChildren(tree, v) /\ Command("root", v, MoveToRoot(tree, v, stable))

Next ==
    \/ \E v \in View : EnterFullscreen(v) \/ MoveAway(v) \/ Destroy(v)
    \/ \E S \in SUBSET View : \E H \in SUBSET (View \ S) : Retile(S, H)
    \/ \E m \in {"dwindle", "master"} : SetLayout(m)
    \/ \E a \in Area : Resize(a)
    \/ \E v \in View : Toggle(v) \/ Swap(v)
    \/ \E v \in View, quarters \in 0 .. 3 : Rotate(v, quarters)
    \/ \E v \in View, delta \in Delta : SplitRatio(v, delta)
    \/ \E v \in View, stable \in BOOLEAN : ToRoot(v, stable)

Spec == Init /\ [][Next]_vars

-----------------------------------------------------------------------------
(* Properties *)

(* Every variable keeps its shape, and no split ratio leaves the range that
   keeps both halves of a split on screen (adjustSplitRatio).                *)
TypeOK ==
    /\ tree \in TreeState
    /\ at \in [View -> At]
    /\ area \in Area
    /\ mode \in {"dwindle", "master"}

(* The tree is a tree, whatever was moved about in it: children and parents
   point at each other, no node is reached twice or below itself, no split lacks
   a child and no node is kept that is not reached (the owning and the raw
   pointers of DwindleNode, which every operation of dwindle.cpp relinks by
   hand).                                                                      *)
WellLinked ==
    /\ tree.root # Nil => tree.up[tree.root] = Nil
    /\ \A s \in Split : \A i \in 0 .. 1 :
           LET n == tree.kid[s][i]
           IN  IF s \in Used(tree)
               THEN /\ n # Nil /\ tree.up[n] = s
                    /\ s \notin Below(tree, n)
                    /\ Below(tree, n) \cap Below(tree, tree.kid[s][1 - i]) = {}
               ELSE n = Nil
    /\ \A n \in Node \ Used(tree) : tree.up[n] = Nil

Covers(b, x, y) == x \in b.x .. b.x + b.w - 1 /\ y \in b.y .. b.y + b.h - 1

Inside(b, c) ==
    /\ c.x <= b.x /\ b.x + b.w <= c.x + c.w
    /\ c.y <= b.y /\ b.y + b.h <= c.y + c.h

(* In the dwindle layout the tiled views have a leaf each and its box less the
   gap, and the boxes of the leaves cover the usable box without overlap: every
   pixel belongs to one leaf (dwindle::arrange).  So the windows keep apart
   where no box is as narrow as two gaps; in a box that is, the window still has
   a pixel, which may be the next one's.                                     *)
LeavesTile ==
    mode = "dwindle" =>
        /\ \A v \in With(at, "tiled") :
               v \in LeafViews(tree) /\ tree.geo[v] = Inset(tree.box[v])
        /\ \A v \in LeafViews(tree) : Inside(tree.box[v], Corner(area))
        /\ LET leaves == LeafViews(tree)
           IN  tree.root # Nil =>
                   \A x \in 0 .. area.w - 1, y \in 0 .. area.h - 1 :
                       Cardinality({v \in leaves :
                                        Covers(tree.box[v], x, y)}) = 1

(* Every leaf is of a tiled view: nothing left the tiled set since the last
   arrange of the tree.                                                      *)
InSync == \A v \in View : at[v] = "tiled" <=> v \in LeafViews(tree)

(* moveToRoot makes the view a child of the root however deep it was, and
   with stable on the side of the screen it came from (dwindle.hpp).         *)
MovesToRoot ==
    \A v \in View : BelowChildren(tree, v) =>
        \A stable \in BOOLEAN :
            LET t == MoveToRoot(tree, v, stable)
            IN  /\ t.up[v] = t.root
                /\ stable => Side(t, v) = Side(tree, Ancestor(tree, v))

(* A quarter turn and three more undo each other, in either direction, as do
   two half turns (rotateSplit), when splits keep their orientation.         *)
RotationsCancel ==
    \A v \in View : HasSplit(tree, v) =>
        \A quarters \in 0 .. 3 :
            RotateSplit(RotateSplit(tree, v, quarters), v, (4 - quarters) % 4)
                = tree

(* A window that comes shrinks at most one other, and one that goes lets only
   its sibling's half grow: the other windows stay where they are (insertLeaf,
   removeLeaf; unlike the master-stack layout, which moves them all).        *)
OthersStay ==
    [][\A v \in View :
         LET kept == {w \in View \ {v} : at[w] = "tiled" /\ at'[w] = "tiled"}
             moved == {w \in kept : tree'.geo[w] # tree.geo[w]}
         IN  /\ mode = "dwindle" /\ InSync /\ UNCHANGED <<mode, area>>
             /\ \A w \in View \ {v} : at'[w] = at[w]
             => /\ at[v] # "tiled" /\ at'[v] = "tiled"
                       => Cardinality(moved) <= 1
                /\ HasSplit(tree, v) /\ at[v] = "tiled" /\ at'[v] # "tiled"
                       => moved \subseteq Below(tree, Sibling(tree, v))
         ]_vars
=============================================================================
