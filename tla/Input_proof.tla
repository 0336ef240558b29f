---------------------------- MODULE Input_proof ----------------------------
(***************************************************************************)
(* Proofs about pointer and keyboard input, for any number of windows,     *)
(* buttons, keys, pixels and constraints: the shape of the state, the      *)
(* active constraint that follows the pointer, keys that are never stuck,  *)
(* and the cursor that stays where it is confined.                         *)
(* A handler changes the State record in several places. So each operator  *)
(* on it gets a lemma that says what it changes and what it keeps, and the *)
(* handlers are then put together from those.                              *)
(***************************************************************************)
EXTENDS Input, TLAPS

Held == Button \cup Key \cup {Mod}
Box == [x : Int, w : Nat \ {0}]
Any == View \cup {NoView}

Records ==
    [cursor : Pixel, pointer : Any, keyboard : Any, active : Any,
     constraint : [View -> Constraint \cup {NoConstraint}],
     seen : [View -> SUBSET Held], box : [View -> Box],
     mapped : SUBSET View, above : SUBSET (View \X View), floating : SUBSET View]

Shape(s) == s \in Records /\ s.above \subseteq s.mapped \X s.mapped

(* What a drag remembers is the geometry of a window.                        *)
Drags ==
    [mode : {"Passthrough", "Move", "Resize"}, view : Any, x : Int, geo : Box,
     edge : {"LEFT", "RIGHT"}]

ShapeInv ==
    /\ Shape(State)
    /\ drag \in Drags
    /\ bindGrab \in BOOLEAN
    /\ held \subseteq Held

Follows(s) ==
    s.active # NoView => s.pointer = s.active /\ s.constraint[s.active] # NoConstraint

(* Only the window with keyboard focus takes keys for down, and those are.   *)
KeysIn(s, down) ==
    \A v \in View : \A k \in s.seen[v] \ Button : v = s.keyboard /\ k \in down

(* A confined constraint in force has the cursor inside, if it can be.       *)
Confines(s) ==
    /\ s.active # NoView
    /\ s.constraint[s.active].type = "confined"
    /\ MayBeInside(s)
    => Inside(s)

-----------------------------------------------------------------------------
(* A constraint is locked or confined; none is neither.                      *)
LEMMA ConstraintKinds ==
    /\ \A c \in Constraint : /\ c.type \in {"locked", "confined"}
                             /\ c.region.lo \in Nat /\ c.region.hi \in Nat
                             /\ c # NoConstraint
                             /\ \A r \in Region : [c EXCEPT !.region = r] \in Constraint
    /\ NoConstraint.type = "none" /\ NoConstraint.region.lo = 0 /\ NoConstraint.region.hi = 0
<1>1. ASSUME NEW c \in Constraint
      PROVE  /\ c.type \in {"locked", "confined"}
             /\ c.region.lo \in Nat /\ c.region.hi \in Nat
             /\ \A r \in Region : [c EXCEPT !.region = r] \in Constraint
  <2>1. PICK k \in Kinds, q \in Region : c = [k EXCEPT !.region = q]
    BY DEF Constraint
  <2>2. /\ k \in [type : {"locked", "confined"}, oneshot : BOOLEAN, region : [lo : Nat, hi : Nat]]
        /\ q \in [lo : Nat, hi : Nat]
    BY InputAssumption
  <2>3. ASSUME NEW r \in Region PROVE [c EXCEPT !.region = r] \in Constraint
    <3>1. [c EXCEPT !.region = r] = [k EXCEPT !.region = r]
      BY <2>1, <2>2
    <3> QED BY <3>1 DEF Constraint
  <2>4. c.type = k.type /\ c.region = q
    BY <2>1, <2>2
  <2> QED BY <2>2, <2>3, <2>4
<1> QED BY <1>1 DEF NoConstraint

(* PointerFocus moves the pointer and nothing a keyboard told.               *)
LEMMA PointerFocusDoes ==
    ASSUME NEW s, Shape(s), NEW v \in Any
    PROVE  LET t == PointerFocus(s, v) IN
           /\ Shape(t) /\ t.pointer = v
           /\ t.cursor = s.cursor /\ t.keyboard = s.keyboard /\ t.active = s.active
           /\ t.constraint = s.constraint /\ t.box = s.box
           /\ \A u \in View : t.seen[u] \ Button = s.seen[u] \ Button
<1>1. CASE s.pointer = v
  BY <1>1 DEF PointerFocus
<1>2. CASE s.pointer # v
  <2> DEFINE seen_ == [u \in View |-> IF u = s.pointer THEN s.seen[u] \ Button ELSE s.seen[u]]
  <2>1. PointerFocus(s, v) = [s EXCEPT !.pointer = v, !.seen = seen_]
    BY <1>2 DEF PointerFocus
  <2>2. /\ seen_ \in [View -> SUBSET Held]
        /\ \A u \in View : seen_[u] \ Button = s.seen[u] \ Button
    BY DEF Shape, Records
  <2> HIDE DEF seen_
  <2>3. LET t == PointerFocus(s, v) IN
        /\ t \in Records /\ t.mapped = s.mapped /\ t.above = s.above
        /\ t.pointer = v /\ t.seen = seen_
        /\ t.cursor = s.cursor /\ t.keyboard = s.keyboard /\ t.active = s.active
        /\ t.constraint = s.constraint /\ t.box = s.box
    BY <2>1, <2>2 DEF Shape, Records
  <2> QED BY <2>2, <2>3 DEF Shape
<1> QED BY <1>1, <1>2

(* Raising a window changes the stacking order only. *)
LEMMA RaisedDoes ==
    ASSUME NEW s, Shape(s), NEW v \in View
    PROVE  LET t == Raised(s, v) IN
           /\ Shape(t)
           /\ t.cursor = s.cursor /\ t.pointer = s.pointer /\ t.keyboard = s.keyboard
           /\ t.active = s.active /\ t.constraint = s.constraint /\ t.box = s.box
           /\ t.seen = s.seen /\ t.floating = s.floating
<1> DEFINE others == s.mapped \ {v}
           over == {u \in others : u \in s.floating /\ v \notin s.floating}
           mapped_ == s.mapped \cup {v}
           above_ == {pair \in s.above : v \notin {pair[1], pair[2]}}
                     \cup (over \X {v}) \cup ({v} \X (others \ over))
<1>1. Raised(s, v) = [s EXCEPT !.mapped = mapped_, !.above = above_]
  BY DEF Raised
<1>2. mapped_ \subseteq View /\ above_ \subseteq mapped_ \X mapped_
  BY DEF Shape, Records
<1> HIDE DEF mapped_, above_
<1>3. above_ \subseteq View \X View
  BY <1>2, ZenonT(40)
<1> QED BY <1>1, <1>2, <1>3 DEF Shape, Records

(* The keyboard goes to v with the keys that are down.                       *)
LEMMA FocusViewDoes ==
    ASSUME NEW s, Shape(s), held \subseteq Held, NEW v \in View
    PROVE  LET t == FocusView(s, v) IN
           /\ Shape(t) /\ t.keyboard = v
           /\ t.cursor = s.cursor /\ t.pointer = s.pointer /\ t.active = s.active
           /\ t.constraint = s.constraint /\ t.box = s.box
           /\ KeysIn(s, held) => KeysIn(t, held)
<1>1. CASE s.keyboard = v
  BY <1>1 DEF FocusView
<1>2. CASE s.keyboard # v
  <2> DEFINE r == Raised(s, v)
             seen_ == [u \in View |->
                          IF u = v THEN (s.seen[u] \cap Button) \cup (held \ Button)
                          ELSE IF u = s.keyboard THEN s.seen[u] \cap Button ELSE s.seen[u]]
  <2>1. /\ Shape(r) /\ r.seen = s.seen
        /\ r.cursor = s.cursor /\ r.pointer = s.pointer /\ r.active = s.active
        /\ r.constraint = s.constraint /\ r.box = s.box
    BY RaisedDoes
  <2>2. FocusView(s, v) = [r EXCEPT !.keyboard = v, !.seen = seen_]
    BY <1>2, <2>1 DEF FocusView, Shape, Records
  <2>3. seen_ \in [View -> SUBSET Held]
    BY DEF Shape, Records
  <2>4. ASSUME KeysIn(s, held), NEW u \in View, NEW k \in seen_[u] \ Button
        PROVE  u = v /\ k \in held
    BY <2>4 DEF KeysIn
  <2> HIDE DEF r, seen_
  <2>5. LET t == FocusView(s, v) IN
        /\ Shape(t) /\ t.keyboard = v /\ t.seen = seen_
        /\ t.cursor = r.cursor /\ t.pointer = r.pointer /\ t.active = r.active
        /\ t.constraint = r.constraint /\ t.box = r.box
    BY <2>1, <2>2, <2>3 DEF Shape, Records, Any
  <2> QED BY <2>1, <2>4, <2>5 DEF KeysIn
<1> QED BY <1>1, <1>2

(* The active constraint is dropped, and destroyed if it is a oneshot.       *)
LEMMA DeactivateDoes ==
    ASSUME NEW s, Shape(s)
    PROVE  LET t == Deactivate(s) IN
           /\ Shape(t) /\ t.active = NoView
           /\ t.cursor = s.cursor /\ t.pointer = s.pointer /\ t.keyboard = s.keyboard
           /\ t.box = s.box /\ t.seen = s.seen
           /\ \A v \in View \ {s.active} : t.constraint[v] = s.constraint[v]
<1>1. CASE s.active = NoView
  BY <1>1 DEF Deactivate
<1>2. CASE s.active # NoView
  <2> DEFINE a == s.active
             left == IF s.constraint[a].oneshot THEN NoConstraint ELSE s.constraint[a]
             constraint_ == [s.constraint EXCEPT ![a] = left]
  <2>1. a \in View /\ s.constraint \in [View -> Constraint \cup {NoConstraint}]
    BY <1>2 DEF Shape, Records, Any
  <2>2. Deactivate(s) = [s EXCEPT !.active = NoView, !.constraint = constraint_]
    BY <1>2 DEF Deactivate
  <2>3. left \in Constraint \cup {NoConstraint}
    BY <2>1
  <2> HIDE DEF left
  <2>4. /\ constraint_ \in [View -> Constraint \cup {NoConstraint}]
        /\ \A v \in View \ {a} : constraint_[v] = s.constraint[v]
    BY <2>1, <2>3
  <2> HIDE DEF constraint_
  <2> QED BY <2>2, <2>4 DEF Shape, Records, Any
<1> QED BY <1>1, <1>2

(* A clamp moves the cursor at most, to the nearest pixel of the region when *)
(* there is one.                                                             *)
LEMMA ClampDoes ==
    ASSUME NEW s, Shape(s)
    PROVE  LET t == Clamp(s) IN
           /\ Shape(t)
           /\ t.pointer = s.pointer /\ t.keyboard = s.keyboard /\ t.active = s.active
           /\ t.constraint = s.constraint /\ t.box = s.box /\ t.seen = s.seen
           /\ Confines(t)
<1>1. CASE \/ s.active = NoView
           \/ s.constraint[s.active].type # "confined"
           \/ s.constraint[s.active].region.lo >= s.constraint[s.active].region.hi
           \/ Nearest(s) \notin Pixel
  <2>1. Clamp(s) = s
    BY <1>1 DEF Clamp
  <2>2. CASE s.active = NoView \/ s.constraint[s.active].type # "confined" \/ Nearest(s) \notin Pixel
    BY <2>1, <2>2 DEF MayBeInside, Confines
  <2>3. CASE s.active # NoView /\ s.constraint[s.active].region.lo >= s.constraint[s.active].region.hi
    <3>1. s.constraint[s.active] \in Constraint \cup {NoConstraint}
      BY <2>3 DEF Shape, Records, Any
    <3> DEFINE r == s.constraint[s.active].region
    <3>2. r.lo \in Nat /\ r.hi \in Nat /\ r.lo >= r.hi
      BY <2>3, <3>1, ConstraintKinds
    <3>3. MayBeInside(s) => r.lo < r.hi
      BY DEF MayBeInside
    <3> HIDE DEF r
    <3> QED BY <2>1, <3>2, <3>3 DEF Confines
  <2> QED BY <1>1, <2>2, <2>3
<1>2. CASE /\ s.active # NoView
           /\ s.constraint[s.active].type = "confined"
           /\ ~ (s.constraint[s.active].region.lo >= s.constraint[s.active].region.hi)
           /\ Nearest(s) \in Pixel
  <2> DEFINE n == Nearest(s)
             r == s.constraint[s.active].region
             x == s.box[s.active].x
             at == s.cursor - x
  <2>1. Clamp(s) = [s EXCEPT !.cursor = n]
    BY <1>2 DEF Clamp
  <2>2. s.active \in View /\ s.box[s.active] \in Box
        /\ s.constraint[s.active] \in Constraint \cup {NoConstraint}
    BY <1>2 DEF Shape, Records, Any
  <2>3. r.lo \in Nat /\ r.hi \in Nat /\ ~ (r.lo >= r.hi) /\ x \in Int /\ s.cursor \in Int
    BY <1>2, <2>2, ConstraintKinds, InputAssumption DEF Box, Shape, Records, Pixel
  <2>4. n = x + (IF at < r.lo THEN r.lo ELSE IF at >= r.hi THEN r.hi - 1 ELSE at)
    BY DEF Nearest
  <2>5. n \in Pixel
    BY <1>2
  <2> HIDE DEF n
  <2>6. LET t == Clamp(s) IN
        /\ t \in Records /\ t.mapped = s.mapped /\ t.above = s.above /\ t.cursor = n
        /\ t.pointer = s.pointer /\ t.keyboard = s.keyboard /\ t.active = s.active
        /\ t.constraint = s.constraint /\ t.box = s.box /\ t.seen = s.seen
    BY <2>1, <2>5 DEF Shape, Records
  <2>7. n - x \in r.lo..(r.hi - 1)
    <3> HIDE DEF r, x
    <3>1. ASSUME NEW lo \in Nat, NEW hi \in Nat, ~ (lo >= hi), NEW y \in Int, NEW c \in Int,
                 NEW m, m = y + (IF c - y < lo THEN lo ELSE IF c - y >= hi THEN hi - 1 ELSE c - y)
          PROVE  m - y \in lo..(hi - 1)
      BY <3>1
    <3> QED BY <2>3, <2>4, <3>1
  <2>8. Inside(Clamp(s))
    BY <2>6, <2>7 DEF Inside
  <2> QED BY <2>6, <2>8 DEF Shape, Confines
<1> QED BY <1>1, <1>2

(* The constraint of v replaces another one.                                 *)
LEMMA ActivateDoes ==
    ASSUME NEW s, Shape(s), NEW v \in View, s.active # v
    PROVE  LET t == Activate(s, v) IN
           /\ Shape(t) /\ t.active = v
           /\ t.pointer = s.pointer /\ t.keyboard = s.keyboard
           /\ t.constraint[v] = s.constraint[v] /\ t.box = s.box /\ t.seen = s.seen
           /\ Confines(t)
<1> DEFINE d == Deactivate(s)
           w == [d EXCEPT !.active = v]
<1>1. /\ Shape(d) /\ d.pointer = s.pointer /\ d.keyboard = s.keyboard
      /\ d.box = s.box /\ d.seen = s.seen /\ d.constraint[v] = s.constraint[v]
  BY DeactivateDoes
<1> HIDE DEF d
<1>2. /\ Shape(w) /\ w.active = v /\ w.pointer = d.pointer /\ w.keyboard = d.keyboard
      /\ w.box = d.box /\ w.seen = d.seen /\ w.constraint = d.constraint
  BY <1>1 DEF Shape, Records, Any
<1>3. Activate(s, v) = Clamp(w)
  BY DEF Activate, d
<1> HIDE DEF w
<1> QED BY <1>1, <1>2, <1>3, ClampDoes

-----------------------------------------------------------------------------
(* What confines depends on the cursor, the constraint and its window only.  *)
LEMMA SameConfines ==
    ASSUME NEW s, NEW t, Confines(s), t.cursor = s.cursor, t.active = s.active,
           t.constraint = s.constraint, t.box = s.box
    PROVE  Confines(t)
BY DEF Confines, MayBeInside, Inside, Nearest

(* Surfaces are entered with their constraint, or with none in force.        *)
LEMMA EnterDoes ==
    ASSUME NEW s, Shape(s), Follows(s), NEW v \in Any
    PROVE  LET t == Enter(s, v) IN
           /\ Shape(t) /\ Follows(t)
           /\ t.keyboard = s.keyboard /\ t.box = s.box
           /\ \A u \in View : t.seen[u] \ Button = s.seen[u] \ Button
           /\ Confines(s) => Confines(t)
<1>1. CASE v = NoView
  <2> DEFINE d == Deactivate(s)
             t == PointerFocus(d, NoView)
  <2>1. Shape(d) /\ d.active = NoView /\ d.keyboard = s.keyboard /\ d.box = s.box /\ d.seen = s.seen
    BY DeactivateDoes
  <2> HIDE DEF d
  <2>2. /\ Shape(t) /\ t.active = NoView /\ t.keyboard = d.keyboard /\ t.box = d.box
        /\ \A u \in View : t.seen[u] \ Button = d.seen[u] \ Button
    BY <2>1, PointerFocusDoes DEF Any
  <2>3. Enter(s, v) = t
    BY <1>1 DEF Enter, d
  <2> HIDE DEF t
  <2> QED BY <2>1, <2>2, <2>3 DEF Follows, Confines
<1>2. CASE v # NoView /\ v = s.pointer
  BY <1>2 DEF Enter
<1>3. CASE v # NoView /\ v # s.pointer /\ s.constraint[v].type # "none"
  <2> DEFINE a == Activate(s, v)
             t == PointerFocus(a, v)
  <2>1. v \in View /\ s.active # v
    BY <1>3, InputAssumption DEF Any, Follows
  <2>2. /\ Shape(a) /\ a.active = v /\ a.keyboard = s.keyboard /\ a.box = s.box /\ a.seen = s.seen
        /\ a.constraint[v] = s.constraint[v] /\ Confines(a)
    BY <2>1, ActivateDoes
  <2> HIDE DEF a
  <2>3. /\ Shape(t) /\ t.pointer = v /\ t.active = v /\ t.keyboard = a.keyboard
        /\ t.cursor = a.cursor /\ t.box = a.box /\ t.constraint = a.constraint
        /\ \A u \in View : t.seen[u] \ Button = a.seen[u] \ Button
    BY <2>2, PointerFocusDoes
  <2>4. Enter(s, v) = t
    BY <1>3 DEF Enter, a
  <2> HIDE DEF t
  <2>5. Confines(t)
    BY <2>2, <2>3, SameConfines
  <2>6. t.constraint[v] # NoConstraint
    BY <1>3, <2>2, <2>3, ConstraintKinds
  <2> QED BY <2>2, <2>3, <2>4, <2>5, <2>6 DEF Follows
<1>4. CASE v # NoView /\ v # s.pointer /\ s.constraint[v].type = "none"
  <2> DEFINE d == Deactivate(s)
             t == PointerFocus(d, v)
  <2>1. s.active # v
    BY <1>4 DEF Follows
  <2>2. Shape(d) /\ d.active = NoView /\ d.keyboard = s.keyboard /\ d.box = s.box /\ d.seen = s.seen
    BY DeactivateDoes
  <2> HIDE DEF d
  <2>3. /\ Shape(t) /\ t.active = NoView /\ t.keyboard = d.keyboard /\ t.box = d.box
        /\ \A u \in View : t.seen[u] \ Button = d.seen[u] \ Button
    BY <2>2, PointerFocusDoes
  <2>4. Enter(s, v) = t
    BY <1>4, <2>1 DEF Enter, d
  <2> HIDE DEF t
  <2> QED BY <2>2, <2>3, <2>4 DEF Follows, Confines
<1> QED BY <1>1, <1>2, <1>3, <1>4

(* What is under a point is a window, or none. *)
LEMMA ViewUnder == ASSUME Shape(State), NEW p PROVE DesktopViewAt(p) \in Any
<1>1. mapped \subseteq View
  BY DEF Shape, Records, State
<1> QED BY <1>1 DEF DesktopViewAt, Any

(* A drag keeps its window's width positive.                                 *)
LEMMA DraggedBox ==
    ASSUME NEW s, Shape(s), drag \in Drags, drag.view \in View
    PROVE  Dragged(s) \in Box
<1>1. /\ s.cursor \in Int /\ drag.x \in Int /\ drag.geo.x \in Int /\ drag.geo.w \in Nat \ {0}
      /\ s.box[drag.view].w \in Nat \ {0}
  BY InputAssumption DEF Shape, Records, Drags, Box, Pixel
<1> QED BY <1>1 DEF Dragged, MinWidth, Box

(* A motion of the cursor ends inside a confinement that holds. *)
LEMMA MoveCursorDoes ==
    ASSUME NEW s, Shape(s), NEW p \in Pixel
    PROVE  LET t == MoveCursor(s, p) IN
           /\ Shape(t)
           /\ t.pointer = s.pointer /\ t.keyboard = s.keyboard /\ t.active = s.active
           /\ t.constraint = s.constraint /\ t.box = s.box /\ t.seen = s.seen
           /\ Confines(t)
<1>1. CASE PointerLockActive(s)
  BY <1>1 DEF MoveCursor, PointerLockActive, Confines
<1>2. CASE ~ PointerLockActive(s)
  <2> DEFINE m == [s EXCEPT !.cursor = p]
  <2>1. /\ Shape(m)
        /\ m.pointer = s.pointer /\ m.keyboard = s.keyboard /\ m.active = s.active
        /\ m.constraint = s.constraint /\ m.box = s.box /\ m.seen = s.seen
    BY DEF Shape, Records
  <2>2. MoveCursor(s, p) = Clamp(m)
    BY <1>2 DEF MoveCursor
  <2> HIDE DEF m
  <2> QED BY <2>1, <2>2, ClampDoes
<1> QED BY <1>1, <1>2

(* processCursorMotion keeps the parts of the invariant. *)
LEMMA MotionDoes ==
    ASSUME NEW s, Shape(s), Follows(s), Shape(State), held \subseteq Held, drag \in Drags
    PROVE  LET t == ProcessCursorMotion(s) IN
           /\ Shape(t) /\ Follows(t)
           /\ KeysIn(s, held) => KeysIn(t, held)
           /\ drag.mode = "Passthrough" /\ Confines(s) => Confines(t)
<1>1. CASE drag.mode # "Passthrough" /\ drag.view # NoView
  <2> DEFINE b == Dragged(s)
             box_ == [s.box EXCEPT ![drag.view] = b]
             t == ProcessCursorMotion(s)
  <2>1. t = [s EXCEPT !.box = box_]
    BY <1>1 DEF ProcessCursorMotion
  <2>2. drag.view \in View
    BY <1>1 DEF Drags, Any
  <2>3. b \in Box
    BY <2>2, DraggedBox
  <2> HIDE DEF b
  <2>4. box_ \in [View -> Box]
    BY <2>3 DEF Shape, Records
  <2> HIDE DEF box_, t
  <2>5. /\ Shape(t) /\ t.pointer = s.pointer /\ t.active = s.active
        /\ t.constraint = s.constraint /\ t.keyboard = s.keyboard /\ t.seen = s.seen
    BY <2>1, <2>4 DEF Shape, Records
  <2> QED BY <1>1, <2>5 DEF t, Follows, KeysIn
<1>2. CASE ~ (drag.mode # "Passthrough" /\ drag.view # NoView)
  <2> DEFINE v == DesktopViewAt(s.cursor)
             f == FollowMouse(s, v)
             t == Enter(f, v)
  <2>1. v \in Any
    BY ViewUnder
  <2>2. ProcessCursorMotion(s) = t
    BY <1>2 DEF ProcessCursorMotion
  <2> HIDE DEF v
  <2>3. /\ Shape(f)
        /\ f.cursor = s.cursor /\ f.pointer = s.pointer /\ f.active = s.active
        /\ f.constraint = s.constraint /\ f.box = s.box
        /\ KeysIn(s, held) => KeysIn(f, held)
    BY <2>1, FocusViewDoes DEF FollowMouse, Any
  <2> HIDE DEF f
  <2>4. Follows(f) /\ (Confines(s) => Confines(f))
    BY <2>3, SameConfines DEF Follows
  <2>5. /\ Shape(t) /\ Follows(t) /\ t.keyboard = f.keyboard
        /\ \A u \in View : t.seen[u] \ Button = f.seen[u] \ Button
        /\ Confines(f) => Confines(t)
    BY <2>1, <2>3, <2>4, EnterDoes
  <2> HIDE DEF t
  <2>6. KeysIn(f, held) => KeysIn(t, held)
    BY <2>5 DEF KeysIn
  <2> QED BY <2>2, <2>3, <2>4, <2>5, <2>6
<1> QED BY <1>1, <1>2

-----------------------------------------------------------------------------
(* The invariant that the theorems follow from, and its steps.               *)
InputInv == ShapeInv /\ Follows(State) /\ KeysIn(State, held)

(* The state a handler becomes is the record it computed. *)
LEMMA BecomesIs == ASSUME NEW s, Shape(s), Becomes(s) PROVE State' = s
BY DEF Becomes, State, Shape, Records

(* No window and no drag at the start. *)
LEMMA InitInv == Init => InputInv
<1> SUFFICES ASSUME Init PROVE InputInv
  OBVIOUS
<1>1. Shape(State)
  <2>1. PICK b \in Places : box = [v \in View |-> b]
    BY DEF Init
  <2>2. b \in Box /\ box \in [View -> Box]
    BY <2>1, InputAssumption DEF Box
  <2>3. /\ constraint \in [View -> Constraint \cup {NoConstraint}]
        /\ seen \in [View -> SUBSET Held]
    BY DEF Init
  <2>4. /\ cursor \in Pixel /\ pointer \in Any /\ keyboard \in Any /\ active \in Any
        /\ mapped \in SUBSET View /\ above \in SUBSET (View \X View)
        /\ floating \in SUBSET View /\ above \subseteq mapped \X mapped
    BY DEF Init, Any
  <2> QED BY <2>2, <2>3, <2>4 DEF Shape, Records, State
<1>2. drag \in Drags
  BY DEF Init, Passthrough, Drags, Any, Box
<1>3. Follows(State) /\ KeysIn(State, held)
  BY DEF Init, State, Follows, KeysIn
<1> QED BY <1>1, <1>2, <1>3 DEF InputInv, ShapeInv, Init

(* Grabs remember a window and its geometry.                                 *)
LEMMA GrabShape ==
    ASSUME ShapeInv, NEW v \in View, NEW edge \in {"LEFT", "RIGHT"}
    PROVE  MoveGrab(v) \in Drags /\ ResizeGrab(v, edge) \in Drags
<1>1. cursor \in Int /\ box[v] \in Box /\ drag \in Drags
  BY InputAssumption DEF ShapeInv, Shape, Records, State, Pixel
<1>2. box[v].x \in Int
  BY <1>1 DEF Box
<1> DEFINE x == cursor - box[v].x
           g == box[v]
<1>3. x \in Int
  BY <1>1, <1>2
<1>4. MoveGrab(v) = drag \/ MoveGrab(v) = [drag EXCEPT !.mode = "Move", !.view = v, !.x = x]
  BY DEF MoveGrab
<1>5. \/ ResizeGrab(v, edge) = drag
      \/ ResizeGrab(v, edge) =
             [mode |-> "Resize", view |-> v, x |-> cursor, geo |-> g, edge |-> edge]
  BY DEF ResizeGrab
<1>6. g \in Box
  BY <1>1
<1> HIDE DEF x, g
<1>7. MoveGrab(v) \in Drags
  BY <1>1, <1>3, <1>4 DEF Drags, Any
<1> QED BY <1>1, <1>5, <1>6, <1>7 DEF Drags, Any

(* A press that is passed on tells the window under the pointer. *)
LEMMA NotifyDoes ==
    ASSUME ShapeInv, NEW b \in Button
    PROVE  LET t == NotifyPress(State, b) IN
           /\ Shape(t)
           /\ t.cursor = cursor /\ t.pointer = pointer /\ t.keyboard = keyboard
           /\ t.active = active /\ t.constraint = constraint
           /\ \A u \in View : t.seen[u] \ Button = seen[u] \ Button
<1> DEFINE seen_ == [v \in View |-> IF v = pointer THEN seen[v] \cup {b} ELSE seen[v]]
           s == State
<1>1. NotifyPress(s, b) = [s EXCEPT !.seen = seen_]
  BY DEF NotifyPress, State
<1>2. /\ seen_ \in [View -> SUBSET Held]
      /\ \A u \in View : seen_[u] \ Button = seen[u] \ Button
  BY DEF ShapeInv, Shape, Records, State, Held
<1>3. /\ Shape(s) /\ s.cursor = cursor /\ s.pointer = pointer /\ s.keyboard = keyboard
      /\ s.active = active /\ s.constraint = constraint
  BY DEF ShapeInv, State
<1> HIDE DEF seen_, s
<1>4. LET t == NotifyPress(s, b) IN
      /\ t \in Records /\ t.mapped = s.mapped /\ t.above = s.above /\ t.seen = seen_
      /\ t.cursor = s.cursor /\ t.pointer = s.pointer /\ t.keyboard = s.keyboard
      /\ t.active = s.active /\ t.constraint = s.constraint
  BY <1>1, <1>2, <1>3 DEF Shape, Records
<1>5. Shape(NotifyPress(s, b))
  BY <1>3, <1>4 DEF Shape
<1> QED BY <1>2, <1>3, <1>4, <1>5 DEF s

(* The window under the cursor takes the focus.                              *)
LEMMA FocusStep ==
    ASSUME ShapeInv, Follows(State), KeysIn(State, held),
           NEW s, Shape(s), s.pointer = pointer, s.active = active, s.constraint = constraint,
           s.keyboard = keyboard, \A u \in View : s.seen[u] \ Button = seen[u] \ Button,
           NEW v \in View, Becomes(FocusView(s, v))
    PROVE  Shape(State)' /\ Follows(State)' /\ KeysIn(State', held)
<1> DEFINE t == FocusView(s, v)
<1>1. KeysIn(s, held)
  BY DEF KeysIn, State
<1>2. /\ Shape(t) /\ t.pointer = pointer /\ t.active = active /\ t.constraint = constraint
      /\ KeysIn(t, held)
  BY <1>1, FocusViewDoes DEF ShapeInv
<1>3. State' = t
  BY <1>2, BecomesIs
<1> HIDE DEF t
<1>4. Follows(t)
  BY <1>2 DEF Follows, State
<1> QED BY <1>2, <1>3, <1>4

(* A motion keeps the invariant and, without a drag, the confinement. *)
LEMMA MotionStep ==
    ASSUME InputInv, NEW p \in Pixel, Motion(p)
    PROVE  InputInv' /\ (drag.mode = "Passthrough" => Confines(State'))
<1> DEFINE m == MoveCursor(State, p)
           t == ProcessCursorMotion(m)
<1>1. /\ Shape(m) /\ m.pointer = pointer /\ m.keyboard = keyboard /\ m.active = active
      /\ m.constraint = constraint /\ m.seen = seen /\ Confines(m)
  BY MoveCursorDoes DEF InputInv, ShapeInv, State
<1>2. Follows(m) /\ KeysIn(m, held)
  BY <1>1 DEF InputInv, Follows, KeysIn, State
<1>3. Becomes(t) /\ UNCHANGED <<drag, bindGrab, held>>
  BY DEF Motion
<1> HIDE DEF m
<1>4. /\ Shape(t) /\ Follows(t) /\ KeysIn(t, held)
      /\ drag.mode = "Passthrough" => Confines(t)
  BY <1>1, <1>2, MotionDoes DEF InputInv, ShapeInv
<1>5. State' = t
  BY <1>3, <1>4, BecomesIs
<1> HIDE DEF t
<1> QED BY <1>3, <1>4, <1>5 DEF InputInv, ShapeInv

(* More keys down, or the same state otherwise, disturb nothing.             *)
LEMMA MoreDown ==
    ASSUME NEW s, NEW down, NEW more, KeysIn(s, down), down \subseteq more
    PROVE  KeysIn(s, more)
BY DEF KeysIn

(* A press keeps the invariant, whoever takes it. *)
LEMMA ButtonStep ==
    ASSUME InputInv, NEW b \in Button, PressOnBar(b) \/ PressMousebind(b) \/ PressOnClient(b)
    PROVE  InputInv'
<1> USE DEF InputInv
<1>0. held' = held \cup {b} /\ held' \subseteq Held /\ b \in Button
  BY DEF PressOnBar, PressMousebind, PressOnClient, ShapeInv, Held
<1>1. CASE PressOnBar(b)
  <2>1. State' = State /\ UNCHANGED <<drag, bindGrab>>
    BY <1>1 DEF PressOnBar, State, winVars
  <2>2. KeysIn(State, held')
    BY <1>0, MoreDown
  <2> QED BY <1>0, <2>1, <2>2 DEF ShapeInv
<1>2. CASE PressMousebind(b)
  <2> DEFINE v == DesktopViewAt(cursor)
  <2>1. v \in View
    BY <1>2, ViewUnder DEF PressMousebind, ShapeInv, Any
  <2>2. Becomes(FocusView(State, v)) /\ bindGrab' \in BOOLEAN
    BY <1>2 DEF PressMousebind
  <2>3. drag' \in Drags
    <3>1. NearEdge(v) \in {"LEFT", "RIGHT"}
      BY DEF NearEdge
    <3>2. drag' \in {drag, MoveGrab(v), ResizeGrab(v, NearEdge(v))}
      BY <1>2, InputAssumption DEF PressMousebind
    <3> QED BY <2>1, <3>1, <3>2, GrabShape DEF ShapeInv
  <2> HIDE DEF v
  <2>4. Shape(State)' /\ Follows(State)' /\ KeysIn(State', held)
    <3>1. /\ Shape(State) /\ State.pointer = pointer /\ State.active = active
          /\ State.constraint = constraint /\ State.keyboard = keyboard /\ State.seen = seen
      BY DEF ShapeInv, State
    <3> QED BY <2>1, <2>2, <3>1, FocusStep
  <2>5. KeysIn(State', held')
    BY <1>0, <2>4, MoreDown
  <2> QED BY <1>0, <2>2, <2>3, <2>4, <2>5 DEF ShapeInv
<1>3. CASE PressOnClient(b)
  <2> DEFINE v == DesktopViewAt(cursor)
             s == NotifyPress(State, b)
  <2>1. v \in Any
    BY ViewUnder DEF ShapeInv
  <2>2. Becomes(IF v = NoView THEN s ELSE FocusView(s, v)) /\ UNCHANGED <<drag, bindGrab>>
    BY <1>3 DEF PressOnClient
  <2>3. /\ Shape(s) /\ s.pointer = pointer /\ s.active = active
        /\ s.constraint = constraint /\ s.keyboard = keyboard
        /\ \A u \in View : s.seen[u] \ Button = seen[u] \ Button
    BY NotifyDoes
  <2> HIDE DEF v, s
  <2>4. Shape(State)' /\ Follows(State)' /\ KeysIn(State', held)
    <3>1. CASE v = NoView
      <4>1. State' = s
        BY <2>2, <2>3, <3>1, BecomesIs
      <4>2. Follows(s) /\ KeysIn(s, held)
        BY <2>3 DEF Follows, KeysIn, State
      <4> QED BY <2>3, <4>1, <4>2
    <3>2. CASE v # NoView
      BY <2>1, <2>2, <2>3, <3>2, FocusStep DEF Any
    <3> QED BY <3>1, <3>2
  <2>5. KeysIn(State', held')
    BY <1>0, <2>4, MoreDown
  <2> QED BY <1>0, <2>2, <2>4, <2>5 DEF ShapeInv
<1> QED BY <1>1, <1>2, <1>3

(* What a release or a key changes: who takes what for down.                 *)
LEMMA SeenStep ==
    ASSUME InputInv, held' \subseteq Held, seen' \in [View -> SUBSET Held],
           drag' \in Drags, bindGrab' \in BOOLEAN,
           UNCHANGED <<winVars, cursor, pointer, keyboard, constraint, active>>,
           \A u \in View : \A k \in seen'[u] \ Button : u = keyboard /\ k \in held'
    PROVE  InputInv'
<1>1. Shape(State)'
  BY DEF InputInv, ShapeInv, Shape, Records, State, winVars
<1>2. Follows(State)'
  BY DEF InputInv, Follows, State
<1>3. KeysIn(State, held)'
  BY DEF KeysIn, State
<1> QED BY <1>1, <1>2, <1>3 DEF InputInv, ShapeInv

(* So does a release, which ends a drag. *)
LEMMA ReleaseStep ==
    ASSUME InputInv, NEW b \in Button, Release(b)
    PROVE  InputInv'
<1>1. /\ held' = held \ {b} /\ held \subseteq Held
      /\ seen \in [View -> SUBSET Held]
      /\ UNCHANGED <<winVars, cursor, pointer, keyboard, constraint, active>>
  BY DEF Release, InputInv, ShapeInv, Shape, Records, State
<1>2. drag' \in Drags /\ bindGrab' \in BOOLEAN
  <2>1. Passthrough \in Drags
    BY DEF Passthrough, Drags, Any, Box
  <2>2. drag \in Drags /\ bindGrab \in BOOLEAN
    BY DEF InputInv, ShapeInv
  <2> QED BY <2>1, <2>2 DEF Release
<1>3. \/ seen' = seen
      \/ seen' = [v \in View |-> IF v = pointer THEN seen[v] \ {b} ELSE seen[v]]
  BY DEF Release
<1>4. seen' \in [View -> SUBSET Held] /\ \A u \in View : seen'[u] \subseteq seen[u]
  BY <1>1, <1>3
<1>5. \A u \in View : \A k \in seen[u] \ Button : u = keyboard /\ k \in held
  BY DEF InputInv, KeysIn, State
<1>6. \A u \in View : \A k \in seen'[u] \ Button : u = keyboard /\ k \in held'
  BY <1>1, <1>4, <1>5
<1> QED BY <1>1, <1>2, <1>4, <1>6, SeenStep

(* Keys go to the window with the keyboard, binds to nobody. *)
LEMMA KeyStep ==
    ASSUME InputInv, NEW k \in Key \cup {Mod}, KeyPress(k) \/ KeyRelease(k)
    PROVE  InputInv'
<1>1. /\ held \subseteq Held /\ seen \in [View -> SUBSET Held] /\ k \in Held
      /\ drag \in Drags /\ bindGrab \in BOOLEAN
  BY DEF InputInv, ShapeInv, Shape, Records, State, Held
<1>2. UNCHANGED <<winVars, cursor, pointer, keyboard, constraint, active, drag, bindGrab>>
  BY DEF KeyPress, KeyRelease
<1>3. \A u \in View : \A j \in seen[u] \ Button : u = keyboard /\ j \in held
  BY DEF InputInv, KeysIn, State
<1>4. CASE KeyPress(k)
  <2>0. held' = held \cup {k}
    BY <1>4 DEF KeyPress
  <2>1. seen' = seen \/ seen' = SeenKey(k, TRUE)
    BY <1>4 DEF KeyPress
  <2>2. /\ seen' \in [View -> SUBSET Held]
        /\ \A u \in View : /\ seen'[u] \subseteq seen[u] \cup {k}
                           /\ u # keyboard => seen'[u] = seen[u]
    BY <1>1, <2>1 DEF SeenKey
  <2>3. \A u \in View : \A j \in seen'[u] \ Button : u = keyboard /\ j \in held'
    BY <1>3, <2>0, <2>2
  <2> QED BY <1>1, <1>2, <2>0, <2>2, <2>3, SeenStep
<1>5. CASE KeyRelease(k)
  <2>0. held' = held \ {k}
    BY <1>5 DEF KeyRelease
  <2>1. seen' = SeenKey(k, FALSE)
    BY <1>5 DEF KeyRelease
  <2>2. /\ seen' \in [View -> SUBSET Held]
        /\ \A u \in View : /\ seen'[u] \subseteq seen[u]
                           /\ u = keyboard => k \notin seen'[u]
    BY <1>1, <2>1 DEF SeenKey
  <2>3. \A u \in View : \A j \in seen'[u] \ Button : u = keyboard /\ j \in held'
    BY <1>3, <2>0, <2>2
  <2>4. held' \subseteq Held
    BY <1>1, <2>0
  <2> QED BY <1>1, <1>2, <2>2, <2>3, <2>4, SeenStep
<1> QED BY <1>4, <1>5

(* What a client or the rest of the compositor changes without a key.        *)
LEMMA ChangeStep ==
    ASSUME InputInv, Shape(State)', Follows(State)', drag' \in Drags, bindGrab' \in BOOLEAN,
           UNCHANGED <<keyboard, seen, held>>
    PROVE  InputInv'
BY DEF InputInv, ShapeInv, KeysIn, State

(* A client's request for a move or a resize begins a drag. *)
LEMMA GrabStep ==
    ASSUME InputInv, NEW v \in View, NEW edge \in {"LEFT", "RIGHT"},
           RequestMove(v) \/ RequestResize(v, edge)
    PROVE  InputInv'
<1>1. drag' \in Drags
  BY GrabShape DEF RequestMove, RequestResize, InputInv
<1>2. /\ UNCHANGED <<winVars, cursor, pointer, keyboard, constraint, active, bindGrab,
                     inhibitors, held, seen, session>>
  BY DEF RequestMove, RequestResize
<1>3. State' = State
  BY <1>2 DEF State, winVars
<1> QED BY <1>1, <1>2, <1>3, ChangeStep DEF InputInv, ShapeInv

(* Inhibiting shortcuts moves nothing. *)
LEMMA InhibitStep == ASSUME InputInv, NEW v \in View, Inhibit(v) PROVE InputInv'
<1>1. State' = State
  BY DEF Inhibit, State, winVars
<1> QED BY <1>1, ChangeStep DEF Inhibit, InputInv, ShapeInv

(* A new constraint is activated where the pointer is. *)
LEMMA ConstrainStep ==
    ASSUME InputInv, NEW v \in View, NEW c \in Constraint, NewPointerConstraint(v, c)
    PROVE  InputInv'
<1> DEFINE s == [State EXCEPT !.constraint[v] = c]
<1>0. /\ constraint[v] = NoConstraint /\ constraint \in [View -> Constraint \cup {NoConstraint}]
      /\ Becomes(IF pointer = v THEN Activate(s, v) ELSE s)
      /\ UNCHANGED <<drag, bindGrab, held>>
      /\ held \subseteq Held
  BY DEF NewPointerConstraint, InputInv, ShapeInv, Shape, Records, State
<1>1. /\ Shape(s) /\ s.active = active /\ s.pointer = pointer /\ s.keyboard = keyboard
      /\ s.seen = seen
      /\ s.constraint[v] = c
      /\ \A u \in View \ {v} : s.constraint[u] = constraint[u]
  BY DEF InputInv, ShapeInv, Shape, Records, State
<1>2. active \in Any /\ (active # NoView => pointer = active /\ constraint[active] # NoConstraint)
  BY DEF InputInv, Follows, ShapeInv, Shape, Records, State
<1>3. active # v
  BY <1>0, <1>2, InputAssumption
<1> HIDE DEF s
<1>4. KeysIn(s, held)
  BY <1>1 DEF InputInv, KeysIn, State
<1>5. CASE pointer = v
  <2> DEFINE t == Activate(s, v)
  <2>1. /\ Shape(t) /\ t.active = v /\ t.pointer = v /\ t.keyboard = keyboard
        /\ t.constraint[v] = c /\ t.seen = seen
    BY <1>1, <1>3, <1>5, ActivateDoes
  <2>2. State' = t
    BY <1>0, <1>5, <2>1, BecomesIs
  <2> HIDE DEF t
  <2>3. c # NoConstraint
    BY ConstraintKinds
  <2>4. Follows(t) /\ KeysIn(t, held)
    BY <1>1, <1>4, <2>1, <2>3 DEF Follows, KeysIn
  <2> QED BY <1>0, <2>1, <2>2, <2>4 DEF InputInv, ShapeInv
<1>6. CASE pointer # v
  <2>1. State' = s
    BY <1>0, <1>1, <1>6, BecomesIs
  <2>2. Follows(s)
    BY <1>1, <1>2, <1>3, InputAssumption DEF Follows, Any
  <2> QED BY <1>0, <1>1, <1>4, <2>1, <2>2 DEF InputInv, ShapeInv
<1> QED BY <1>5, <1>6

(* A constraint that goes, or shrinks, is deactivated or followed. *)
LEMMA UnconstrainStep ==
    ASSUME InputInv, NEW v \in View, NEW r \in Region,
           DestroyConstraint(v) \/ SetRegion(v, r)
    PROVE  InputInv'
<1>0. /\ Shape(State) /\ Follows(State) /\ drag \in Drags /\ bindGrab \in BOOLEAN
      /\ constraint \in [View -> Constraint \cup {NoConstraint}] /\ active \in Any
      /\ constraint[v] # NoConstraint
  BY DEF DestroyConstraint, SetRegion, InputInv, ShapeInv, Shape, Records, State
<1>1. UNCHANGED <<winVars, cursor, pointer, keyboard, drag, bindGrab, held, seen>>
  BY DEF DestroyConstraint, SetRegion
<1>2. /\ constraint' \in [View -> Constraint \cup {NoConstraint}]
      /\ \A u \in View \ {v} : constraint'[u] = constraint[u]
      /\ active' \in Any
      /\ active' # NoView => active' = active /\ (active = v => constraint'[v] # NoConstraint)
  <2>1. CASE DestroyConstraint(v)
    BY <1>0, <2>1 DEF DestroyConstraint, Any
  <2>2. CASE SetRegion(v, r)
    <3> DEFINE c == [constraint[v] EXCEPT !.region = r]
    <3>1. c \in Constraint /\ c # NoConstraint
      BY <1>0, ConstraintKinds
    <3>2. constraint' = [constraint EXCEPT ![v] = c] /\ active' = active
      BY <2>2 DEF SetRegion
    <3> HIDE DEF c
    <3> QED BY <1>0, <3>1, <3>2
  <2> QED BY <2>1, <2>2
<1>3. Shape(State)'
  BY <1>0, <1>1, <1>2 DEF Shape, Records, State, winVars
<1>4. Follows(State)'
  BY <1>0, <1>1, <1>2 DEF Follows, State, Any
<1> QED BY <1>0, <1>1, <1>3, <1>4, ChangeStep

(* The layout moves windows under the pointer. *)
LEMMA RearrangeStep ==
    ASSUME InputInv, NEW v \in View, NEW b \in Places, Rearrange(v, b) PROVE InputInv'
<1>1. b \in Box
  BY InputAssumption DEF Box
<1>2. /\ box' = [box EXCEPT ![v] = b]
      /\ UNCHANGED <<mapped, above, floating, cursor, pointer, keyboard, constraint, active,
                     drag, bindGrab, held, seen>>
  BY DEF Rearrange
<1>3. box' \in [View -> Box]
  BY <1>1, <1>2 DEF InputInv, ShapeInv, Shape, Records, State
<1>4. Shape(State)' /\ Follows(State)' /\ drag' \in Drags /\ bindGrab' \in BOOLEAN
  BY <1>2, <1>3 DEF InputInv, ShapeInv, Shape, Records, State, Follows
<1> QED BY <1>2, <1>4, ChangeStep

(* A new window takes the keyboard and the keys that are down. *)
LEMMA MapStep ==
    ASSUME InputInv, NEW v \in View, NEW b \in Places, NEW float \in BOOLEAN, Map(v, b, float)
    PROVE  InputInv'
<1> DEFINE box_ == [box EXCEPT ![v] = b]
           floating_ == IF float THEN floating \cup {v} ELSE floating \ {v}
           placed == [State EXCEPT !.box = box_, !.floating = floating_]
           s == Raised(placed, v)
<1>1. Becomes(FocusView(s, v)) /\ UNCHANGED <<drag, bindGrab, held>>
  <2>1. placed = [State EXCEPT !.box[v] = b,
                     !.floating = IF float THEN @ \cup {v} ELSE @ \ {v}]
    BY DEF State
  <2> QED BY <2>1 DEF Map
<1>2. box_ \in [View -> Box] /\ floating_ \in SUBSET View
  BY InputAssumption DEF InputInv, ShapeInv, Shape, Records, State, Box
<1> HIDE DEF box_, floating_
<1>3. /\ Shape(placed)
      /\ placed.cursor = cursor /\ placed.pointer = pointer /\ placed.keyboard = keyboard
      /\ placed.active = active /\ placed.constraint = constraint /\ placed.seen = seen
  BY <1>2 DEF InputInv, ShapeInv, Shape, Records, State
<1> HIDE DEF placed
<1>4. /\ Shape(s) /\ s.pointer = pointer /\ s.keyboard = keyboard
      /\ s.active = active /\ s.constraint = constraint /\ s.seen = seen
  BY <1>3, RaisedDoes
<1> HIDE DEF s
<1>5. Shape(State)' /\ Follows(State)' /\ KeysIn(State', held)
  BY <1>1, <1>4, FocusStep DEF InputInv
<1> QED BY <1>1, <1>5 DEF InputInv, ShapeInv

(* A window that goes gives up pointer, keyboard, drag and constraint. *)
LEMMA UnmapStep ==
    ASSUME InputInv, NEW v \in View, Unmap(v) PROVE InputInv'
<1> DEFINE rest == mapped \ {v}
           above_ == above \cap (rest \X rest)
           left == [State EXCEPT !.mapped = rest, !.above = above_]
<1>1. held' = held /\ drag' \in Drags /\ bindGrab' \in BOOLEAN
  <2>1. Passthrough \in Drags
    BY DEF Passthrough, Drags, Any, Box
  <2> QED BY <2>1 DEF Unmap, InputInv, ShapeInv
<1>2. \/ Becomes(left)
      \/ \E next \in rest : Becomes(FocusView(left, next))
  <2>1. left = [State EXCEPT !.mapped = rest, !.above = @ \cap (rest \X rest)]
    BY DEF State
  <2> QED BY <2>1 DEF Unmap
<1>3. /\ Shape(left) /\ rest \subseteq View
      /\ left.pointer = pointer /\ left.keyboard = keyboard
      /\ left.active = active /\ left.constraint = constraint /\ left.seen = seen
  <2>1. /\ rest \in SUBSET View /\ above_ \in SUBSET (View \X View)
        /\ above_ \subseteq rest \X rest
    BY DEF InputInv, ShapeInv, Shape, Records, State
  <2> HIDE DEF rest, above_
  <2> QED BY <2>1 DEF InputInv, ShapeInv, Shape, Records, State
<1> HIDE DEF left
<1>4. Shape(State)' /\ Follows(State)' /\ KeysIn(State', held)
  <2>1. CASE Becomes(left)
    <3>1. State' = left
      BY <1>3, <2>1, BecomesIs
    <3>2. Follows(left) /\ KeysIn(left, held)
      BY <1>3 DEF InputInv, Follows, KeysIn, State
    <3> QED BY <1>3, <3>1, <3>2
  <2>2. CASE \E next \in rest : Becomes(FocusView(left, next))
    <3>1. PICK next \in rest : Becomes(FocusView(left, next))
      BY <2>2
    <3> QED BY <1>3, <3>1, FocusStep DEF InputInv
  <2> QED BY <1>2, <2>1, <2>2
<1> QED BY <1>1, <1>4 DEF InputInv, ShapeInv

(* Every step keeps the invariant.                                           *)
LEMMA InputStep == InputInv /\ [Next]_vars => InputInv'
<1> SUFFICES ASSUME InputInv, [Next]_vars PROVE InputInv'
  OBVIOUS
<1>1. ASSUME NEW p \in Pixel, Motion(p) PROVE InputInv'
  BY <1>1, MotionStep
<1>2. CASE Buttons
  BY <1>2, ButtonStep, ReleaseStep DEF Buttons
<1>3. CASE Keys
  BY <1>3, KeyStep DEF Keys
<1>4. ASSUME NEW v \in View, Windows(v) PROVE InputInv'
  BY <1>4, MapStep, UnmapStep DEF Windows
<1>5. ASSUME NEW v \in View, RequestMove(v) PROVE InputInv'
  BY <1>5, GrabStep
<1>6. ASSUME NEW v \in View, NEW e \in {"LEFT", "RIGHT"}, RequestResize(v, e) PROVE InputInv'
  BY <1>6, GrabStep
<1>7. ASSUME NEW v \in View, Constraints(v) PROVE InputInv'
  <2>1. ASSUME DestroyConstraint(v) PROVE InputInv'
    <3>1. CASE Region = {}
      BY <2>1, <3>1 DEF DestroyConstraint, InputInv, ShapeInv, Shape, Records, State, Constraint
    <3>2. CASE Region # {}
      BY <2>1, <3>2, UnconstrainStep
    <3> QED BY <3>1, <3>2
  <2> QED BY <1>7, <2>1, ConstrainStep, UnconstrainStep DEF Constraints
<1>8. ASSUME NEW v \in View, Inhibit(v) PROVE InputInv'
  BY <1>8, InhibitStep
<1>9. ASSUME NEW v \in View, NEW b \in Places, Rearrange(v, b) PROVE InputInv'
  BY <1>9, RearrangeStep
<1>10. CASE UNCHANGED vars
  <2>1. State' = State /\ UNCHANGED <<drag, bindGrab, held>>
    BY <1>10 DEF vars, winVars, State
  <2> QED BY <2>1 DEF InputInv, ShapeInv
<1> QED BY <1>1, <1>2, <1>3, <1>4, <1>5, <1>6, <1>7, <1>8, <1>9, <1>10 DEF Next

(* The invariant holds at all times. *)
LEMMA InputAlways == Spec => []InputInv
<1> QED BY InitInv, InputStep, PTL DEF Spec

-----------------------------------------------------------------------------
(* Motion, buttons, keys, drags, constraints and windows that come and go in *)
(* any order leave no handler a state it cannot read: the stacking order is  *)
(* of mapped windows, the cursor is on the screen after every clamp and      *)
(* warp, and no resize makes a window's width less than one.                 *)
THEOREM InputShape == Spec => []TypeOK
<1>1. InputInv => TypeOK
  BY DEF InputInv, ShapeInv, Shape, Records, State, Drags, Any, Box, Held, TypeOK
<1> QED BY <1>1, InputAlways, PTL

(* No client holds the pointer of another: the constraint in force is always *)
(* one of the surface with pointer focus, and it exists.                     *)
THEOREM ConstraintIsOfPointer == Spec => []ConstraintFollowsPointer
<1>1. InputInv => ConstraintFollowsPointer
  BY DEF InputInv, Follows, State, ConstraintFollowsPointer
<1> QED BY <1>1, InputAlways, PTL

(* handleKey forwards every release that it does not match with a keybind,   *)
(* and focus changes send leave and enter: a key that a client takes for     *)
(* down is down.                                                             *)
THEOREM NoKeyStuck == Spec => []NoStuckKey
<1>1. InputInv => NoStuckKey
  BY DEF InputInv, KeysIn, State, NoStuckKey
<1> QED BY <1>1, InputAlways, PTL

(* processCursorMotion and clampCursorToConstraint leave the cursor inside a *)
(* confined region at the end of every free motion, also when that very      *)
(* motion put the constraint in force.                                       *)
THEOREM ConfinedCursor == Spec => ConfinedStaysInside
<1>1. ASSUME InputInv, NEW p \in Pixel, Motion(p), drag.mode = "Passthrough", active' # NoView,
             constraint'[active'].type = "confined", MayBeInside(State')
      PROVE  Inside(State')
  <2>1. Confines(State')
    BY <1>1, MotionStep
  <2>2. State'.active = active' /\ State'.constraint = constraint'
    BY DEF State
  <2> QED BY <1>1, <2>1, <2>2 DEF Confines
<1>2. InputInv => [\A p \in Pixel :
                      /\ Motion(p) /\ drag.mode = "Passthrough"
                      /\ active' # NoView
                      /\ constraint'[active'].type = "confined"
                      /\ MayBeInside(State')
                      => Inside(State')]_vars
  BY <1>1
<1> QED BY <1>2, InputAlways, PTL DEF ConfinedStaysInside
=============================================================================
