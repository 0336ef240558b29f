------------------------------- MODULE Input -------------------------------
(***************************************************************************)
(* Pointer and keyboard input (input.cpp): where motion, buttons and keys  *)
(* go, what the compositor keeps for itself (bars, mousebinds, keybinds,   *)
(* interactive drags), and pointer constraints.  The screen is one row of  *)
(* pixels: each axis is handled alike, and a drag or a confined region is  *)
(* an interval.  A window is its surface, and borders have no width.       *)
(***************************************************************************)
EXTENDS Integers

CONSTANTS
    View,        \* windows
    Button,      \* pointer buttons
    Key,         \* keys other than the modifier
    Bound,       \* keys that have a keybind with the modifier
    NoView, Mod, \* no window; the modifier key
    Width,       \* pixels of the screen
    MaxWidth,    \* no drag begins on a window wider than this
    BarPixels,   \* those covered by a native bar or a widget window
    Places,      \* boxes that windows are put in
    Region,      \* regions a client confines to: [lo, hi) in its surface
    Kinds,       \* constraints clients ask for: locked or confined, oneshot or not
    Binds,       \* what the mousebind's callback does: "move", "resize", "other"
    Sessions     \* the kinds of input of a session, one of these sets of
                 \* "button", "key", "move", "resize", "constrain", "rearrange";
                 \* "follow": the setting focus_follows_mouse

ASSUME InputAssumption ==
    /\ NoView \notin View
    /\ Mod \notin Key /\ Bound \subseteq Key
    /\ Width \in Nat \ {0} /\ MaxWidth \in Nat
    /\ BarPixels \subseteq 0..(Width - 1)
    /\ Places \subseteq [x : Int, w : Nat \ {0}]
    /\ Region \subseteq [lo : Nat, hi : Nat]
    /\ Kinds \subseteq [type : {"locked", "confined"}, oneshot : BOOLEAN,
                        region : [lo : Nat, hi : Nat]]
    /\ Binds \subseteq {"move", "resize", "other"}

Pixel == 0..(Width - 1)
NoConstraint == [type |-> "none", region |-> [lo |-> 0, hi |-> 0], oneshot |-> FALSE]
Constraint == {[k EXCEPT !.region = r] : k \in Kinds, r \in Region}

VARIABLES
    box,         \* box[v]: geo, [x, w]
    mapped,      \* the windows in the scene
    above,       \* the pairs of them with the first stacked over the second
    floating,    \* the floating windows, none of them fullscreen
    cursor,      \* the pixel under the cursor
    pointer,     \* the surface with pointer focus
    keyboard,    \* the window with keyboard focus
    constraint,  \* constraint[v]: the pointer constraint of v's surface
    active,      \* active_constraint, by its surface
    drag,        \* cursor_mode, grabbed_view, grab_x, grab_geobox, resize_edges
    bindGrab,    \* mousebind_grab_active
    inhibitors,  \* surfaces with an active shortcuts inhibitor
    held,        \* buttons and keys down
    seen,        \* seen[v]: those client v takes for down
    session      \* the kinds of input there are, which never change

winVars == <<box, mapped, above, floating>>
vars == <<winVars, cursor, pointer, keyboard, constraint, active, drag, bindGrab,
          inhibitors, held, seen, session>>

Passthrough == [mode |-> "Passthrough", view |-> NoView, x |-> 0, geo |-> [x |-> 0, w |-> 1],
                edge |-> "RIGHT"]

TypeOK ==
    /\ box \in [View -> [x : Int, w : Nat \ {0}]]
    /\ mapped \subseteq View /\ above \subseteq mapped \X mapped
    /\ cursor \in Pixel
    /\ pointer \in View \cup {NoView}
    /\ keyboard \in View \cup {NoView}
    /\ constraint \in [View -> Constraint \cup {NoConstraint}]
    /\ active \in View \cup {NoView}
    /\ drag.mode \in {"Passthrough", "Move", "Resize"}
    /\ drag.view \in View \cup {NoView}
    /\ bindGrab \in BOOLEAN
    /\ held \subseteq Button \cup Key \cup {Mod}
    /\ \A v \in View : seen[v] \subseteq Button \cup Key \cup {Mod}

Init ==
    /\ \E b \in Places : box = [v \in View |-> b]
    /\ mapped = {} /\ above = {} /\ floating = {}
    /\ cursor \in Pixel
    /\ pointer = NoView /\ keyboard = NoView
    /\ constraint = [v \in View |-> NoConstraint]
    /\ active = NoView
    /\ drag = Passthrough /\ bindGrab = FALSE
    /\ inhibitors = {} /\ held = {}
    /\ seen = [v \in View |-> {}]
    /\ session \in Sessions

-----------------------------------------------------------------------------
(* What is under a pixel: a bar or widget, else the topmost window there.    *)
Covers(v, p) == box[v].x <= p /\ p < box[v].x + box[v].w

TopmostAt(v, p) ==
    Covers(v, p) /\ \A u \in mapped : Covers(u, p) => u = v \/ <<v, u>> \in above

DesktopViewAt(p) ==
    IF p \in BarPixels \/ ~ \E v \in mapped : TopmostAt(v, p)
    THEN NoView ELSE CHOOSE v \in mapped : TopmostAt(v, p)

(* Pointer, constraints and windows as one record: motion changes it in      *)
(* several places of one handler.                                            *)
State == [cursor |-> cursor, pointer |-> pointer, keyboard |-> keyboard,
          active |-> active, constraint |-> constraint, seen |-> seen, box |-> box,
          mapped |-> mapped, above |-> above, floating |-> floating]

Becomes(s) ==
    /\ cursor' = s.cursor /\ pointer' = s.pointer /\ keyboard' = s.keyboard
    /\ active' = s.active /\ constraint' = s.constraint /\ seen' = s.seen /\ box' = s.box
    /\ mapped' = s.mapped /\ above' = s.above /\ floating' = s.floating

(* wl_pointer.leave makes a client forget its buttons, wl_keyboard.leave its *)
(* keys, and wl_keyboard.enter tells the keys that are down.                 *)
PointerFocus(s, v) ==
    IF s.pointer = v THEN s
    ELSE [s EXCEPT !.pointer = v,
                   !.seen = [u \in View |-> IF u = s.pointer THEN @[u] \ Button ELSE @[u]]]

(* To the top of its layer: floating windows are above tiled ones.           *)
Raised(s, v) ==
    LET others == s.mapped \ {v}
        over == {u \in others : u \in s.floating /\ v \notin s.floating}
    IN [s EXCEPT !.mapped = @ \cup {v},
                 !.above = {pair \in @ : v \notin {pair[1], pair[2]}}
                           \cup (over \X {v}) \cup ({v} \X (others \ over))]

FocusView(s, v) ==
    IF s.keyboard = v THEN s
    ELSE [Raised(s, v) EXCEPT
                   !.keyboard = v,
                   !.seen = [u \in View |->
                      IF u = v THEN (@[u] \cap Button) \cup (held \ Button)
                      ELSE IF u = s.keyboard THEN @[u] \cap Button ELSE @[u]]]

(* deactivateActiveConstraint: a oneshot constraint is destroyed by it.      *)
Deactivate(s) ==
    IF s.active = NoView THEN s
    ELSE [s EXCEPT !.active = NoView,
                   !.constraint[s.active] = IF @.oneshot THEN NoConstraint ELSE @]

(* clampCursorToConstraint. A warp to where there is no output does nothing. *)
Inside(s) ==
    LET r == s.constraint[s.active].region
    IN s.cursor - s.box[s.active].x \in r.lo..(r.hi - 1)

Nearest(s) ==
    LET r == s.constraint[s.active].region
        at == s.cursor - s.box[s.active].x
    IN s.box[s.active].x + (IF at < r.lo THEN r.lo ELSE IF at >= r.hi THEN r.hi - 1 ELSE at)

Clamp(s) ==
    IF \/ s.active = NoView
       \/ s.constraint[s.active].type # "confined"
       \/ s.constraint[s.active].region.lo >= s.constraint[s.active].region.hi
       \/ Nearest(s) \notin Pixel
    THEN s ELSE [s EXCEPT !.cursor = Nearest(s)]

(* activateConstraint, were the cursor left where it is.                     *)
ActivateUnclamped(s, v) ==
    IF s.active = v THEN s ELSE [Deactivate(s) EXCEPT !.active = v]

Activate(s, v) ==
    IF s.active = v THEN s ELSE Clamp([Deactivate(s) EXCEPT !.active = v])

(* A locked constraint stops ordinary motion, not a drag.                    *)
PointerLockActive(s) ==
    s.active # NoView /\ drag.mode = "Passthrough" /\ s.constraint[s.active].type = "locked"

-----------------------------------------------------------------------------
MinWidth == 1

(* Dragged, were the width not kept above the minimum.                       *)
DraggedNarrow(s) ==
    IF drag.mode = "Move"
    THEN [x |-> s.cursor - drag.x, w |-> s.box[drag.view].w]
    ELSE LET d == s.cursor - drag.x
         IN IF drag.edge = "LEFT" THEN [x |-> drag.geo.x + d, w |-> drag.geo.w - d]
            ELSE [x |-> drag.geo.x, w |-> drag.geo.w + d]

(* processCursorMotion: a drag moves or resizes its window ...               *)
Dragged(s) ==
    IF drag.mode = "Move"
    THEN [x |-> s.cursor - drag.x, w |-> s.box[drag.view].w]
    ELSE LET d == s.cursor - drag.x
             wanted == IF drag.edge = "LEFT" THEN drag.geo.w - d ELSE drag.geo.w + d
         IN [x |-> IF drag.edge = "LEFT" THEN drag.geo.x + d ELSE drag.geo.x,
             w |-> IF wanted < MinWidth THEN MinWidth ELSE wanted]

(* Enter, were the constraint kept when the cursor leaves for bare desktop.  *)
EnterKeeping(s, v) ==
    IF v = NoView THEN PointerFocus(s, NoView)
    ELSE IF v = s.pointer THEN s
    ELSE PointerFocus(IF s.constraint[v].type # "none" THEN Activate(s, v)
                      ELSE Deactivate(s), v)

(* ... and otherwise the surface under the cursor is entered, the constraint *)
(* changing with the surface.                                                *)
Enter(s, v) ==
    IF v = NoView THEN PointerFocus(Deactivate(s), NoView)
    ELSE IF v = s.pointer THEN s
    ELSE PointerFocus(IF s.constraint[v].type # "none" THEN Activate(s, v)
                      ELSE IF s.active # v THEN Deactivate(s) ELSE s, v)

FollowMouse(s, v) ==
    IF "follow" \in session /\ v # NoView THEN FocusView(s, v) ELSE s

ProcessCursorMotion(s) ==
    IF drag.mode # "Passthrough" /\ drag.view # NoView
    THEN [s EXCEPT !.box[drag.view] = Dragged(s)]
    ELSE LET v == DesktopViewAt(s.cursor) IN Enter(FollowMouse(s, v), v)

(* cursor_motion and cursor_motion_absolute move the cursor, unless it is    *)
(* locked, and keep it confined.                                             *)
MoveCursor(s, p) ==
    IF PointerLockActive(s) THEN s ELSE Clamp([s EXCEPT !.cursor = p])

Motion(p) ==
    /\ Becomes(ProcessCursorMotion(MoveCursor(State, p)))
    /\ UNCHANGED <<drag, bindGrab, inhibitors, held, session>>

-----------------------------------------------------------------------------
(* Drags. beginInteractiveMove and beginInteractiveResize refuse a tiled or  *)
(* fullscreen window. MaxWidth bounds the model: repeated resizes would let  *)
(* a window grow for ever.                                                   *)
Draggable(v) ==
    v \in floating /\ box[v].x \in Pixel /\ box[v].w <= MaxWidth

MoveGrab(v) ==
    IF ~ Draggable(v) THEN drag
    ELSE [drag EXCEPT !.mode = "Move", !.view = v, !.x = cursor - box[v].x]

ResizeGrab(v, edge) ==
    IF ~ Draggable(v) THEN drag
    ELSE [mode |-> "Resize", view |-> v, x |-> cursor, geo |-> box[v], edge |-> edge]

(* beginInteractiveResizeFromCursor takes the edge of the nearer half.       *)
NearEdge(v) == IF 2 * (cursor - box[v].x) < box[v].w THEN "LEFT" ELSE "RIGHT"

(* request_move and request_resize of a client, or begin_move from a keybind:*)
(* nothing asks that a button is down.                                       *)
RequestMove(v) ==
    /\ v \in mapped
    /\ drag' = MoveGrab(v)
    /\ UNCHANGED <<winVars, cursor, pointer, keyboard, constraint, active, bindGrab,
                   inhibitors, held, seen, session>>

RequestResize(v, edge) ==
    /\ v \in mapped
    /\ drag' = ResizeGrab(v, edge)
    /\ UNCHANGED <<winVars, cursor, pointer, keyboard, constraint, active, bindGrab,
                   inhibitors, held, seen, session>>

(* A button goes to the surface with pointer focus, wherever the cursor is.  *)
NotifyPress(s, b) ==
    [s EXCEPT !.seen = [v \in View |-> IF v = s.pointer THEN @[v] \cup {b} ELSE @[v]]]

(* cursor_button, pressed: a bar keeps it; with the modifier a mousebind     *)
(* keeps it and runs its callback; otherwise it goes to the client and the   *)
(* window under the cursor takes the focus.                                  *)
PressOnBar(b) ==
    /\ b \notin held /\ cursor \in BarPixels
    /\ held' = held \cup {b}
    /\ UNCHANGED <<winVars, cursor, pointer, keyboard, constraint, active, drag,
                   bindGrab, inhibitors, seen, session>>

PressMousebind(b) ==
    LET v == DesktopViewAt(cursor)
    IN /\ b \notin held /\ cursor \notin BarPixels
       /\ v # NoView /\ Mod \in held /\ Binds # {}
       /\ Becomes(FocusView(State, v))
       /\ bindGrab' = TRUE
       /\ \E does \in Binds :
             drag' = CASE does = "move" -> MoveGrab(v)
                       [] does = "resize" -> ResizeGrab(v, NearEdge(v))
                       [] does = "other" -> drag
       /\ held' = held \cup {b}
       /\ UNCHANGED <<inhibitors, session>>

PressOnClient(b) ==
    LET v == DesktopViewAt(cursor)
        s == NotifyPress(State, b)
    IN /\ b \notin held /\ cursor \notin BarPixels
       /\ v = NoView \/ Mod \notin held \/ Binds = {}
       /\ Becomes(IF v = NoView THEN s ELSE FocusView(s, v))
       /\ held' = held \cup {b}
       /\ UNCHANGED <<drag, bindGrab, inhibitors, session>>

(* cursor_button, released: any drag ends, and the release is swallowed when *)
(* the flag says that the press was.                                         *)
Release(b) ==
    /\ b \in held
    /\ held' = held \ {b}
    /\ IF drag.mode # "Passthrough"
       THEN drag' = Passthrough /\ bindGrab' = FALSE
       ELSE UNCHANGED <<drag, bindGrab>>
    /\ seen' = IF bindGrab THEN seen
               ELSE [v \in View |-> IF v = pointer THEN seen[v] \ {b} ELSE seen[v]]
    /\ UNCHANGED <<winVars, cursor, pointer, keyboard, constraint, active, inhibitors,
                   session>>

-----------------------------------------------------------------------------
(* Keys. handleKey looks for a keybind only at a press, and only when the    *)
(* focused surface does not inhibit shortcuts; what is not handled goes to   *)
(* the focused client.                                                       *)
ShortcutsInhibited == keyboard \in inhibitors

Handled(k) == k \in Bound /\ Mod \in held /\ ~ ShortcutsInhibited

SeenKey(k, down) ==
    [v \in View |-> IF v # keyboard THEN seen[v]
                    ELSE IF down THEN seen[v] \cup {k} ELSE seen[v] \ {k}]

KeyPress(k) ==
    /\ k \notin held
    /\ held' = held \cup {k}
    /\ seen' = IF Handled(k) THEN seen ELSE SeenKey(k, TRUE)
    /\ UNCHANGED <<winVars, cursor, pointer, keyboard, constraint, active, drag,
                   bindGrab, inhibitors, session>>

(* KeyRelease, were a release matched against the keybinds like a press.     *)
KeyReleaseHandled(k) ==
    /\ k \in held
    /\ held' = held \ {k}
    /\ seen' = IF Handled(k) THEN seen ELSE SeenKey(k, FALSE)
    /\ UNCHANGED <<winVars, cursor, pointer, keyboard, constraint, active, drag,
                   bindGrab, inhibitors, session>>

KeyRelease(k) ==
    /\ k \in held
    /\ held' = held \ {k}
    /\ seen' = SeenKey(k, FALSE)
    /\ UNCHANGED <<winVars, cursor, pointer, keyboard, constraint, active, drag,
                   bindGrab, inhibitors, session>>

(* A keyboard-shortcuts inhibitor comes and goes with the client.            *)
Inhibit(v) ==
    /\ inhibitors' = IF v \in inhibitors THEN inhibitors \ {v} ELSE inhibitors \cup {v}
    /\ UNCHANGED <<winVars, cursor, pointer, keyboard, constraint, active, drag,
                   bindGrab, held, seen, session>>

(* newPointerConstraint: active at once on the surface with pointer focus.   *)
NewPointerConstraint(v, c) ==
    /\ constraint[v] = NoConstraint
    /\ LET s == [State EXCEPT !.constraint[v] = c]
       IN Becomes(IF pointer = v THEN Activate(s, v) ELSE s)
    /\ UNCHANGED <<drag, bindGrab, inhibitors, held, session>>

(* PointerConstraint::handleDestroy and its destructor; handleSetRegion      *)
(* leaves the cursor to the next motion.                                     *)
DestroyConstraint(v) ==
    /\ constraint[v] # NoConstraint
    /\ constraint' = [constraint EXCEPT ![v] = NoConstraint]
    /\ active' = IF active = v THEN NoView ELSE active
    /\ UNCHANGED <<winVars, cursor, pointer, keyboard, drag, bindGrab, inhibitors,
                   held, seen, session>>

SetRegion(v, r) ==
    /\ constraint[v] # NoConstraint
    /\ constraint' = [constraint EXCEPT ![v].region = r]
    /\ UNCHANGED <<winVars, cursor, pointer, keyboard, active, drag, bindGrab,
                   inhibitors, held, seen, session>>

-----------------------------------------------------------------------------
(* Windows come, go and move by the rest of the compositor: a map puts the   *)
(* window on top of its layer and focuses it; an unmap ends its drag and     *)
(* passes the focus on, if to anyone, without any pointer event; its         *)
(* surface, with its constraint, lives.                                      *)
Map(v, b, float) ==
    /\ v \notin mapped
    /\ LET placed == [State EXCEPT
                        !.box[v] = b,
                        !.floating = IF float THEN @ \cup {v} ELSE @ \ {v}]
       IN Becomes(FocusView(Raised(placed, v), v))
    /\ UNCHANGED <<drag, bindGrab, inhibitors, held, session>>

Unmap(v) ==
    /\ v \in mapped
    /\ IF drag.view = v THEN drag' = Passthrough /\ bindGrab' = FALSE
       ELSE UNCHANGED <<drag, bindGrab>>
    /\ LET rest == mapped \ {v}
           left == [State EXCEPT !.mapped = rest, !.above = @ \cap (rest \X rest)]
       IN IF keyboard # v \/ rest = {} THEN Becomes(left)
          ELSE \E next \in rest : Becomes(FocusView(left, next))
    /\ UNCHANGED <<inhibitors, held, session>>

(* An arrange or a change of tags puts a window elsewhere under the cursor.  *)
Rearrange(v, b) ==
    /\ v \in mapped /\ box[v] # b
    /\ box' = [box EXCEPT ![v] = b]
    /\ UNCHANGED <<mapped, above, floating, cursor, pointer, keyboard, constraint, active, drag,
                   bindGrab, inhibitors, held, seen, session>>

Buttons == \E b \in Button :
    PressOnBar(b) \/ PressMousebind(b) \/ PressOnClient(b) \/ Release(b)

Keys == \E k \in Key \cup {Mod} : KeyPress(k) \/ KeyRelease(k)

Constraints(v) ==
    \/ \E c \in Constraint : NewPointerConstraint(v, c)
    \/ DestroyConstraint(v)
    \/ \E r \in Region : SetRegion(v, r)

Windows(v) ==
    \/ Unmap(v)
    \/ \E b \in Places, f \in BOOLEAN : Map(v, b, f)

Next ==
    \/ \E p \in Pixel : Motion(p)
    \/ "button" \in session /\ Buttons
    \/ "key" \in session /\ (Keys \/ \E v \in View : Inhibit(v))
    \/ \E v \in View : Windows(v)
    \/ "move" \in session /\ \E v \in View : RequestMove(v)
    \/ "resize" \in session /\ \E v \in View, e \in {"LEFT", "RIGHT"} : RequestResize(v, e)
    \/ "constrain" \in session /\ \E v \in View : Constraints(v)
    \/ "rearrange" \in session /\ \E v \in View, b \in Places : Rearrange(v, b)

Spec == Init /\ [][Next]_vars

-----------------------------------------------------------------------------
(* The active constraint is that of the surface with pointer focus: windows  *)
(* that move, come and go under a still cursor, drags and constraints made   *)
(* and destroyed at any time do not leave a client holding the pointer of    *)
(* another.                                                                  *)
ConstraintFollowsPointer ==
    active # NoView => pointer = active /\ constraint[active] # NoConstraint

(* After the cursor moved freely with a confined constraint in force, it is  *)
(* inside the region, the constraint entered by that very motion included,   *)
(* if the region is not empty and its nearest pixel is on an output.         *)
MayBeInside(s) ==
    LET r == s.constraint[s.active].region IN r.lo < r.hi /\ Nearest(s) \in Pixel

ConfinedStaysInside ==
    [][\A p \in Pixel :
          /\ Motion(p) /\ drag.mode = "Passthrough"
          /\ active' # NoView
          /\ constraint'[active'].type = "confined"
          /\ MayBeInside(State')
          => Inside(State')]_vars

(* A key that the focused client takes for down is down, whatever modifiers, *)
(* keybinds, inhibitors and focus changes came between press and release.    *)
NoStuckKey ==
    \A v \in View : seen[v] \ Button \subseteq held
=============================================================================
