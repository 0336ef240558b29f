---------------------------- MODULE SessionLock ----------------------------
(***************************************************************************)
(* The session lock (session_lock.cpp and the fields of Server and Output  *)
(* it shares): the black rectangle of every output, the lock client's      *)
(* surface on it, and the keyboard, while outputs come, go, change mode    *)
(* and are moved about, and lock clients start, unlock or die.  A lock     *)
(* client that dies leaves its SessionLock leaked on purpose, rectangles   *)
(* and all.                                                                *)
(* Where an output is, wlr_output_layout decides (place); the compositor   *)
(* reads it into layout_box when that output itself changes, and keeps     *)
(* what it read when the change of another output moves it.                *)
(* A lock surface keeps a reference to its Output. Once that is freed the  *)
(* destructor reads freed memory: nothing comes of it, or the compositor   *)
(* ends there, and nothing is modelled after that (running).               *)
(***************************************************************************)
EXTENDS FiniteSets

CONSTANTS
    Output,
    Pinned,          \* the outputs whose monitor rule gives them a position
    Spot, Mode,      \* places in the layout, sizes
    Lock, Surface,   \* lock clients and lock surfaces, each used once
    NoBox, NoLock, NoSurface, NoOutput,
    Freed,           \* the Output of a lock surface that has been destroyed
    KView            \* the keyboard on the surface of a window

Box == Spot \X Mode

ASSUME LockAssumption ==
    /\ Pinned \subseteq Output
    /\ NoBox \notin Box
    /\ NoLock \notin Lock
    /\ NoSurface \notin Surface \cup {KView} /\ KView \notin Surface
    /\ NoOutput \notin Output /\ Freed \notin Output \cup {NoOutput}

VARIABLES
    running,         \* the compositor has not ended
    place,           \* of each output, the box wlr_output_layout has for it
    layout_box,      \* of each output, as last read; NoBox: not connected
    session_locked, session_lock,       \* Server
    focused_view,    \* whether there is one
    client,          \* "unborn", "held", "crashed", "done", "refused"
    rect,            \* rect[l][o]: the rectangle under l's tree at o, or NoBox
    lock_backdrop,   \* of each output: the lock whose rectangle it points to
    lock_surface,    \* of each output
    surf,            \* the lock surfaces
    keyboard         \* seat->keyboard_state.focused_surface

screen == <<place, layout_box, rect, lock_backdrop>>
prompt == <<lock_surface, surf>>
vars == <<running, screen, prompt, session_locked, session_lock, focused_view,
          client, keyboard>>

Connected == {o \in Output : layout_box[o] # NoBox}

(* "live" and "mapped" surfaces have a SessionLockSurface, "loose" ones      *)
(* outlived it.                                                              *)
SurfaceState == [state : {"unborn", "live", "mapped", "loose", "dead"},
                 lock : Lock \cup {NoLock},
                 output : Output \cup {NoOutput, Freed}]

(* A surface with no SessionLockSurface. *)
Gone(state) == [state |-> state, lock |-> NoLock, output |-> NoOutput]

TypeOK ==
    /\ running \in BOOLEAN
    /\ place \in [Output -> Box \cup {NoBox}]
    /\ layout_box \in [Output -> Box \cup {NoBox}]
    /\ session_locked \in BOOLEAN /\ focused_view \in BOOLEAN
    /\ client \in [Lock -> {"unborn", "held", "crashed", "done", "refused"}]
    /\ session_lock \in Lock \cup {NoLock}
    /\ \A l \in Lock : client[l] = "held" <=> session_lock = l
    /\ rect \in [Lock -> [Output -> Box \cup {NoBox}]]
    /\ lock_backdrop \in [Output -> Lock \cup {NoLock}]
    /\ lock_surface \in [Output -> Surface \cup {NoSurface}]
    /\ surf \in [Surface -> SurfaceState]
    /\ keyboard \in Surface \cup {KView, NoSurface}

Init ==
    /\ running = TRUE
    /\ place = [o \in Output |-> NoBox]
    /\ layout_box = [o \in Output |-> NoBox]
    /\ session_locked = FALSE /\ session_lock = NoLock
    /\ focused_view = FALSE /\ keyboard = NoSurface
    /\ client = [l \in Lock |-> "unborn"]
    /\ rect = [l \in Lock |-> [o \in Output |-> NoBox]]
    /\ lock_backdrop = [o \in Output |-> NoLock]
    /\ lock_surface = [o \in Output |-> NoSurface]
    /\ surf = [s \in Surface |-> Gone("unborn")]

Runs == running /\ running' = TRUE

(* ~SessionLockSurface compares output.lock_surface with itself. *)
Destroys(gone) ==
    /\ running
    /\ running' \in IF \E s \in gone : /\ surf[s].state \in {"live", "mapped"}
                                       /\ surf[s].output = Freed
                    THEN BOOLEAN ELSE {TRUE}

-----------------------------------------------------------------------------
(* Outputs. *)

(* wlr_output_layout gives o the box b (NoBox: none any more), and may move  *)
(* the outputs that it places by itself.                                     *)
Moved(p) == {<<s, place[p][2]>> : s \in Spot}

Arranged(o, b) ==
    place' \in {f \in [Output -> Box \cup {NoBox}] :
        /\ f[o] = b
        /\ \A p \in Output \ {o} :
              IF p \in Connected \ Pinned THEN f[p] \in Moved(p) ELSE f[p] = place[p]}

(* new_output, were addOutput() not called. *)
PlugBare(o) ==
    /\ Runs /\ o \notin Connected
    /\ \E b \in Box : Arranged(o, b) /\ layout_box' = [layout_box EXCEPT ![o] = b]
    /\ UNCHANGED <<rect, lock_backdrop, prompt, session_locked, session_lock,
                   focused_view, client, keyboard>>

(* new_output: addOutput() if a lock is held; after a crash nothing covers   *)
(* the new output (server.cpp says so).                                      *)
Plug(o) ==
    /\ Runs /\ o \notin Connected
    /\ \E b \in Box :
         /\ Arranged(o, b)
         /\ layout_box' = [layout_box EXCEPT ![o] = b]
         /\ IF session_locked /\ session_lock # NoLock
            THEN /\ rect' = [rect EXCEPT ![session_lock][o] = b]
                 /\ lock_backdrop' = [lock_backdrop EXCEPT ![o] = session_lock]
            ELSE UNCHANGED <<rect, lock_backdrop>>
    /\ UNCHANGED <<prompt, session_locked, session_lock, focused_view, client, keyboard>>

(* ~Output destroys the rectangle it points to, an older lock's stays in the *)
(* scene.  The surface on it outlives it: wlroots destroys it later, or it   *)
(* has gone before.  Nobody tells the SessionLockSurface.                    *)
Unplug(o) ==
    /\ Runs /\ o \in Connected
    /\ Arranged(o, NoBox)
    /\ layout_box' = [layout_box EXCEPT ![o] = NoBox]
    /\ rect' = IF lock_backdrop[o] = NoLock THEN rect
               ELSE [rect EXCEPT ![lock_backdrop[o]][o] = NoBox]
    /\ lock_backdrop' = [lock_backdrop EXCEPT ![o] = NoLock]
    /\ lock_surface' = [lock_surface EXCEPT ![o] = NoSurface]
    /\ surf' = [s \in Surface |->
                  IF surf[s].output = o THEN [surf[s] EXCEPT !.output = Freed]
                  ELSE surf[s]]
    /\ UNCHANGED <<session_locked, session_lock, focused_view, client, keyboard>>

(* Output::handleRequestState and applyRule: another mode, or position; only *)
(* this output runs updateLayoutBox, which reads its own box.                *)
SetMode(o, b) ==
    /\ Runs /\ o \in Connected
    /\ Arranged(o, b)
    /\ layout_box' = [layout_box EXCEPT ![o] = b]
    /\ rect' = IF lock_backdrop[o] = NoLock THEN rect
               ELSE [rect EXCEPT ![lock_backdrop[o]][o] = b]
    /\ UNCHANGED <<lock_backdrop, prompt, session_locked, session_lock,
                   focused_view, client, keyboard>>

-----------------------------------------------------------------------------
(* Windows: Server::focusView refuses while locked, but a focused view that  *)
(* unmaps leaves focused_view null at any time.  One without a surface is    *)
(* focused and the keyboard stays on whichever window has it.                *)

FocusView ==
    /\ Runs /\ ~ session_locked
    /\ focused_view' = TRUE /\ keyboard' \in {KView, keyboard}
    /\ UNCHANGED <<screen, prompt, session_locked, session_lock, client>>

LoseView ==
    /\ Runs
    /\ focused_view \/ keyboard = KView
    /\ focused_view' = FALSE
    /\ keyboard' \in IF keyboard = KView THEN {KView, NoSurface} ELSE {keyboard}
    /\ UNCHANGED <<screen, prompt, session_locked, session_lock, client>>

-----------------------------------------------------------------------------
(* The lock client. *)

(* A second lock client is refused, were the refusal forgotten: the first    *)
(* SessionLock is replaced.                                                  *)
NewLockReplacing(l) ==
    /\ Runs /\ client[l] = "unborn"
    /\ client' = [client EXCEPT ![l] = "held"]
    /\ session_locked' = TRUE /\ session_lock' = l
    /\ rect' = [rect EXCEPT ![l] = layout_box]
    /\ lock_backdrop' = [o \in Output |-> IF o \in Connected THEN l ELSE NoLock]
    /\ keyboard' = NoSurface
    /\ UNCHANGED <<place, layout_box, prompt, focused_view>>

(* The keyboard is not taken from whoever has it. *)
NewLockKeepingKeyboard(l) ==
    /\ Runs /\ client[l] = "unborn" /\ session_lock = NoLock
    /\ client' = [client EXCEPT ![l] = "held"]
    /\ session_locked' = TRUE /\ session_lock' = l
    /\ rect' = [rect EXCEPT ![l] = layout_box]
    /\ lock_backdrop' = [o \in Output |-> IF o \in Connected THEN l ELSE NoLock]
    /\ UNCHANGED <<place, layout_box, prompt, focused_view, keyboard>>

(* SessionLock::SessionLock: a rectangle over every output, in a tree raised *)
(* above everything, then "locked" is sent and the keyboard cleared.         *)
NewLock(l) ==
    /\ Runs /\ client[l] = "unborn" /\ session_lock = NoLock
    /\ client' = [client EXCEPT ![l] = "held"]
    /\ session_locked' = TRUE /\ session_lock' = l
    /\ rect' = [rect EXCEPT ![l] = layout_box]
    /\ lock_backdrop' = [o \in Output |-> IF o \in Connected THEN l ELSE NoLock]
    /\ keyboard' = NoSurface
    /\ UNCHANGED <<place, layout_box, prompt, focused_view>>

RefuseLock(l) ==
    /\ Runs /\ client[l] = "unborn" /\ session_lock # NoLock
    /\ client' = [client EXCEPT ![l] = "refused"]
    /\ UNCHANGED <<screen, prompt, session_locked, session_lock, focused_view, keyboard>>

(* SessionLock::handleNewSurface: a second surface for an output replaces    *)
(* the first in the output's pointer.                                        *)
NewSurface(s, o) ==
    /\ Runs /\ session_lock # NoLock
    /\ surf[s].state = "unborn" /\ o \in Connected
    /\ surf' = [surf EXCEPT ![s] = [state |-> "live", lock |-> session_lock, output |-> o]]
    /\ lock_surface' = [lock_surface EXCEPT ![o] = s]
    /\ UNCHANGED <<screen, session_locked, session_lock, focused_view, client, keyboard>>

(* SessionLockSurface::handleMap: the first to map gets the keyboard. *)
MapSurface(s) ==
    /\ Runs /\ surf[s].state = "live"
    /\ surf' = [surf EXCEPT ![s].state = "mapped"]
    /\ keyboard' = IF keyboard = NoSurface THEN s ELSE keyboard
    /\ UNCHANGED <<screen, lock_surface, session_locked, session_lock, focused_view, client>>

KeyboardWithout(gone) == IF keyboard \in gone THEN NoSurface ELSE keyboard

(* ~SessionLockSurface, were the output's pointer left. *)
DestroySurfaceDangling(s) ==
    /\ Destroys({s}) /\ surf[s].state \in {"live", "mapped", "loose"}
    /\ surf' = [surf EXCEPT ![s] = Gone("dead")]
    /\ keyboard' = KeyboardWithout({s})
    /\ UNCHANGED <<screen, lock_surface, session_locked, session_lock, focused_view, client>>

(* SessionLockSurface::handleDestroy, and ~SessionLockSurface, which clears  *)
(* the pointer of an output that lives.  wlroots takes the keyboard from a   *)
(* surface that goes.                                                        *)
DestroySurface(s) ==
    /\ Destroys({s}) /\ surf[s].state \in {"live", "mapped", "loose"}
    /\ surf' = [surf EXCEPT ![s] = Gone("dead")]
    /\ lock_surface' = [o \in Output |-> IF lock_surface[o] = s THEN NoSurface
                                         ELSE lock_surface[o]]
    /\ keyboard' = KeyboardWithout({s})
    /\ UNCHANGED <<screen, session_locked, session_lock, focused_view, client>>

(* SessionLock::handleUnlock, then ~SessionLock: its own tree goes, every    *)
(* output's pointers are cleared.  The client's surfaces outlive it.         *)
Unlock ==
    /\ Destroys({s \in Surface : surf[s].lock = session_lock})
    /\ session_lock # NoLock
    /\ client' = [client EXCEPT ![session_lock] = "done"]
    /\ session_locked' = FALSE /\ session_lock' = NoLock
    /\ keyboard' \in IF focused_view THEN {KView, keyboard} ELSE {keyboard}
    /\ surf' = [s \in Surface |->
                  IF surf[s].lock = session_lock THEN Gone("loose") ELSE surf[s]]
    /\ lock_backdrop' = [o \in Output |-> NoLock]
    /\ lock_surface' = [o \in Output |-> NoSurface]
    /\ rect' = [rect EXCEPT ![session_lock] = [o \in Output |-> NoBox]]
    /\ UNCHANGED <<place, layout_box, focused_view>>

(* The lock client dies and all its objects with it. *)
Dead == {s \in Surface : surf[s].lock = session_lock}

(* SessionLock::handleDestroy as every other handleDestroy does it: the      *)
(* object is destroyed, its tree with it.                                    *)
LockDiesCleanly ==
    /\ Destroys(Dead) /\ session_lock # NoLock
    /\ client' = [client EXCEPT ![session_lock] = "crashed"]
    /\ session_lock' = NoLock
    /\ surf' = [s \in Surface |-> IF s \in Dead THEN Gone("dead") ELSE surf[s]]
    /\ lock_surface' = [o \in Output |-> NoSurface]
    /\ lock_backdrop' = [o \in Output |-> NoLock]
    /\ rect' = [rect EXCEPT ![session_lock] = [o \in Output |-> NoBox]]
    /\ keyboard' = KeyboardWithout(Dead)
    /\ UNCHANGED <<place, layout_box, session_locked, focused_view>>

(* SessionLock::handleDestroy: the object is released and leaked, so that    *)
(* its rectangles stay.                                                      *)
LockDies ==
    /\ Destroys(Dead) /\ session_lock # NoLock
    /\ client' = [client EXCEPT ![session_lock] = "crashed"]
    /\ session_lock' = NoLock
    /\ surf' = [s \in Surface |-> IF s \in Dead THEN Gone("dead") ELSE surf[s]]
    /\ lock_surface' = [o \in Output |-> IF lock_surface[o] \in Dead THEN NoSurface
                                         ELSE lock_surface[o]]
    /\ keyboard' = KeyboardWithout(Dead)
    /\ UNCHANGED <<screen, session_locked, focused_view>>

-----------------------------------------------------------------------------
OutputStep == \E o \in Output : \/ Plug(o) \/ Unplug(o)
                                \/ \E b \in Box : SetMode(o, b)
ViewStep == FocusView \/ LoseView
LockStep == \E l \in Lock : NewLock(l) \/ RefuseLock(l)
SurfaceStep == \E s \in Surface : \/ MapSurface(s) \/ DestroySurface(s)
                                  \/ \E o \in Output : NewSurface(s, o)

Next == OutputStep \/ ViewStep \/ LockStep \/ SurfaceStep \/ Unlock \/ LockDies

Spec == Init /\ [][Next]_vars

-----------------------------------------------------------------------------
Covered(o) == \E l \in Lock, p \in Output : rect[l][p] = place[o]

(* While a lock is held the session is locked, and every connected output,
   whenever it came and however its mode changed, has a rectangle of that
   lock with the box that was read last (addOutput, updateLayoutBox), also
   when an earlier lock client crashed and left its own behind.  An output
   with a position of its own is behind it exactly; another one is unless the
   layout has moved it since, which nobody notices.                          *)
LockCovers ==
    session_lock # NoLock =>
        /\ session_locked
        /\ \A o \in Connected :
             /\ lock_backdrop[o] = session_lock
             /\ rect[session_lock][o] = layout_box[o]
             /\ o \in Pinned => rect[session_lock][o] = place[o]

(* An output covered by the rectangle it points to stays covered until it is
   unplugged or the session is unlocked: no crash of the lock client, no new
   lock, no surface that goes and no mode change of its own shows what is
   under it, nor does another output if it has a position of its own or is
   not moved.                                                                *)
StaysCovered ==
    [][\A o \in Connected \cap Connected' :
         /\ session_locked /\ session_locked'
         /\ lock_backdrop[o] # NoLock /\ rect[lock_backdrop[o]][o] = place[o]
         /\ o \in Pinned \/ place'[o] = layout_box'[o]
         => Covered(o)']_vars

(* Behind the lock the keyboard is on a mapped surface of the lock that is
   held, or nowhere: not on a window, not on what an earlier lock client
   left, not on a surface that is gone.                                      *)
KeyboardOnPrompt ==
    session_locked => \/ keyboard = NoSurface
                      \/ /\ keyboard \in Surface
                         /\ surf[keyboard].state = "mapped"
                         /\ surf[keyboard].lock = session_lock

(* An output's pointers are to things that are there: its rectangle is in
   the scene, and its lock surface is on it and has not been destroyed
   (~Output and updateLayoutBox follow both).  The reference back, from the
   surface to its output, is not always: see Freed.                          *)
PointersLive ==
    \A o \in Output :
        /\ lock_backdrop[o] # NoLock =>
               o \in Connected /\ rect[lock_backdrop[o]][o] # NoBox
        /\ lock_surface[o] # NoSurface =>
               /\ surf[lock_surface[o]].state \in {"live", "mapped"}
               /\ surf[lock_surface[o]].output = o
=============================================================================
