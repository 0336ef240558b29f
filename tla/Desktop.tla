------------------------------ MODULE Desktop ------------------------------
(* The windows, outputs and focus of uwuwm: struct View (view.cpp, with the
   map/unmap/destroy handlers of toplevel.cpp and xwayland_view.cpp), struct
   Output (output.cpp), layout::arrange (layout.cpp) and the focus and lock
   state of struct Server (server.cpp, session_lock.cpp).

   The compositor runs one event loop, so a handler is one atomic step.  A
   handler calls helpers that change views, outputs and the seat in turn; each
   helper is an operator from a desk, the record of all three, to the desk it
   leaves, and an action commits the desk its handler ends with.  Hooks are
   taken to do nothing here, and every commit of adaptive sync to succeed; that
   a focused game hints for sync (focusedWantsGameSync) is left out.

   Override-redirect X11 windows (View::unmanaged) are outside the model: no
   handler here touches them.                                              *)
EXTENDS Naturals

CONSTANTS
    View, Output,   \* windows and outputs, each a slot reused after a destroy
    Tag, FirstTag,  \* cfg::kTagCount tags; a tagset is a set of them
    NoView, NoOutput, LockSurface,
    AnimEnabled,    \* settings.anim_enabled
    Requests        \* the requests the environment issues: a bound of each run

RequestKind ==
    {"minimize", "fullscreen", "float", "tags", "tagset", "move", "unplug",
     "close", "grab", "lock", "reload", "focus", "monitor",
     "bare",  \* X11 windows that have no wl_surface yet, or no longer
     "sync"}  \* monitor rules that ask for adaptive sync

ASSUME DesktopConstants ==
    /\ FirstTag \in Tag
    /\ NoView \notin View
    /\ NoOutput \notin Output
    /\ LockSurface \notin View \cup {NoView}
    /\ AnimEnabled \in BOOLEAN
    /\ Requests \subseteq RequestKind

VARIABLES
    view,   \* what each View holds, absent ones included
    out,    \* what each Output holds
    seat,   \* focus, keyboard, lock and grab of Server
    older   \* list order of Server::views and of Server::outputs

vars == <<view, out, seat, older>>

-----------------------------------------------------------------------------
(* State *)

Tagset == (SUBSET Tag) \ {{}}
MaybeView == View \cup {NoView}
MaybeOutput == Output \cup {NoOutput}

(* geo, by what last computed it: an arranged slot, the whole output, or a
   floating placement, and for which output.                               *)
Box == [kind : {"none", "slot", "full", "float"}, on : MaybeOutput]
NoBox == [kind |-> "none", on |-> NoOutput]

ViewState ==
    [phase : {"absent", "unmapped", "mapped"},
     surface : BOOLEAN,     \* wlrSurface(): an X11 window may lack one
     output : MaybeOutput,
     tags : Tagset,
     minimized : BOOLEAN, floating : BOOLEAN, fullscreen : BOOLEAN,
     shown : BOOLEAN,       \* its scene node is enabled
     activated : BOOLEAN,   \* the last setFocused() said so to the client
     anim : {"none", "plain", "disable", "close"},  \* ViewAnimation::on_finish
     closing : BOOLEAN,     \* close() accepted, closeBackend() still to come
     faded : BOOLEAN,       \* a finished close animation left opacity 0
     box : Box]

OutputState ==
    [connected : BOOLEAN,
     tagset : Tagset,
     laid : SUBSET View,    \* the tiled views of the last arrange()
     sync : BOOLEAN]        \* adaptive_sync_on

SeatState ==
    [focused_view : MaybeView,
     focused_output : MaybeOutput,
     kb : MaybeView \cup {LockSurface},  \* seat->keyboard_state.focused_surface
     told : MaybeView,      \* the view client::focus last named, if no
                            \* client::unfocus or client::unmanage did since
     grabbed : MaybeView,   \* grabbed_view, with cursor_mode # Passthrough
     lock : {"none", "held", "crashed"}] \* session_locked and session_lock

Desk == [view : [View -> ViewState],
         out : [Output -> OutputState],
         seat : SeatState]

Absent ==
    [phase |-> "absent", surface |-> TRUE,
     output |-> NoOutput, tags |-> {FirstTag},
     minimized |-> FALSE, floating |-> FALSE, fullscreen |-> FALSE,
     shown |-> FALSE, activated |-> FALSE, anim |-> "none",
     closing |-> FALSE, faded |-> FALSE, box |-> NoBox]

Disconnected ==
    [connected |-> FALSE, tagset |-> {FirstTag}, laid |-> {}, sync |-> FALSE]

desk == [view |-> view, out |-> out, seat |-> seat]

Commit(d) == view' = d.view /\ out' = d.out /\ seat' = d.seat

-----------------------------------------------------------------------------
(* Questions about a desk *)

Alive(d, v) == d.view[v].phase # "absent"
Mapped(d, v) == d.view[v].phase = "mapped"
Connected(d) == {o \in Output : d.out[o].connected}

(* v->output && (v->tags & v->output->tagset) *)
OnShownTag(d, v) ==
    /\ d.view[v].output # NoOutput
    /\ d.view[v].tags \cap d.out[d.view[v].output].tagset # {}

(* The views updateAdaptiveSync() counts on o: mapped, restored, on its tags. *)
Showing(d, o) ==
    {v \in View : /\ Mapped(d, v)
                  /\ d.view[v].output = o
                  /\ ~d.view[v].minimized
                  /\ OnShownTag(d, v)}

(* layout::getTiledViews *)
Tiled(d, o) ==
    {v \in Showing(d, o) : ~d.view[v].floating /\ ~d.view[v].fullscreen}

(* x is the front of the list that holds S, or none when S is empty. *)
FirstOf(x, S, order, none) ==
    \/ S = {} /\ x = none
    \/ x \in S /\ \A y \in S \ {x} : <<x, y>> \in order

(* x follows c in the circular list that holds S, c standing for the front of
   the list when it is not in S.  With the converse order, x precedes c.     *)
Following(x, c, S, order, step) ==
    \E from \in S :
        /\ IF c \in S THEN from = c ELSE FirstOf(from, S, order, from)
        /\ LET beyond == {y \in S \ {from} : <<from, y>> \in step}
           IN  FirstOf(x, IF beyond = {} THEN S ELSE beyond, step, from)

Converse(order) == {<<p[2], p[1]>> : p \in order}

-----------------------------------------------------------------------------
(* Helpers: each takes a desk to the desk it leaves *)

(* Output::updateAdaptiveSync for the outputs O. *)
UpdateSync(d, O) ==
    [d EXCEPT !.out = [o \in Output |->
        IF o \in O
        THEN [d.out[o] EXCEPT !.sync =
                 \E v \in View : Showing(d, o) = {v} /\ d.seat.focused_view = v]
        ELSE d.out[o]]]

(* layout::arrange for the outputs O: enable or disable the node of every
   mapped view there and give every tiled one a slot, then decide adaptive
   sync.                                                                     *)
Placed(d, O) ==
    [v \in View |->
        IF Mapped(d, v) /\ d.view[v].output \in O \ {NoOutput}
        THEN [d.view[v] EXCEPT
                 !.shown = v \in Showing(d, d.view[v].output),
                 !.box = IF v \in Tiled(d, d.view[v].output)
                         THEN [kind |-> "slot", on |-> d.view[v].output]
                         ELSE @]
        ELSE d.view[v]]

Laid(d, O) ==
    [o \in Output |->
        IF o \in O THEN [d.out[o] EXCEPT !.laid = Tiled(d, o)] ELSE d.out[o]]

(* ... were the decision on adaptive sync forgotten *)
ArrangeWithoutSync(d, O) ==
    [d EXCEPT !.view = Placed(d, O), !.out = Laid(d, O)]

Arrange(d, O) ==
    UpdateSync([d EXCEPT !.view = Placed(d, O), !.out = Laid(d, O)], O)

(* View::startAnim for the views S: an animation already running is replaced,
   the node is enabled whatever it was.                                      *)
StartAnim(d, S, end) ==
    [d EXCEPT !.view = [v \in View |->
        IF v \in S
        THEN [d.view[v] EXCEPT !.anim = end, !.shown = TRUE, !.faded = FALSE]
        ELSE d.view[v]]]

(* playOpenAnimation, playFloatPopAnimation *)
PlayPlain(d, v) == IF AnimEnabled THEN StartAnim(d, {v}, "plain") ELSE d

(* View::setFocused: opacity back to its resting value, client told. *)
SetFocused(d, v, focused) ==
    [d EXCEPT !.view[v] = [@ EXCEPT !.activated = focused, !.faded = FALSE]]

(* The early returns of Server::focusView, were it to ask session_lock, or
   nothing of the lock...                                                    *)
RefusesUnlessCrashed(d, v) == d.seat.lock = "held" \/ d.seat.focused_view = v
RefusesOnlySame(d, v) == d.seat.focused_view = v

(* ... and as they are: session_locked outlives the lock client. *)
Refuses(d, v) == d.seat.lock # "none" \/ d.seat.focused_view = v

(* The surface that has the keyboard once focusView or handleUnlock has given
   it to v: a view without a surface leaves it where it is.                  *)
EnteredBy(d, v) == IF d.view[v].surface THEN v ELSE d.seat.kb

(* Server::focusView *)
FocusView(d, v) ==
    LET prev == d.seat.focused_view
        released == IF prev = NoView THEN d ELSE SetFocused(d, prev, FALSE)
        left == IF prev = NoView THEN NoOutput ELSE d.view[prev].output
        entered == d.view[v].output
    IN  IF Refuses(d, v) THEN d
        ELSE IF v = NoView
        THEN UpdateSync([released EXCEPT !.seat.focused_view = NoView,
                                         !.seat.kb = NoView,
                                         !.seat.told = NoView],
                        {left})
        ELSE UpdateSync([SetFocused(released, v, TRUE) EXCEPT
                            !.seat.focused_view = v,
                            !.seat.focused_output =
                                IF entered = NoOutput THEN @ ELSE entered,
                            !.seat.kb = EnteredBy(d, v),
                            !.seat.told = v],
                        {left, entered})

(* The list search that handleUnmap makes for the next focus... *)
UnmapHeirs(d, v) ==
    {w \in View \ {v} : /\ Mapped(d, w)
                        /\ d.view[v].output # NoOutput
                        /\ d.view[w].output = d.view[v].output
                        /\ OnShownTag(d, w)}

(* ... and the one setMinimized makes, which skips minimized views. *)
MinimizeHeirs(d, v) == {w \in UnmapHeirs(d, v) : ~d.view[w].minimized}

(* A focused view goes away, were focused_view just set to the next one... *)
PassFocusSilently(d, v, next) ==
    IF d.seat.focused_view = v THEN [d EXCEPT !.seat.focused_view = next] ELSE d

(* ... and as it is: focused_view is nulled, then focusView(next) called. *)
PassFocus(d, v, next) ==
    IF d.seat.focused_view = v
    THEN FocusView([d EXCEPT !.seat.focused_view = NoView], next)
    ELSE d

(* A view that is dragged goes away: input::resetCursorMode. *)
ReleaseGrab(d, v) ==
    IF d.seat.grabbed = v THEN [d EXCEPT !.seat.grabbed = NoView] ELSE d

(* View::setTags, without the check for 0, without the arrange()... *)
SetTagsEvenNone(d, v, tags) ==
    Arrange([d EXCEPT !.view[v].tags = tags], {d.view[v].output})

SetTagsUnarranged(d, v, tags) ==
    LET d1 == [d EXCEPT !.view[v].tags = IF tags = {} THEN @ ELSE tags]
    IN  [d1 EXCEPT !.view[v].shown = OnShownTag(d1, v)]

(* ... and as it is; a mask of 0 keeps the tags the view has. *)
SetTags(d, v, tags) ==
    LET d1 == [d EXCEPT !.view[v].tags = IF tags = {} THEN @ ELSE tags]
        d2 == [d1 EXCEPT !.view[v].shown = OnShownTag(d1, v)]
    IN  Arrange(d2, {d.view[v].output})

(* View::setFloating *)
SetFloating(d, v, floating) ==
    LET o == d.view[v].output
        d1 == [d EXCEPT !.view[v].floating = floating]
        d2 == [d1 EXCEPT !.view[v].box = [kind |-> "float", on |-> o]]
    IN  IF d.view[v].fullscreen \/ d.view[v].floating = floating THEN d
        ELSE IF ~floating THEN Arrange(d1, {o})
        ELSE IF o = NoOutput THEN d1
        ELSE Arrange(PlayPlain(d2, v), {o})

(* What setFullscreen does to the geometry, on an output. The other views are
   arranged again only when a tiled one comes back.                          *)
FullscreenBox(d, v, kind) ==
    [d EXCEPT !.view[v].box = [kind |-> kind, on |-> d.view[v].output]]

(* Leaving fullscreen, were every view put back where it floats... *)
LeaveToFloatingBox(d, v) == FullscreenBox(d, v, "float")

(* ... and as it is. *)
LeaveFullscreen(d, v) ==
    IF d.view[v].floating THEN FullscreenBox(d, v, "float")
                          ELSE Arrange(d, {d.view[v].output})

(* View::setFullscreen *)
SetFullscreen(d, v, fullscreen) ==
    LET d1 == [d EXCEPT !.view[v].fullscreen = fullscreen]
        d2 == IF fullscreen THEN FullscreenBox(d1, v, "full")
                            ELSE LeaveFullscreen(d1, v)
    IN  IF d.view[v].fullscreen = fullscreen THEN d
        ELSE IF d.view[v].output = NoOutput THEN d1
        ELSE UpdateSync(d2, {d.view[v].output})

(* View::setMinimized, next being the focus it falls back to *)
SetMinimized(d, v, minimized, next) ==
    LET d1 == [d EXCEPT !.view[v] =
                  [@ EXCEPT !.minimized = minimized,
                            !.shown = ~minimized /\ OnShownTag(d, v)]]
        d2 == IF minimized THEN PassFocus(ReleaseGrab(d1, v), v, next)
                           ELSE FocusView(d1, v)
    IN  IF d.view[v].minimized = minimized
        THEN d
        ELSE Arrange(d2, {d.view[v].output})

(* Output::setTagset, without the arrange()... *)
SetTagsetUnarranged(d, o, tagset) ==
    IF tagset = {} THEN d ELSE [d EXCEPT !.out[o].tagset = tagset]

(* ... and as it is: with animations, what leaves slides out and is disabled
   when it is done, what enters slides in.                                   *)
SetTagset(d, o, tagset) ==
    LET here == {v \in View : Mapped(d, v) /\ d.view[v].output = o}
        old == d.out[o].tagset
        On(tags) == {v \in here : d.view[v].tags \cap tags # {}}
        d1 == Arrange([d EXCEPT !.out[o].tagset = tagset], {o})
    IN  IF tagset \in {{}, old} THEN d
        ELSE IF ~AnimEnabled THEN d1
        ELSE StartAnim(StartAnim(d1, On(old) \ On(tagset), "disable"),
                       On(tagset) \ On(old), "plain")

(* View::close: without animations the request goes out at once, and whether
   the client obeys is up to the client.                                     *)
Close(d, S) ==
    IF ~AnimEnabled THEN d
    ELSE LET d1 == StartAnim(d, S, "close")
         IN  [d1 EXCEPT !.view = [v \in View |->
                [d1.view[v] EXCEPT !.closing = @ \/ v \in S]]]

-----------------------------------------------------------------------------
(* Initial state: Server::Server, before the backend announces outputs *)

Init ==
    /\ view = [v \in View |-> Absent]
    /\ out = [o \in Output |-> Disconnected]
    /\ seat = [focused_view |-> NoView, focused_output |-> NoOutput,
               kb |-> NoView, told |-> NoView, grabbed |-> NoView,
               lock |-> "none"]
    /\ older = {}

Issued(kind) == kind \in Requests

-----------------------------------------------------------------------------
(* What clients do *)

(* new_toplevel and new_surface: the view joins the back of the list.  An X11
   window comes without a wl_surface, in runs that tell the two apart.       *)
NewView(v, surface) ==
    /\ view[v].phase = "absent"
    /\ ~surface => Issued("bare")
    /\ view' = [view EXCEPT ![v] = [Absent EXCEPT !.phase = "unmapped",
                                                  !.surface = surface,
                                                  !.shown = TRUE]]
    /\ older' = older \cup {<<w, v>> : w \in {w \in View : Alive(desk, w)}}
    /\ UNCHANGED <<out, seat>>

(* handleAssociate: Xwayland gives the X11 window its wl_surface. *)
Associate(v) ==
    /\ Alive(desk, v) /\ ~view[v].surface
    /\ view' = [view EXCEPT ![v].surface = TRUE]
    /\ UNCHANGED <<out, seat, older>>

(* handleDissociate, after the unmap that goes with it: the surface is being
   destroyed, and the keyboard leaves it.                                    *)
Dissociate(v) ==
    /\ Issued("bare")
    /\ view[v].phase = "unmapped" /\ view[v].surface
    /\ view' = [view EXCEPT ![v].surface = FALSE]
    /\ seat' = [seat EXCEPT !.kb = IF @ = v THEN NoView ELSE @]
    /\ UNCHANGED <<out, older>>

(* handleMap, on the focused output or else the first one.  The client asks
   for a floating placement (a parent, a fixed or minimum size) and for
   fullscreen by the state it maps with.                                     *)
MapView(v, o, floats, fullscreen) ==
    LET d1 == [desk EXCEPT !.view[v] =
                  [view[v] EXCEPT
                      !.phase = "mapped", !.output = o, !.floating = floats,
                      !.tags = IF o = NoOutput THEN @ ELSE out[o].tagset]]
        d2 == Arrange(d1, {o})
        d3 == IF fullscreen
              THEN SetFullscreen([d2 EXCEPT !.view[v].fullscreen = FALSE], v, TRUE)
              ELSE d2
        d4 == IF floats /\ ~d3.view[v].fullscreen /\ o # NoOutput
              THEN [d3 EXCEPT !.view[v].box = [kind |-> "float", on |-> o]]
              ELSE d3
    IN  /\ view[v].phase = "unmapped" /\ view[v].surface
        /\ floats => Issued("float")
        /\ fullscreen => Issued("fullscreen")
        /\ IF seat.focused_output # NoOutput
           THEN o = seat.focused_output
           ELSE FirstOf(o, Connected(desk), older, NoOutput)
        /\ Commit(PlayPlain(FocusView(d4, v), v))
        /\ UNCHANGED older

(* handleUnmap *)
UnmapView(v, next) ==
    LET d1 == ReleaseGrab([desk EXCEPT !.view[v].phase = "unmapped"], v)
    IN  /\ view[v].phase = "mapped"
        /\ FirstOf(next, UnmapHeirs(desk, v), older, NoView)
        /\ Commit(Arrange(PassFocus(d1, v, next), {view[v].output}))
        /\ UNCHANGED older

(* handleDestroy and ~View: client::unmanage first, then every pointer to the
   view is dropped; its surface leaves the keyboard when it is destroyed.    *)
DestroyView(v) ==
    LET Drop(x) == IF x = v THEN NoView ELSE x
    IN  /\ view[v].phase = "unmapped"
        /\ view' = [view EXCEPT ![v] = Absent]
        /\ seat' = [seat EXCEPT !.told = Drop(@), !.focused_view = Drop(@),
                                !.grabbed = Drop(@), !.kb = Drop(@)]
        /\ older' = {p \in older : p[1] # v /\ p[2] # v}
        /\ UNCHANGED out

(* request_fullscreen of the client or of a taskbar, client.fullscreen and
   toggle_fullscreen from Lua                                                *)
RequestFullscreen(v, fullscreen) ==
    /\ Issued("fullscreen")
    /\ Alive(desk, v)
    /\ Commit(SetFullscreen(desk, v, fullscreen))
    /\ UNCHANGED older

(* xdg_activation, and a taskbar's request_activate: the latter restores a
   minimized view first.                                                     *)
Activate(v, restores) ==
    LET d1 == IF restores THEN SetMinimized(desk, v, FALSE, NoView) ELSE desk
    IN  /\ Issued("focus")
        /\ Mapped(desk, v)
        /\ Commit(FocusView(d1, v))
        /\ UNCHANGED older

-----------------------------------------------------------------------------
(* What the user and Lua do *)

(* request_minimize of a taskbar, client.minimized from Lua *)
RequestMinimize(v, minimized, next) ==
    /\ Issued("minimize")
    /\ Alive(desk, v)
    /\ IF minimized THEN FirstOf(next, MinimizeHeirs(desk, v), older, NoView)
                    ELSE next = NoView
    /\ Commit(SetMinimized(desk, v, minimized, next))
    /\ UNCHANGED older

(* client:focus() from Lua takes any live view; a click, a mousebind or
   focus-follows-mouse takes a mapped one that is on screen.                 *)
Focus(v) ==
    /\ Issued("focus")
    /\ Alive(desk, v)
    /\ Commit(FocusView(desk, v))
    /\ UNCHANGED older

(* uwu.focus_next and focus_prev, over what is on the focused output *)
FocusDirection(v, step) ==
    LET o == seat.focused_output
        visible == {w \in View : Mapped(desk, w) /\ view[w].output = o
                                                 /\ OnShownTag(desk, w)}
    IN  /\ Issued("focus")
        /\ o # NoOutput
        /\ Following(v, seat.focused_view, visible, older, step)
        /\ Commit(FocusView(desk, v))
        /\ UNCHANGED older

(* client.floating and toggle_floating *)
RequestFloating(v, floating) ==
    /\ Issued("float")
    /\ Alive(desk, v)
    /\ Commit(SetFloating(desk, v, floating))
    /\ UNCHANGED older

(* client:set_tag, toggle_tag, set_tags_mask and uwu.tag.move_to *)
RequestTags(v, tags) ==
    /\ Issued("tags")
    /\ Alive(desk, v)
    /\ Commit(SetTags(desk, v, tags))
    /\ UNCHANGED older

(* client:move_to_output *)
MoveToOutput(v, o) ==
    /\ Issued("move")
    /\ Alive(desk, v)
    /\ out[o].connected
    /\ Commit(SetTags([desk EXCEPT !.view[v] =
                          [@ EXCEPT !.floating = FALSE, !.output = o]],
                      v, out[o].tagset))
    /\ UNCHANGED older

(* uwu.tag.view and toggle on the focused output, focus_tag over IPC on any *)
SwitchTagset(o, tagset) ==
    /\ Issued("tagset")
    /\ out[o].connected
    /\ Commit(SetTagset(desk, o, tagset))
    /\ UNCHANGED older

(* uwu.focus_monitor: focused_output moves, focused_view does not. *)
FocusMonitor(o, step) ==
    /\ Issued("monitor")
    /\ seat.focused_output # NoOutput
    /\ Connected(desk) # {seat.focused_output}
    /\ Following(o, seat.focused_output, Connected(desk), older, step)
    /\ seat' = [seat EXCEPT !.focused_output = o]
    /\ UNCHANGED <<view, out, older>>

(* client:kill, uwu.kill, a taskbar's request_close *)
RequestClose(v) ==
    /\ Issued("close")
    /\ Alive(desk, v)
    /\ Commit(Close(desk, {v}))
    /\ UNCHANGED older

(* Server::closeOnTag *)
CloseOnTag(tags) ==
    /\ Issued("close")
    /\ Commit(Close(desk, {v \in View : Mapped(desk, v)
                                        /\ view[v].tags \cap tags # {}}))
    /\ UNCHANGED older

(* beginInteractiveMove and Resize, from a client's request or a mousebind *)
BeginGrab(v) ==
    /\ Issued("grab")
    /\ Alive(desk, v)
    /\ view[v].floating /\ ~view[v].fullscreen
    /\ seat' = [seat EXCEPT !.grabbed = v]
    /\ UNCHANGED <<view, out, older>>

(* processCursorMotion while a view is grabbed *)
Drag(v) ==
    /\ seat.grabbed = v
    /\ Alive(desk, v)
    /\ view' = [view EXCEPT ![v].box = [kind |-> "float", on |-> view[v].output]]
    /\ UNCHANGED <<out, seat, older>>

(* a button release while a view is grabbed *)
EndGrab ==
    /\ seat.grabbed # NoView
    /\ seat' = [seat EXCEPT !.grabbed = NoView]
    /\ UNCHANGED <<view, out, older>>

(* Server::reloadConfig: everything is arranged again and every view is told
   its focus again.                                                          *)
Reload ==
    LET d == Arrange(desk, Connected(desk))
    IN  /\ Issued("reload")
        /\ Commit([d EXCEPT !.view = [v \in View |->
                IF Alive(d, v)
                THEN [d.view[v] EXCEPT !.activated = seat.focused_view = v,
                                       !.faded = FALSE]
                ELSE d.view[v]]])
        /\ UNCHANGED older

(* client:move and client:resize *)
PlaceFloating(v) ==
    /\ Issued("grab")
    /\ Alive(desk, v)
    /\ view[v].floating
    /\ view' = [view EXCEPT ![v].box = [kind |-> "float", on |-> view[v].output]]
    /\ UNCHANGED <<out, seat, older>>

-----------------------------------------------------------------------------
(* Outputs *)

(* Output::Output, with or without a monitor rule that turns adaptive sync on,
   arranges every output already listed, then the new one joins the back of the
   list: it is not arranged itself, and keeps the rule's sync until it is.   *)
ConnectOutput(o, sync) ==
    LET d == Arrange(desk, Connected(desk))
    IN  /\ ~out[o].connected
        /\ sync => Issued("sync")
        /\ Commit([d EXCEPT !.out[o] = [Disconnected EXCEPT !.connected = TRUE,
                                                            !.sync = sync],
                            !.seat.focused_output =
                                IF @ = NoOutput THEN o ELSE @])
        /\ older' = older \cup {<<p, o>> : p \in Connected(desk)}

(* A mode change of an output, by handleRequestState or by a monitor rule: the
   sync of the rule (applyRule) does not outlive the arrange after it.       *)
RequestState ==
    /\ Issued("reload")
    /\ Commit(Arrange(desk, Connected(desk)))
    /\ UNCHANGED older

(* A layer surface or a bar that changes the usable box (arrangeLayers), or a
   layout command: one output is arranged.                                   *)
ArrangeOutput(o) ==
    /\ Issued("reload")
    /\ out[o].connected
    /\ Commit(Arrange(desk, {o}))
    /\ UNCHANGED older

(* A view r of an unplugged output, on the output to, were its tags kept... *)
MigrateKeepingTags(r, to) == [r EXCEPT !.output = to, !.floating = FALSE]

(* ... and as it is: tiled there, on that output's tags. *)
Migrate(r, to) ==
    IF to = NoOutput
    THEN [r EXCEPT !.output = NoOutput]
    ELSE [r EXCEPT !.output = to, !.floating = FALSE,
                   !.tags = out[to].tagset, !.shown = TRUE]

(* focused_output after o is gone, were it forgotten, and as it is *)
Unreplaced(focused, o, to) == focused
Replaced(focused, o, to) == IF focused = o THEN to ELSE focused

(* Output::handleDestroy: the views move to the first other output, one
   setTags() each; a focused view left without an output loses the focus; the
   arrangeLayers() at the end does again what each setTags() did.            *)
DestroyOutput(o, replacement) ==
    LET moved == {v \in View : Alive(desk, v) /\ view[v].output = o}
        d1 == [desk EXCEPT !.view = [v \in View |->
                IF v \in moved THEN Migrate(view[v], replacement) ELSE view[v]]]
        f == seat.focused_view
        homeless == f # NoView /\ d1.view[f].output = NoOutput
        d2 == [d1 EXCEPT !.out[o] = Disconnected,
                         !.seat.focused_output = Replaced(@, o, replacement),
                         !.seat.focused_view = IF homeless THEN NoView ELSE @]
    IN  /\ Issued("unplug")
        /\ out[o].connected
        /\ FirstOf(replacement, Connected(desk) \ {o}, older, NoOutput)
        /\ Commit(Arrange(d2, {replacement}))
        /\ older' = {p \in older : p[1] # o /\ p[2] # o}

(* The last frame of a view's animation, were the node left enabled, and were
   it left enabled only by animations that end in nothing...                 *)
FinishAnimShown(v) ==
    /\ view[v].anim # "none"
    /\ Connected(desk) # {}
    /\ view' = [view EXCEPT ![v].anim = "none"]
    /\ UNCHANGED <<out, seat, older>>

FinishAnimHidden(v) ==
    /\ view[v].anim # "none"
    /\ Connected(desk) # {}
    /\ view' = [view EXCEPT ![v] =
         [view[v] EXCEPT !.anim = "none", !.shown = @ /\ view[v].anim = "plain"]]
    /\ UNCHANGED <<out, seat, older>>

(* ... and as it is. Output::handleFrame of any output ticks the animations of
   all of them.                                                              *)
FinishAnim(v) ==
    /\ view[v].anim # "none"
    /\ Connected(desk) # {}
    /\ view' = [view EXCEPT ![v] =
         [view[v] EXCEPT !.anim = "none",
                         !.shown = @ /\ view[v].anim # "disable",
                         !.faded = view[v].anim = "close",
                         !.closing = @ /\ view[v].anim # "close"]]
    /\ UNCHANGED <<out, seat, older>>

-----------------------------------------------------------------------------
(* Session lock *)

(* new_session_lock, refused while a lock client is there *)
Lock ==
    /\ Issued("lock")
    /\ seat.lock # "held"
    /\ seat' = [seat EXCEPT !.lock = "held", !.kb = NoView]
    /\ UNCHANGED <<view, out, older>>

(* SessionLockSurface::handleMap *)
MapLockSurface ==
    /\ seat.lock = "held"
    /\ seat.kb = NoView
    /\ seat' = [seat EXCEPT !.kb = LockSurface]
    /\ UNCHANGED <<view, out, older>>

(* The lock surface that has the keyboard is destroyed. *)
DestroyLockSurface ==
    /\ seat.kb = LockSurface
    /\ seat' = [seat EXCEPT !.kb = NoView]
    /\ UNCHANGED <<view, out, older>>

(* SessionLock::handleUnlock: back to the focused view, if it has a surface. *)
Unlock ==
    LET f == seat.focused_view
        d == [desk EXCEPT !.seat.lock = "none"]
    IN  /\ seat.lock = "held"
        /\ Commit(IF f = NoView THEN d
                  ELSE [SetFocused(d, f, TRUE) EXCEPT !.seat.kb = EnteredBy(d, f)])
        /\ UNCHANGED older

(* SessionLock::handleDestroy without an unlock, the client's surfaces gone
   with it: the session stays locked.                                        *)
CrashLock ==
    /\ seat.lock = "held"
    /\ seat' = [seat EXCEPT !.lock = "crashed",
                            !.kb = IF @ = LockSurface THEN NoView ELSE @]
    /\ UNCHANGED <<view, out, older>>

-----------------------------------------------------------------------------

ClientStep ==
    \E v \in View :
        \/ \E surface \in BOOLEAN : NewView(v, surface)
        \/ Associate(v) \/ Dissociate(v)
        \/ \E o \in MaybeOutput, floats, fullscreen \in BOOLEAN :
               MapView(v, o, floats, fullscreen)
        \/ \E next \in MaybeView : UnmapView(v, next)
        \/ DestroyView(v)
        \/ \E b \in BOOLEAN : RequestFullscreen(v, b) \/ Activate(v, b)

UserStep ==
    \/ \E v \in View :
           \/ \E b \in BOOLEAN, next \in MaybeView : RequestMinimize(v, b, next)
           \/ Focus(v) \/ RequestClose(v)
           \/ BeginGrab(v) \/ Drag(v) \/ PlaceFloating(v)
           \/ \E step \in {older, Converse(older)} : FocusDirection(v, step)
           \/ \E b \in BOOLEAN : RequestFloating(v, b)
           \/ \E tags \in SUBSET Tag : RequestTags(v, tags)
           \/ \E o \in Output : MoveToOutput(v, o)
    \/ \E o \in Output :
           \/ \E tags \in SUBSET Tag : SwitchTagset(o, tags)
           \/ \E step \in {older, Converse(older)} : FocusMonitor(o, step)
    \/ \E tags \in Tagset : CloseOnTag(tags)
    \/ EndGrab
    \/ Reload

OutputStep ==
    \/ \E o \in Output :
           \/ \E sync \in BOOLEAN : ConnectOutput(o, sync)
           \/ ArrangeOutput(o)
           \/ \E replacement \in MaybeOutput : DestroyOutput(o, replacement)
    \/ RequestState
    \/ \E v \in View : FinishAnim(v)

LockStep == Lock \/ MapLockSurface \/ DestroyLockSurface \/ Unlock \/ CrashLock

Next == ClientStep \/ UserStep \/ OutputStep \/ LockStep

Spec == Init /\ [][Next]_vars

(* A step that starts an animation of v, in place of any that runs. *)
Restarts(v) ==
    \/ \E o \in MaybeOutput, floats, fullscreen \in BOOLEAN :
           MapView(v, o, floats, fullscreen)
    \/ \E o \in Output, tags \in SUBSET Tag :
           /\ SwitchTagset(o, tags)
           /\ Mapped(desk, v) /\ view[v].output = o
           /\ OnShownTag(desk, v) # (view[v].tags \cap tags # {})
    \/ RequestFloating(v, TRUE) /\ ~view[v].floating
    \/ RequestClose(v)
    \/ \E tags \in Tagset : CloseOnTag(tags) /\ view[v].tags \cap tags # {}

(* Frames keep coming while an output is connected, so a running animation
   reaches its end unless it is started over for ever.                       *)
FairSpec ==
    Spec /\ \A v \in View :
                WF_vars(FinishAnim(v)) \/ []<><<Restarts(v)>>_vars

-----------------------------------------------------------------------------
(* Properties *)

(* Every variable has the shape of the struct it stands for; a view and an
   output always have a tag, so neither can become unreachable (the 0 checks
   of setTags and setTagset).                                                *)
TypeOK ==
    /\ view \in [View -> ViewState]
    /\ out \in [Output -> OutputState]
    /\ seat \in SeatState
    /\ older \subseteq (View \X View) \cup (Output \X Output)

(* The raw pointers between views, outputs and the server never outlive what
   they point to, across unmap, destroy and unplug; and while any output is
   connected one of them is the focused one (~View, Output::handleDestroy).  *)
NoDangling ==
    /\ \A v \in {seat.focused_view, seat.grabbed, seat.kb, seat.told} \cap View :
           Alive(desk, v)
    /\ \A v \in View : view[v].output \in Connected(desk) \cup {NoOutput}
    /\ seat.focused_output \in Connected(desk) \cup {NoOutput}
    /\ seat.focused_output = NoOutput <=> Connected(desk) = {}

(* The client that was told it is active, and the last client::focus that hooks
   and the IPC socket saw, are those of focused_view (Server::focusView).    *)
FocusAnnounced ==
    LET f == seat.focused_view IN f # NoView => view[f].activated /\ seat.told = f

(* All three parties that learn of focus agree with focused_view: those two and
   the client that has the keyboard.  The keyboard is with it only where every
   window has a surface to enter (Server::focusView, SessionLock::handleUnlock).
   A window that Lua focuses before Xwayland associates it leaves the keyboard
   on the window focused before, so "bare" requests are not for this one.    *)
FocusCoherent ==
    LET f == seat.focused_view
    IN  /\ FocusAnnounced
        /\ f # NoView /\ seat.lock = "none" => seat.kb = f

(* No window gets a key while the session is locked, whatever is mapped,
   unmapped, clicked or activated meanwhile, and after a lock client crash.  *)
LockKeepsKeyboard == seat.lock # "none" => seat.kb \notin View

(* Focus does not move to another window behind the lock (focusView refuses). *)
LockKeepsFocus ==
    [][seat.lock # "none" /\ seat'.lock # "none"
        => seat'.focused_view \in {seat.focused_view, NoView}]_vars

(* With animations off, what the scene shows of an output's windows is exactly
   what its tagset selects, minimized ones left out: every path that changes
   tags, tagset, output or is_minimized keeps the node in step.              *)
ShownIffVisible ==
    \A v \in View : Mapped(desk, v) /\ view[v].output # NoOutput
        => (view[v].shown <=> v \in Showing(desk, view[v].output))

(* Adaptive sync is on for an output exactly when its one visible window is
   focused: no handler leaves a stale decision behind (updateAdaptiveSync).
   A monitor rule's own adaptive_sync does, on an output just connected, so
   "sync" requests are not for this one.                                     *)
SyncFresh ==
    \A o \in Connected(desk) :
        out[o].sync <=>
            \E v \in View : Showing(desk, o) = {v} /\ seat.focused_view = v

(* The layout on screen was computed for the windows now tiled: none lacks a
   slot, and no slot is kept for one that left, except under a fullscreen
   window (every setter that changes the tiled set calls arrange()).         *)
LayoutFresh ==
    \A o \in Connected(desk) :
        /\ Tiled(desk, o) \subseteq out[o].laid
        /\ \A v \in out[o].laid \ Tiled(desk, o) :
               v \in Showing(desk, o) /\ view[v].fullscreen

(* A tiled window that is visible sits in a slot of its own output. *)
TiledInSlot ==
    \A o \in Connected(desk) : \A v \in Tiled(desk, o) :
        view[v].box = [kind |-> "slot", on |-> o]

(* Unplugging an output never loses a window: while another output is there,
   each one that was mapped on it is on a connected output, and unless it is
   minimized it is visible there, whatever tag it was hidden on.             *)
UnplugKeepsWindows ==
    [][\A o \in Connected(desk) \ Connected(desk)' :
         \A v \in View :
            Mapped(desk, v) /\ view[v].output = o /\ Connected(desk)' # {}
            => LET d == [view |-> view', out |-> out', seat |-> seat']
                   there == view'[v].output
               IN  /\ there \in Connected(d)
                   /\ view[v].minimized \/ v \in Showing(d, there)
                   /\ v \in Tiled(d, there) => v \in out'[there].laid]_vars

(* However often the tagset is switched, every window's node comes to agree
   with it again and again.                                                  *)
ScreenConverges ==
    \A v \in View :
        []<>(Mapped(desk, v) /\ view[v].output # NoOutput
             => (view[v].shown <=> v \in Showing(desk, view[v].output)))

(* A window that is on screen and past its animations has its node enabled,
   also when it was asked to close and its client did not obey.              *)
VisibleStaysEnabled ==
    \A v \in View :
        Mapped(desk, v) /\ view[v].output # NoOutput /\ view[v].anim = "none"
        => (v \in Showing(desk, view[v].output) => view[v].shown)
=============================================================================
