----------------------------- MODULE Configure -----------------------------
(***************************************************************************)
(* The size negotiation between the compositor and one window: what        *)
(* XdgToplevel (toplevel.cpp) and XWaylandView (xwayland_view.cpp) ask of  *)
(* their client, what the client commits and when, and what each handler   *)
(* then does about it.  An xdg client acknowledges the configure events it *)
(* gets, in order, and may skip some; an X11 client acknowledges nothing,  *)
(* and only the size of what it draws tells.  Sizes are widths: heights go *)
(* through the same code.  Where the layout wants the window is the        *)
(* business of the other windows, here any width of Slot.                  *)
(***************************************************************************)
EXTENDS Integers, Sequences, FiniteSetsExt

CONSTANTS
    Kind,            \* kinds of window there are: "xdg", "x11"
    Slot,            \* widths a tile may have
    OutputWidth, Border,
    MinWidth,        \* minimum widths a client may declare, 0 for none
    Natural,         \* the width a client draws when it may choose
    Step,            \* a client draws multiples of Step: 1 for any width
    MaxRequests      \* bound: requests, relayouts, changes of the client

ASSUME ConfigureAssumption ==
    /\ Kind \subseteq {"xdg", "x11"}
    /\ Slot \cup MinWidth \cup {Border, MaxRequests} \subseteq Nat
    /\ 0 \in MinWidth
    /\ {OutputWidth, Natural, Step} \subseteq Nat \ {0}

VARIABLES win, requests
vars == <<win, requests>>

Greater(a, b) == Max({a, b})

Window ==
    [kind : Kind, parent : BOOLEAN, unmanaged : BOOLEAN,
     ready : BOOLEAN,            \* initialized (xdg), associated (x11)
     mapped : BOOLEAN,
     output : BOOLEAN,           \* output is not null
     floating : BOOLEAN, fullscreen : BOOLEAN,
     wants_fullscreen : BOOLEAN, \* of requested, or of xsurface
     min : MinWidth, geo : Nat, floating_geo : Nat,
     clip : Nat,                 \* 0: none is set
     recorded : Nat,             \* content_clip_w
     size : Nat,                 \* scheduled, or xsurface->width
     scheduled : BOOLEAN, pending_configure : BOOLEAN,
     asked : Seq(Nat),           \* configure events on their way
     drawn : Nat]                \* what the client committed last

(* The window keeps its shape; each kind has the bookkeeping of its kind only, *)
(* and a mapped window has drawn something.                                    *)
TypeOK ==
    /\ win \in Window
    /\ requests \in 0..MaxRequests
    /\ win.kind = "xdg" => ~ win.unmanaged /\ ~ win.pending_configure
    /\ win.kind = "x11" => ~ win.scheduled
    /\ win.mapped => win.ready /\ win.drawn > 0

Init ==
    /\ win \in
        [kind : Kind, parent : BOOLEAN, unmanaged : BOOLEAN, ready : {FALSE},
         mapped : {FALSE}, output : {FALSE}, floating : {FALSE},
         fullscreen : {FALSE}, wants_fullscreen : {FALSE}, min : {0}, geo : {0},
         floating_geo : {0}, clip : {0}, recorded : {0}, size : {Natural},
         scheduled : {FALSE}, pending_configure : {FALSE}, asked : {<<>>},
         drawn : {0}]
    /\ win.kind = "xdg" => ~ win.unmanaged
    /\ requests = 0

-----------------------------------------------------------------------------
(* What the handlers call, on the window w.                                  *)
Content(w, box) == box - 2 * (IF w.fullscreen THEN 0 ELSE Border)

(* wlr_xdg_toplevel_set_size and _set_fullscreen: one configure event in the *)
(* idle phase of the loop.                                                   *)
Schedule(w, size) == [w EXCEPT !.size = size, !.scheduled = TRUE]

ConfigureXdg(w, box) == Schedule(w, Max({1, Content(w, box), w.min}))

(* wlr_xwayland_surface_configure                                            *)
Notify(w, width) == [w EXCEPT !.size = width, !.asked = Append(@, width)]

ConfigureX11(w, box) ==
    [Notify(w, Greater(1, Content(w, box))) EXCEPT !.pending_configure = TRUE]

ConfigureBackend(w, box) ==
    IF w.kind = "xdg" THEN ConfigureXdg(w, box) ELSE ConfigureX11(w, box)

ClipX11(w, box) ==
    IF w.mapped /\ ~ w.unmanaged THEN Max({0, Content(w, box), w.drawn})
    ELSE Greater(0, Content(w, box))

ClipXdg(w, box) == Max({0, Content(w, box), w.min})

(* An X11 window has no content tree before it is associated.                *)
ApplyBox(w, box) ==
    CASE w.kind = "xdg" -> [w EXCEPT !.clip = ClipXdg(w, box)]
      [] w.kind = "x11" /\ w.ready -> [w EXCEPT !.clip = ClipX11(w, box)]
      [] OTHER -> w

SetGeometry(w, box) ==
    ApplyBox(ConfigureBackend([w EXCEPT !.geo = box], box), box)

(* layout::arrange, where the tile of the window is slot.                    *)
Tiled(w) ==
    w.mapped /\ w.output /\ ~ w.unmanaged /\ ~ w.floating /\ ~ w.fullscreen
Arrange(w, slot) == IF Tiled(w) THEN SetGeometry(w, slot) ELSE w

CenteredFloatBox(content) ==
    (IF content > 0 THEN content ELSE Natural) + 2 * Border
FloatAt(w, box) == SetGeometry([w EXCEPT !.floating_geo = box], box)

SetFullscreenBackend(w, on) ==
    IF w.kind = "xdg" THEN Schedule(w, w.size)
    ELSE [w EXCEPT !.wants_fullscreen = on]

(* View::setFullscreen once there is an output.                              *)
PlaceFullscreen(w, on, slot) ==
    LET t == SetFullscreenBackend([w EXCEPT !.fullscreen = on], on)
    IN IF on THEN SetGeometry([t EXCEPT !.floating_geo = t.geo], OutputWidth)
       ELSE IF t.floating THEN SetGeometry(t, t.floating_geo)
       ELSE Arrange(t, slot)

SetFullscreen(w, on, slot) ==
    IF w.fullscreen = on THEN w
    ELSE IF ~ w.output THEN [w EXCEPT !.fullscreen = on]
    ELSE PlaceFullscreen(w, on, slot)

(* View::setFloating: to three fifths of the content it had.                 *)
SetFloating(w, on, slot) ==
    LET t == [w EXCEPT !.floating = on]
        content == Greater(0, w.geo - 2 * Border)
    IN IF w.fullscreen \/ w.floating = on THEN w
       ELSE IF ~ on THEN Arrange(t, slot)
       ELSE IF ~ w.output THEN t
       ELSE FloatAt(t, CenteredFloatBox(Greater(1, (3 * content) \div 5)))

-----------------------------------------------------------------------------
(* What a tiled client is to draw.                                           *)
Expected(w) ==
    IF w.kind = "xdg" THEN Max({1, w.geo - 2 * Border, w.min})
    ELSE Greater(1, w.geo - 2 * Border)

InFlight(w) == w.scheduled \/ w.asked # <<>>

(* A commit of other geometry than the one recorded places the window again. *)
Recorded(w) ==
    IF w.drawn = w.recorded THEN w
    ELSE ApplyBox([w EXCEPT !.recorded = w.drawn], w.geo)

(* handleCommit, as it was when it took the client's shadow off a geometry   *)
(* that does not include it.                                                 *)
HandleCommitPadded(w) ==
    LET t == Recorded(w)
    IN IF w.mapped /\ ~ w.floating /\ w.drawn - 1 # Expected(w) /\ ~ InFlight(w)
       THEN ConfigureXdg(t, w.geo) ELSE t

(* XdgToplevel::handleCommit after the first: where the client draws another *)
(* width than its tile's it is asked again, unless a configure event is on   *)
(* its way, fullscreen or not.                                               *)
HandleCommit(w) ==
    LET t == Recorded(w)
    IN IF w.mapped /\ ~ w.floating /\ w.drawn # Expected(w) /\ ~ InFlight(w)
       THEN ConfigureXdg(t, w.geo) ELSE t

TooNarrow(w) == w.min > 0 /\ w.geo - 2 * Border < w.min

FloatForMin(w) ==
    [FloatAt([w EXCEPT !.floating = TRUE], CenteredFloatBox(w.min))
        EXCEPT !.pending_configure = FALSE]

(* XWaylandView::handleSurfaceCommit: a tile below the client's minimum      *)
(* makes it float, fullscreen or not; else it is asked once, until it draws  *)
(* the width.                                                                *)
HandleSurfaceCommit(w) ==
    LET t == ApplyBox(w, w.geo)
    IN IF ~ w.mapped \/ w.unmanaged THEN w
       ELSE IF w.floating THEN t
       ELSE IF TooNarrow(w) THEN FloatForMin(t)
       ELSE IF w.drawn = Expected(w) THEN [t EXCEPT !.pending_configure = FALSE]
       ELSE IF w.pending_configure THEN t ELSE ConfigureX11(t, w.geo)

(* Both handleMaps: a window floats when it has a parent, pins its size or   *)
(* is of a dialog's type (dialog).                                           *)
Placed(w, output, dialog, slot) ==
    Arrange([w EXCEPT !.mapped = TRUE, !.output = output,
                      !.floating = w.parent \/ dialog], slot)

(* What the client asked for before it was mapped is done now.               *)
ApplyIntent(w, slot) ==
    IF w.wants_fullscreen
    THEN SetFullscreen([w EXCEPT !.fullscreen = FALSE], TRUE, slot)
    ELSE w

FloatIfWindow(w, content) ==
    IF w.floating /\ ~ w.fullscreen /\ w.output THEN FloatAt(w, CenteredFloatBox(content))
    ELSE w

HandleMapXdg(w, output, dialog, slot) ==
    FloatIfWindow(ApplyIntent(Placed(w, output, dialog, slot), slot), w.drawn)

(* XWaylandView::handleMap: also floats where its tile is below its minimum, *)
(* or the whole output is.                                                   *)
HandleMapX11(w, output, dialog, slot) ==
    LET t == ApplyIntent(Placed(w, output, dialog, slot), slot)
        narrow == ~ t.floating /\ t.output /\ TooNarrow(t)
    IN IF w.unmanaged THEN [w EXCEPT !.mapped = TRUE, !.geo = w.size]
       ELSE FloatIfWindow([t EXCEPT !.floating = @ \/ narrow],
                          IF narrow THEN t.min ELSE t.size)
-----------------------------------------------------------------------------
(* The client. It draws the width it is asked for, but not below its minimum *)
(* (the X server takes no notice of that), in steps.                         *)
InSteps(width) == Greater(1, width - (width % Step))

Drawn(w, width) ==
    IF w.kind = "x11" THEN InSteps(width)
    ELSE InSteps(Greater(IF width = 0 THEN Natural ELSE width, w.min))

(* A commit with something drawn maps the window, and then is handled.       *)
Commit(w, output, dialog, slot) ==
    IF w.kind = "xdg"
    THEN HandleCommit(IF w.mapped THEN w ELSE HandleMapXdg(w, output, dialog, slot))
    ELSE HandleSurfaceCommit(IF w.mapped THEN w ELSE HandleMapX11(w, output, dialog, slot))

Committed(w) ==
    \E output, dialog \in BOOLEAN, slot \in Slot :
        win' = Commit(w, output, dialog, slot)

CountRequest == requests < MaxRequests /\ requests' = requests + 1

(* The first commit of an xdg surface, without a buffer: it is told the tile *)
(* it would get, unless it is a dialog or there is no output.                *)
InitialCommit ==
    /\ win.kind = "xdg" /\ ~ win.ready
    /\ LET t == [win EXCEPT !.ready = TRUE]
       IN \/ /\ ~ win.parent
             /\ \E preview \in Slot :
                   win' = Schedule(t, Greater(0, preview - 2 * Border))
          \/ win' = Recorded(Schedule(t, 0))
    /\ UNCHANGED requests

(* The idle phase of the event loop sends what is scheduled.                 *)
SendConfigure ==
    /\ win.scheduled
    /\ win' = [win EXCEPT !.scheduled = FALSE, !.asked = Append(@, win.size)]
    /\ UNCHANGED requests

(* The client draws what the n-th configure event says; the ones before are  *)
(* passed over.                                                              *)
Draw(n) ==
    /\ win.ready /\ n \in DOMAIN win.asked
    /\ Committed([win EXCEPT !.asked = SubSeq(@, n + 1, Len(@)),
                             !.drawn = Drawn(win, win.asked[n])])
    /\ UNCHANGED requests

(* A commit that answers nothing: another frame of the same width, the first *)
(* one of an X11 window among them.                                          *)
Frame ==
    /\ win.ready /\ (win.kind = "x11" \/ win.mapped)
    /\ Committed([win EXCEPT !.drawn = IF @ = 0 THEN Drawn(win, win.size) ELSE @])
    /\ UNCHANGED requests

(* SetMin, were the minimum of an xdg window noted and no more.              *)
SetMinUnhandled(m) ==
    /\ m # win.min /\ CountRequest
    /\ win.kind = "xdg" => win.mapped
    /\ win' = [win EXCEPT !.min = m]

(* The client declares a minimum: of an xdg window it counts from the commit *)
(* that brings it on.                                                        *)
SetMin(m) ==
    /\ m # win.min /\ CountRequest
    /\ IF win.kind = "xdg"
       THEN /\ win.mapped
            /\ win' = HandleCommit([win EXCEPT !.min = m])
       ELSE win' = [win EXCEPT !.min = m]

RequestFullscreen(on) ==
    /\ ~ win.unmanaged /\ CountRequest
    /\ \E slot \in Slot :
          win' = SetFullscreen([win EXCEPT !.wants_fullscreen = on], on, slot)

(* Answered with an event that changes nothing; dropped before the initial   *)
(* commit.                                                                   *)
RequestMaximize ==
    /\ win.kind = "xdg" /\ CountRequest
    /\ win' = IF win.ready THEN Schedule(win, win.size) ELSE win

(* An X11 client that places itself may, unless it is tiled.                 *)
RequestConfigure(width) ==
    /\ win.kind = "x11" /\ CountRequest
    /\ win' =
          IF win.mapped /\ ~ win.unmanaged /\ ~ win.floating
          THEN ConfigureX11(win, win.geo)
          ELSE IF win.mapped /\ ~ win.unmanaged
          THEN ApplyBox([Notify(win, width) EXCEPT !.geo = width + 2 * Border],
                        width + 2 * Border)
          ELSE Notify(win, width)

(* An X11 surface gets its wl_surface, and loses it after it was unmapped.   *)
Associate ==
    /\ win.kind = "x11" /\ ~ win.ready
    /\ win' = [win EXCEPT !.ready = TRUE]
    /\ UNCHANGED requests

Dissociate ==
    /\ win.kind = "x11" /\ win.ready /\ ~ win.mapped
    /\ CountRequest
    /\ win' = [win EXCEPT !.ready = FALSE, !.drawn = 0, !.clip = 0]

(* Unmap, were the window's mapped left to the next handleMap.               *)
UnmapLater ==
    /\ win.mapped /\ CountRequest
    /\ win' = IF win.kind = "xdg"
              THEN [win EXCEPT !.ready = FALSE, !.scheduled = FALSE,
                               !.asked = <<>>, !.drawn = 0, !.wants_fullscreen = FALSE]
              ELSE [win EXCEPT !.mapped = FALSE]

(* An unmapped xdg surface is as it was before its initial commit, with no   *)
(* configure event to come; the View remembers.                              *)
Unmap ==
    /\ win.mapped /\ CountRequest
    /\ win' = IF win.kind = "xdg"
              THEN [win EXCEPT !.mapped = FALSE, !.ready = FALSE, !.scheduled = FALSE,
                               !.asked = <<>>, !.drawn = 0, !.wants_fullscreen = FALSE]
              ELSE [win EXCEPT !.mapped = FALSE]

(* The rest of the desktop: the layout, keys and scripts.                    *)
Relayout ==
    /\ Tiled(win) /\ CountRequest
    /\ \E slot \in Slot : win' = Arrange(win, slot)

ToggleFloating ==
    /\ win.mapped /\ ~ win.unmanaged /\ CountRequest
    /\ \E slot \in Slot : win' = SetFloating(win, ~ win.floating, slot)

ToggleFullscreen ==
    /\ win.mapped /\ ~ win.unmanaged /\ CountRequest
    /\ \E slot \in Slot : win' = SetFullscreen(win, ~ win.fullscreen, slot)

Next ==
    \/ InitialCommit \/ SendConfigure \/ Associate \/ Dissociate
    \/ \E n \in DOMAIN win.asked : Draw(n)
    \/ Frame
    \/ \E m \in MinWidth : SetMin(m)
    \/ \E on \in BOOLEAN : RequestFullscreen(on)
    \/ RequestMaximize
    \/ \E width \in Slot : RequestConfigure(width)
    \/ Unmap \/ Relayout \/ ToggleFloating \/ ToggleFullscreen

(* A client that is asked draws in the end what the last configure event     *)
(* says: weak fairness of that action, which can happen whenever something   *)
(* is asked and always takes it away.                                        *)
Answers == <>[](win.asked # <<>>) => []<><<Draw(Len(win.asked))>>_vars

(* The loop comes to its idle phase, and the client answers.                 *)
Spec == Init /\ [][Next]_vars /\ WF_vars(SendConfigure) /\ Answers

-----------------------------------------------------------------------------
(* The negotiation ends: a tiled client comes to draw what its last tile and *)
(* its minimum say, at the first asking or a later one, however many answers *)
(* to earlier requests were on their way; then it is asked no more, and the  *)
(* clip of an X11 window shows what it draws, no less and no more.           *)
Settled ==
    win.mapped /\ Tiled(win) =>
        /\ win.drawn = Expected(win)
        /\ win.kind = "x11" => win.clip = win.drawn
        /\ ~ InFlight(win) /\ ~ win.pending_configure

Settles == <>[]Settled

(* Nobody waits for nobody: as long as a tiled client draws another width than *)
(* its tile's, a configure event is scheduled or on its way to it.  Neither    *)
(* handler asks again where it believes that the client was asked already      *)
(* (handleCommit, handleSurfaceCommit), so a wrong belief would be for good.   *)
AskedWhileWrong ==
    Tiled(win) /\ win.drawn # Expected(win) => InFlight(win)
=============================================================================
