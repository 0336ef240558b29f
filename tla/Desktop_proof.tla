--------------------------- MODULE Desktop_proof ---------------------------
(* Types and focus, for any number of views, outputs and tags.  Every helper of
   Desktop takes a desk to a desk, and every action commits one; focus stays
   coherent, no pointer dangles and the lock holds the keyboard, because the
   helpers fall into two kinds: those that leave focus alone (Kept), and
   FocusView with its callers, which move it as one.                         *)
EXTENDS Desktop, TLAPS

-----------------------------------------------------------------------------
(* Types *)

(* updateAdaptiveSync() changes no shape. *)
LEMMA UpdateSyncType ==
    ASSUME NEW d \in Desk, NEW O
    PROVE  UpdateSync(d, O) \in Desk
  BY ZenonT(30) DEF UpdateSync, Desk, OutputState

(* What arrange() writes to a view keeps the view's shape. *)
LEMMA PlaceType ==
    ASSUME NEW r \in ViewState, NEW shown \in BOOLEAN, NEW box \in Box
    PROVE  [r EXCEPT !.shown = shown, !.box = box] \in ViewState
  BY DEF ViewState

(* arrange()'s placement of every view is a table of views... *)
LEMMA PlacedType ==
    ASSUME NEW d \in Desk, NEW O
    PROVE  Placed(d, O) \in [View -> ViewState]
<1> SUFFICES ASSUME NEW v \in View PROVE Placed(d, O)[v] \in ViewState
  BY DEF Placed
<1>1. d.view[v] \in ViewState
  BY DEF Desk
<1>2. [kind |-> "slot", on |-> d.view[v].output] \in Box
  BY <1>1 DEF ViewState, Box
<1> DEFINE box == IF v \in Tiled(d, d.view[v].output)
                  THEN [kind |-> "slot", on |-> d.view[v].output]
                  ELSE d.view[v].box
           shown == v \in Showing(d, d.view[v].output)
<1>3. box \in Box /\ shown \in BOOLEAN
  BY <1>1, <1>2 DEF ViewState
<1>4. [d.view[v] EXCEPT !.shown = shown, !.box = box] \in ViewState
  <2> HIDE DEF box, shown
  <2> QED BY <1>1, <1>3, PlaceType
<1> QED BY <1>1, <1>4 DEF Placed

(* ... and its record of what it laid out one of outputs. *)
LEMMA LaidType ==
    ASSUME NEW d \in Desk, NEW O
    PROVE  Laid(d, O) \in [Output -> OutputState]
<1>1. \A o \in Output : Tiled(d, o) \in SUBSET View
  BY DEF Tiled, Showing
<1> QED BY <1>1 DEF Laid, Desk, OutputState

(* arrange() changes no shape. *)
LEMMA ArrangeType ==
    ASSUME NEW d \in Desk, NEW O
    PROVE  Arrange(d, O) \in Desk
<1>1. [d EXCEPT !.view = Placed(d, O), !.out = Laid(d, O)] \in Desk
  BY PlacedType, LaidType DEF Desk
<1> QED BY <1>1, UpdateSyncType DEF Arrange

(* Writing one view's record, the way every setter does. *)
LEMMA PutType ==
    ASSUME NEW d \in Desk, NEW v \in View, NEW r \in ViewState
    PROVE  [d EXCEPT !.view[v] = r] \in Desk
  BY DEF Desk

(* Starting animations changes no shape. *)
LEMMA StartAnimType ==
    ASSUME NEW d \in Desk, NEW S, NEW end \in {"none", "plain", "disable", "close"}
    PROVE  StartAnim(d, S, end) \in Desk
<1>1. \A r \in ViewState :
          [r EXCEPT !.anim = end, !.shown = TRUE, !.faded = FALSE] \in ViewState
  BY DEF ViewState
<1>2. [v \in View |-> IF v \in S
         THEN [d.view[v] EXCEPT !.anim = end, !.shown = TRUE, !.faded = FALSE]
         ELSE d.view[v]] \in [View -> ViewState]
  BY <1>1 DEF Desk
<1> QED BY <1>2 DEF StartAnim, Desk

(* Nor do the open and the float-pop animation. *)
LEMMA PlayPlainType ==
    ASSUME NEW d \in Desk, NEW v
    PROVE  PlayPlain(d, v) \in Desk
  BY StartAnimType DEF PlayPlain

(* setFocused() changes no shape. *)
LEMMA SetFocusedType ==
    ASSUME NEW d \in Desk, NEW v \in View, NEW b \in BOOLEAN
    PROVE  SetFocused(d, v, b) \in Desk
<1>1. d.view[v] \in ViewState
  BY DEF Desk
<1>2. [d.view[v] EXCEPT !.activated = b, !.faded = FALSE] \in ViewState
  BY <1>1 DEF ViewState
<1> QED BY <1>2, PutType DEF SetFocused

(* focusView() changes no shape, whichever of its branches it takes. *)
LEMMA FocusViewType ==
    ASSUME NEW d \in Desk, NEW v \in MaybeView
    PROVE  FocusView(d, v) \in Desk
<1> DEFINE prev == d.seat.focused_view
           released == IF prev = NoView THEN d ELSE SetFocused(d, prev, FALSE)
<1>1. prev \in MaybeView
  BY DEF Desk, SeatState
<1>2. released \in Desk
  BY <1>1, SetFocusedType DEF MaybeView
<1>3. CASE v = NoView
  <2>1. [released EXCEPT !.seat.focused_view = NoView, !.seat.kb = NoView,
                         !.seat.told = NoView] \in Desk
    BY <1>2 DEF Desk, SeatState, MaybeView
  <2> QED BY <1>3, <2>1, UpdateSyncType DEF FocusView
<1>4. CASE v # NoView
  <2> DEFINE entered == d.view[v].output
             focus == SetFocused(released, v, TRUE)
  <2>1. focus \in Desk /\ entered \in MaybeOutput
    BY <1>2, <1>4, SetFocusedType DEF MaybeView, Desk, ViewState
  <2>2. [focus EXCEPT !.seat.focused_view = v,
                      !.seat.focused_output =
                          IF entered = NoOutput THEN @ ELSE entered,
                      !.seat.kb = EnteredBy(d, v), !.seat.told = v] \in Desk
    <3>1. EnteredBy(d, v) \in MaybeView \cup {LockSurface}
      BY DEF EnteredBy, Desk, SeatState, MaybeView
    <3> HIDE DEF focus, entered
    <3> QED BY <2>1, <3>1 DEF Desk, SeatState, MaybeView
  <2> QED BY <1>4, <2>2, UpdateSyncType, ZenonT(30) DEF FocusView
<1> QED BY <1>3, <1>4

(* Handing focus on changes no shape. *)
LEMMA PassFocusType ==
    ASSUME NEW d \in Desk, NEW v, NEW next \in MaybeView
    PROVE  PassFocus(d, v, next) \in Desk
<1>1. [d EXCEPT !.seat.focused_view = NoView] \in Desk
  BY DEF Desk, SeatState, MaybeView
<1> QED BY <1>1, FocusViewType DEF PassFocus

(* Ending a grab changes no shape. *)
LEMMA ReleaseGrabType ==
    ASSUME NEW d \in Desk, NEW v
    PROVE  ReleaseGrab(d, v) \in Desk
  BY DEF ReleaseGrab, Desk, SeatState, MaybeView

(* setTags() changes no shape: the 0 mask leaves a view the tags it has. *)
LEMMA SetTagsType ==
    ASSUME NEW d \in Desk, NEW v \in View, NEW tags \in SUBSET Tag
    PROVE  SetTags(d, v, tags) \in Desk
<1> DEFINE d1 == [d EXCEPT !.view[v].tags = IF tags = {} THEN @ ELSE tags]
           d2 == [d1 EXCEPT !.view[v].shown = OnShownTag(d1, v)]
<1>1. d1 \in Desk
  <2>1. d.view[v] \in ViewState
    BY DEF Desk
  <2>2. \A t \in Tagset : [d.view[v] EXCEPT !.tags = t] \in ViewState
    BY <2>1 DEF ViewState
  <2>3. (IF tags = {} THEN d.view[v].tags ELSE tags) \in Tagset
    BY <2>1 DEF ViewState, Tagset
  <2>4. [d.view[v] EXCEPT !.tags = IF tags = {} THEN @ ELSE tags] \in ViewState
    BY <2>2, <2>3
  <2> QED BY <2>4, PutType
<1>2. d2 \in Desk
  <2>1. d1.view[v] \in ViewState /\ OnShownTag(d1, v) \in BOOLEAN
    BY <1>1 DEF Desk, OnShownTag
  <2>2. [d1.view[v] EXCEPT !.shown = OnShownTag(d1, v)] \in ViewState
    <3> HIDE DEF d1
    <3> QED BY <2>1 DEF ViewState
  <2> QED BY <1>1, <2>2, PutType
<1> QED BY <1>2, ArrangeType DEF SetTags

(* setFloating() changes no shape. *)
LEMMA SetFloatingType ==
    ASSUME NEW d \in Desk, NEW v \in View, NEW floating \in BOOLEAN
    PROVE  SetFloating(d, v, floating) \in Desk
<1> DEFINE o == d.view[v].output
           d1 == [d EXCEPT !.view[v].floating = floating]
           d2 == [d1 EXCEPT !.view[v].box = [kind |-> "float", on |-> o]]
<1>1. d.view[v] \in ViewState
  BY DEF Desk
<1>2. d1 \in Desk
  <2>1. [d.view[v] EXCEPT !.floating = floating] \in ViewState
    BY <1>1 DEF ViewState
  <2> QED BY <2>1, PutType
<1>3. d2 \in Desk
  <2>1. d1.view[v] \in ViewState /\ [kind |-> "float", on |-> o] \in Box
    BY <1>1, <1>2 DEF Desk, ViewState, Box
  <2>2. [d1.view[v] EXCEPT !.box = [kind |-> "float", on |-> o]] \in ViewState
    <3> HIDE DEF d1, o
    <3> QED BY <2>1 DEF ViewState
  <2> QED BY <1>2, <2>2, PutType
<1> QED BY <1>2, <1>3, ArrangeType, PlayPlainType DEF SetFloating

(* What setFullscreen() does to the geometry changes no shape. *)
LEMMA FullscreenBoxType ==
    ASSUME NEW d \in Desk, NEW v \in View, NEW kind \in {"full", "float"}
    PROVE  FullscreenBox(d, v, kind) \in Desk
<1>1. d.view[v] \in ViewState
  BY DEF Desk
<1>2. [kind |-> kind, on |-> d.view[v].output] \in Box
  BY <1>1 DEF ViewState, Box
<1>3. [d.view[v] EXCEPT !.box = [kind |-> kind, on |-> d.view[v].output]]
         \in ViewState
  BY <1>1, <1>2 DEF ViewState
<1> QED BY <1>3, PutType DEF FullscreenBox

(* setFullscreen() changes no shape. *)
LEMMA SetFullscreenType ==
    ASSUME NEW d \in Desk, NEW v \in View, NEW fullscreen \in BOOLEAN
    PROVE  SetFullscreen(d, v, fullscreen) \in Desk
<1> DEFINE d1 == [d EXCEPT !.view[v].fullscreen = fullscreen]
<1>1. d1 \in Desk
  <2>1. d.view[v] \in ViewState
    BY DEF Desk
  <2>2. [d.view[v] EXCEPT !.fullscreen = fullscreen] \in ViewState
    BY <2>1 DEF ViewState
  <2> QED BY <2>2, PutType
<1>2. FullscreenBox(d1, v, "full") \in Desk /\ LeaveFullscreen(d1, v) \in Desk
  BY <1>1, FullscreenBoxType, ArrangeType DEF LeaveFullscreen
<1> QED BY <1>1, <1>2, UpdateSyncType DEF SetFullscreen

(* setMinimized() changes no shape. *)
LEMMA SetMinimizedType ==
    ASSUME NEW d \in Desk, NEW v \in View, NEW minimized \in BOOLEAN,
           NEW next \in MaybeView
    PROVE  SetMinimized(d, v, minimized, next) \in Desk
<1> DEFINE d1 == [d EXCEPT !.view[v] =
                    [@ EXCEPT !.minimized = minimized,
                              !.shown = ~minimized /\ OnShownTag(d, v)]]
           d2 == IF minimized THEN PassFocus(ReleaseGrab(d1, v), v, next)
                              ELSE FocusView(d1, v)
<1>1. d1 \in Desk
  <2>1. d.view[v] \in ViewState
    BY DEF Desk
  <2>2. [d.view[v] EXCEPT !.minimized = minimized,
                          !.shown = ~minimized /\ OnShownTag(d, v)] \in ViewState
    BY <2>1 DEF ViewState
  <2> QED BY <2>2, PutType
<1>2. d2 \in Desk
  <2> HIDE DEF d1
  <2> QED BY <1>1, PassFocusType, ReleaseGrabType, FocusViewType DEF MaybeView
<1> QED BY <1>2, ArrangeType DEF SetMinimized

(* setTagset() changes no shape: the 0 mask is refused. *)
LEMMA SetTagsetType ==
    ASSUME NEW d \in Desk, NEW o \in Output, NEW tagset \in SUBSET Tag
    PROVE  SetTagset(d, o, tagset) \in Desk
<1> DEFINE d1 == [d EXCEPT !.out[o].tagset = tagset]
<1>1. CASE tagset # {}
  <2>1. d1 \in Desk
    <3>1. tagset \in Tagset
      BY <1>1 DEF Tagset
    <3> QED BY <3>1 DEF Desk, OutputState
  <2>2. Arrange(d1, {o}) \in Desk
    BY <2>1, ArrangeType
  <2>3. \A e \in Desk : \A S : StartAnim(e, S, "disable") \in Desk
                             /\ StartAnim(e, S, "plain") \in Desk
    BY StartAnimType
  <2> QED BY <2>2, <2>3 DEF SetTagset
<1>2. CASE tagset = {}
  BY <1>2 DEF SetTagset
<1> QED BY <1>1, <1>2

(* close() changes no shape. *)
LEMMA CloseType ==
    ASSUME NEW d \in Desk, NEW S
    PROVE  Close(d, S) \in Desk
<1> DEFINE d1 == StartAnim(d, S, "close")
<1>1. d1 \in Desk
  BY StartAnimType
<1>2. \A v \in View : [d1.view[v] EXCEPT !.closing = @ \/ v \in S] \in ViewState
  <2> SUFFICES ASSUME NEW v \in View
               PROVE  [d1.view[v] EXCEPT !.closing = @ \/ v \in S] \in ViewState
    OBVIOUS
  <2> HIDE DEF d1
  <2>1. d1.view[v] \in ViewState
    BY <1>1 DEF Desk
  <2> QED BY <2>1, ZenonT(30) DEF ViewState
<1>3. [d1 EXCEPT !.view = [v \in View |->
          [d1.view[v] EXCEPT !.closing = @ \/ v \in S]]] \in Desk
  <2> HIDE DEF d1
  <2> QED BY <1>1, <1>2 DEF Desk
<1> QED BY <1>3 DEF Close

-----------------------------------------------------------------------------
(* Steps *)

ListOrder == (View \X View) \cup (Output \X Output)

(* TypeOK says that the desk is one and that the lists hold what they should. *)
LEMMA DeskType ==
    ASSUME TypeOK
    PROVE  /\ desk \in Desk
           /\ desk.view = view /\ desk.out = out /\ desk.seat = seat
           /\ older \subseteq ListOrder
  BY DEF TypeOK, desk, Desk, ListOrder

(* An action that commits a desk of the right shape keeps TypeOK. *)
LEMMA CommitType ==
    ASSUME NEW d \in Desk, Commit(d), older' \subseteq ListOrder
    PROVE  TypeOK'
  BY DEF TypeOK, Commit, Desk, ListOrder

(* Every handler keeps TypeOK. *)
LEMMA StepType ==
    ASSUME TypeOK, [Next]_vars
    PROVE  TypeOK'
<1> USE DeskType, DesktopConstants
<1>1. ASSUME NEW v \in View, NEW surface \in BOOLEAN, NewView(v, surface)
      PROVE  TypeOK'
  <2>1. [Absent EXCEPT !.phase = "unmapped", !.surface = surface,
                       !.shown = TRUE] \in ViewState
    BY DEF Absent, ViewState, Tagset, MaybeOutput, Box, NoBox
  <2>2. older' \subseteq ListOrder
    BY <1>1 DEF NewView, ListOrder
  <2> QED BY <1>1, <2>1, <2>2 DEF NewView, TypeOK, ListOrder
<1>28. ASSUME NEW v \in View, Associate(v) \/ Dissociate(v) PROVE TypeOK'
  <2>1. view[v] \in ViewState /\ seat \in SeatState
    BY DEF TypeOK
  <2>2. \A b \in BOOLEAN : [view[v] EXCEPT !.surface = b] \in ViewState
    BY <2>1 DEF ViewState
  <2>3. \E b \in BOOLEAN : view' = [view EXCEPT ![v] = [view[v] EXCEPT !.surface = b]]
    BY <1>28 DEF Associate, Dissociate
  <2>4. view' \in [View -> ViewState]
    BY <2>2, <2>3 DEF TypeOK
  <2>5. seat' \in SeatState /\ UNCHANGED <<out, older>>
    BY <1>28, <2>1 DEF Associate, Dissociate, SeatState, MaybeView
  <2> QED BY <2>4, <2>5 DEF TypeOK
<1>2. ASSUME NEW v \in View, NEW o \in MaybeOutput, NEW floats \in BOOLEAN,
             NEW fullscreen \in BOOLEAN, MapView(v, o, floats, fullscreen)
      PROVE  TypeOK'
  <2> DEFINE r1 == [view[v] EXCEPT
                       !.phase = "mapped", !.output = o, !.floating = floats,
                       !.tags = IF o = NoOutput THEN @ ELSE out[o].tagset]
             d1 == [desk EXCEPT !.view[v] = r1]
             d2 == Arrange(d1, {o})
             d3 == IF fullscreen
                   THEN SetFullscreen([d2 EXCEPT !.view[v].fullscreen = FALSE],
                                      v, TRUE)
                   ELSE d2
             d4 == IF floats /\ ~d3.view[v].fullscreen /\ o # NoOutput
                   THEN [d3 EXCEPT !.view[v].box = [kind |-> "float", on |-> o]]
                   ELSE d3
  <2>1. r1 \in ViewState
    <3>1. view[v] \in ViewState
      BY DEF TypeOK
    <3>2. (IF o = NoOutput THEN view[v].tags ELSE out[o].tagset) \in Tagset
      BY <3>1 DEF TypeOK, ViewState, OutputState, MaybeOutput
    <3>3. \A t \in Tagset : [view[v] EXCEPT !.phase = "mapped", !.output = o,
                                 !.floating = floats, !.tags = t] \in ViewState
      BY <3>1 DEF ViewState
    <3> QED BY <3>2, <3>3
  <2>2. d1 \in Desk /\ d2 \in Desk
    BY <2>1, PutType, ArrangeType
  <2>3. d3 \in Desk
    <3> HIDE DEF d2
    <3>1. d2.view[v] \in ViewState
      BY <2>2 DEF Desk
    <3>2. [d2.view[v] EXCEPT !.fullscreen = FALSE] \in ViewState
      BY <3>1 DEF ViewState
    <3> QED BY <2>2, <3>2, PutType, SetFullscreenType
  <2>4. d4 \in Desk
    <3> HIDE DEF d3
    <3>1. d3.view[v] \in ViewState
      BY <2>3 DEF Desk
    <3>2. \A b \in Box : [d3.view[v] EXCEPT !.box = b] \in ViewState
      BY <3>1 DEF ViewState
    <3>3. [kind |-> "float", on |-> o] \in Box
      BY DEF Box
    <3> QED BY <2>3, <3>2, <3>3, PutType
  <2>5. PlayPlain(FocusView(d4, v), v) \in Desk
    <3> HIDE DEF d4
    <3> QED BY <2>4, FocusViewType, PlayPlainType, SMTT(20) DEF MaybeView
  <2>6. Commit(PlayPlain(FocusView(d4, v), v)) /\ older' = older
    BY <1>2 DEF MapView
  <2> HIDE DEF d4
  <2> QED BY <2>5, <2>6, CommitType
<1>3. ASSUME NEW v \in View, NEW next \in MaybeView, UnmapView(v, next)
      PROVE  TypeOK'
  <2> DEFINE d1 == ReleaseGrab([desk EXCEPT !.view[v].phase = "unmapped"], v)
             d2 == Arrange(PassFocus(d1, v, next), {view[v].output})
  <2>1. view[v] \in ViewState
    BY DEF TypeOK
  <2>2. [view[v] EXCEPT !.phase = "unmapped"] \in ViewState
    BY <2>1 DEF ViewState
  <2>3. d1 \in Desk
    BY <2>2, PutType, ReleaseGrabType
  <2>4. d2 \in Desk
    <3> HIDE DEF d1
    <3> QED BY <2>3, PassFocusType, ArrangeType
  <2>5. Commit(d2) /\ older' = older
    BY <1>3 DEF UnmapView
  <2> HIDE DEF d2
  <2> QED BY <2>4, <2>5, CommitType
<1>4. ASSUME NEW v \in View, DestroyView(v) PROVE TypeOK'
  <2>1. Absent \in ViewState
    BY DEF Absent, ViewState, Tagset, MaybeOutput, Box, NoBox
  <2>2. seat' \in SeatState
    BY <1>4 DEF DestroyView, TypeOK, SeatState, MaybeView
  <2> QED BY <1>4, <2>1, <2>2 DEF DestroyView, TypeOK
<1>5. ASSUME NEW v \in View, NEW b \in BOOLEAN, RequestFullscreen(v, b)
      PROVE  TypeOK'
  BY <1>5, SetFullscreenType, CommitType DEF RequestFullscreen
<1>6. ASSUME NEW v \in View, NEW b \in BOOLEAN, Activate(v, b) PROVE TypeOK'
  <2> DEFINE d1 == IF b THEN SetMinimized(desk, v, FALSE, NoView) ELSE desk
  <2>1. d1 \in Desk
    BY SetMinimizedType DEF MaybeView
  <2>2. Commit(FocusView(d1, v)) /\ older' = older
    BY <1>6 DEF Activate
  <2> HIDE DEF d1
  <2>3. FocusView(d1, v) \in Desk
    BY <2>1, FocusViewType DEF MaybeView
  <2> QED BY <2>2, <2>3, CommitType
<1>7. ASSUME NEW v \in View, NEW b \in BOOLEAN, NEW next \in MaybeView,
             RequestMinimize(v, b, next)
      PROVE  TypeOK'
  BY <1>7, SetMinimizedType, CommitType DEF RequestMinimize
<1>8. ASSUME NEW v \in View, Focus(v) PROVE TypeOK'
  BY <1>8, FocusViewType, CommitType DEF Focus, MaybeView
<1>9. ASSUME NEW v \in View, RequestClose(v) PROVE TypeOK'
  BY <1>9, CloseType, CommitType DEF RequestClose
<1>10. ASSUME NEW v \in View, BeginGrab(v) PROVE TypeOK'
  BY <1>10 DEF BeginGrab, TypeOK, SeatState, MaybeView
<1>11. ASSUME NEW v \in View, Drag(v) \/ PlaceFloating(v) PROVE TypeOK'
  <2>1. view[v] \in ViewState
    BY DEF TypeOK
  <2>2. [kind |-> "float", on |-> view[v].output] \in Box
    BY <2>1 DEF ViewState, Box
  <2>3. [view[v] EXCEPT !.box = [kind |-> "float", on |-> view[v].output]]
           \in ViewState
    BY <2>1, <2>2 DEF ViewState
  <2>4. /\ view' = [view EXCEPT ![v] =
               [view[v] EXCEPT !.box = [kind |-> "float", on |-> view[v].output]]]
        /\ UNCHANGED <<out, seat, older>>
    BY <1>11 DEF Drag, PlaceFloating
  <2> QED BY <2>3, <2>4 DEF TypeOK
<1>12. ASSUME NEW v \in View, NEW step, FocusDirection(v, step) PROVE TypeOK'
  BY <1>12, FocusViewType, CommitType DEF FocusDirection, MaybeView
<1>13. ASSUME NEW v \in View, NEW b \in BOOLEAN, RequestFloating(v, b)
       PROVE  TypeOK'
  BY <1>13, SetFloatingType, CommitType DEF RequestFloating
<1>14. ASSUME NEW v \in View, NEW tags \in SUBSET Tag, RequestTags(v, tags)
       PROVE  TypeOK'
  BY <1>14, SetTagsType, CommitType DEF RequestTags
<1>15. ASSUME NEW v \in View, NEW o \in Output, MoveToOutput(v, o) PROVE TypeOK'
  <2> DEFINE r1 == [view[v] EXCEPT !.floating = FALSE, !.output = o]
             d1 == [desk EXCEPT !.view[v] = r1]
  <2>1. r1 \in ViewState
    <3>1. view[v] \in ViewState /\ o \in MaybeOutput
      BY DEF TypeOK, MaybeOutput
    <3> QED BY <3>1 DEF ViewState
  <2>2. d1 \in Desk
    BY <2>1, PutType
  <2>3. out[o].tagset \in SUBSET Tag
    BY DEF TypeOK, OutputState, Tagset
  <2>4. Commit(SetTags(d1, v, out[o].tagset)) /\ older' = older
    BY <1>15 DEF MoveToOutput
  <2> HIDE DEF d1
  <2>5. SetTags(d1, v, out[o].tagset) \in Desk
    BY <2>2, <2>3, SetTagsType
  <2> QED BY <2>4, <2>5, CommitType
<1>16. ASSUME NEW o \in Output, NEW tags \in SUBSET Tag, SwitchTagset(o, tags)
       PROVE  TypeOK'
  BY <1>16, SetTagsetType, CommitType DEF SwitchTagset
<1>17. ASSUME NEW o \in Output, NEW step, FocusMonitor(o, step) PROVE TypeOK'
  BY <1>17 DEF FocusMonitor, TypeOK, SeatState, MaybeOutput
<1>18. ASSUME NEW tags, CloseOnTag(tags) PROVE TypeOK'
  BY <1>18, CloseType, CommitType DEF CloseOnTag
<1>19. ASSUME EndGrab PROVE TypeOK'
  BY <1>19 DEF EndGrab, TypeOK, SeatState, MaybeView
<1>20. ASSUME Reload PROVE TypeOK'
  <2> DEFINE d == Arrange(desk, Connected(desk))
             views == [v \in View |->
                 IF Alive(d, v)
                 THEN [d.view[v] EXCEPT !.activated = seat.focused_view = v,
                                        !.faded = FALSE]
                 ELSE d.view[v]]
  <2>1. d \in Desk
    BY ArrangeType
  <2>2. Commit([d EXCEPT !.view = views]) /\ older' = older
    BY <1>20 DEF Reload
  <2>3. [d EXCEPT !.view = views] \in Desk
    <3> HIDE DEF d
    <3>1. \A v \in View : d.view[v] \in ViewState
      BY <2>1 DEF Desk
    <3>2. \A r \in ViewState : \A b \in BOOLEAN :
              [r EXCEPT !.activated = b, !.faded = FALSE] \in ViewState
      BY DEF ViewState
    <3>3. views \in [View -> ViewState]
      BY <3>1, <3>2
    <3> HIDE DEF views
    <3> QED BY <2>1, <3>3 DEF Desk
  <2> HIDE DEF d, views
  <2> QED BY <2>2, <2>3, CommitType
<1>21. ASSUME NEW o \in Output, NEW sync \in BOOLEAN, ConnectOutput(o, sync)
       PROVE  TypeOK'
  <2> DEFINE d == Arrange(desk, Connected(desk))
             d2 == [d EXCEPT !.out[o] = [Disconnected EXCEPT !.connected = TRUE,
                                                             !.sync = sync],
                             !.seat.focused_output =
                                 IF @ = NoOutput THEN o ELSE @]
  <2>1. d \in Desk
    BY ArrangeType
  <2>2. Commit(d2)
    BY <1>21 DEF ConnectOutput
  <2>3. [Disconnected EXCEPT !.connected = TRUE, !.sync = sync] \in OutputState
    BY DEF Disconnected, OutputState, Tagset
  <2>4. d2 \in Desk
    <3> HIDE DEF d
    <3> QED BY <2>1, <2>3 DEF Desk, SeatState, MaybeOutput
  <2>5. older' \subseteq ListOrder
    BY <1>21 DEF ConnectOutput, ListOrder, Connected
  <2> HIDE DEF d2
  <2> QED BY <2>2, <2>4, <2>5, CommitType
<1>22. ASSUME RequestState PROVE TypeOK'
  BY <1>22, ArrangeType, CommitType DEF RequestState
<1>27. ASSUME NEW o \in Output, ArrangeOutput(o) PROVE TypeOK'
  BY <1>27, ArrangeType, CommitType DEF ArrangeOutput
<1>23. ASSUME NEW o \in Output, NEW to \in MaybeOutput, DestroyOutput(o, to)
       PROVE  TypeOK'
  <2> DEFINE moved == {v \in View : Alive(desk, v) /\ view[v].output = o}
             views == [v \in View |->
                          IF v \in moved THEN Migrate(view[v], to) ELSE view[v]]
             d1 == [desk EXCEPT !.view = views]
             f == seat.focused_view
             homeless == f # NoView /\ d1.view[f].output = NoOutput
             d2 == [d1 EXCEPT !.out[o] = Disconnected,
                              !.seat.focused_output = Replaced(@, o, to),
                              !.seat.focused_view = IF homeless THEN NoView ELSE @]
  <2>1. \A v \in View : Migrate(view[v], to) \in ViewState
    <3> SUFFICES ASSUME NEW v \in View PROVE Migrate(view[v], to) \in ViewState
      OBVIOUS
    <3>1. view[v] \in ViewState
      BY DEF TypeOK
    <3>2. \A t \in Tagset : [view[v] EXCEPT !.output = to, !.floating = FALSE,
                                 !.tags = t, !.shown = TRUE] \in ViewState
      BY <3>1 DEF ViewState
    <3>3. to # NoOutput => out[to].tagset \in Tagset
      BY DEF TypeOK, OutputState, MaybeOutput
    <3>4. [view[v] EXCEPT !.output = NoOutput] \in ViewState
      BY <3>1 DEF ViewState, MaybeOutput
    <3> QED BY <3>2, <3>3, <3>4 DEF Migrate
  <2>2. views \in [View -> ViewState]
    BY <2>1 DEF TypeOK
  <2>3. d1 \in Desk
    <3> HIDE DEF views
    <3> QED BY <2>2 DEF Desk
  <2>4. Commit(Arrange(d2, {to}))
    BY <1>23 DEF DestroyOutput
  <2>5. d2 \in Desk
    <3> HIDE DEF d1, homeless
    <3>1. Disconnected \in OutputState
      BY DEF Disconnected, OutputState, Tagset
    <3> QED BY <2>3, <3>1, ZenonT(30) DEF Desk, SeatState, MaybeView, MaybeOutput, Replaced
  <2>6. older' \subseteq ListOrder
    BY <1>23 DEF DestroyOutput
  <2> HIDE DEF d2
  <2> QED BY <2>4, <2>5, <2>6, ArrangeType, CommitType
<1>24. ASSUME NEW v \in View, FinishAnim(v) PROVE TypeOK'
  <2>1. view[v] \in ViewState
    BY DEF TypeOK
  <2>2. \A shown, faded, closing \in BOOLEAN :
            [view[v] EXCEPT !.anim = "none", !.shown = shown, !.faded = faded,
                            !.closing = closing] \in ViewState
    BY <2>1 DEF ViewState
  <2>3. [view[v] EXCEPT !.anim = "none",
                        !.shown = @ /\ view[v].anim # "disable",
                        !.faded = view[v].anim = "close",
                        !.closing = @ /\ view[v].anim # "close"] \in ViewState
    <3> DEFINE shown == view[v].shown /\ view[v].anim # "disable"
               faded == view[v].anim = "close"
               closing == view[v].closing /\ view[v].anim # "close"
    <3>1. shown \in BOOLEAN /\ faded \in BOOLEAN /\ closing \in BOOLEAN
      OBVIOUS
    <3>2. [view[v] EXCEPT !.anim = "none", !.shown = shown, !.faded = faded,
                          !.closing = closing] \in ViewState
      <4> HIDE DEF shown, faded, closing
      <4> QED BY <2>2, <3>1
    <3> QED BY <3>2 DEF shown, faded, closing
  <2> QED BY <1>24, <2>3 DEF FinishAnim, TypeOK
<1>25. ASSUME LockStep PROVE TypeOK'
  <2>1. ASSUME Unlock PROVE TypeOK'
    <3> DEFINE f == seat.focused_view
               d1 == [desk EXCEPT !.seat.lock = "none"]
               d2 == IF f = NoView THEN d1
                     ELSE [SetFocused(d1, f, TRUE) EXCEPT !.seat.kb = EnteredBy(d1, f)]
    <3>1. d1 \in Desk /\ f \in MaybeView
      BY DEF Desk, SeatState
    <3>k. f # NoView => EnteredBy(d1, f) \in MaybeView \cup {LockSurface}
      <4> HIDE DEF d1
      <4> QED BY <3>1 DEF EnteredBy, Desk, SeatState, MaybeView
    <3>2. d2 \in Desk
      <4> HIDE DEF d1
      <4>1. CASE f = NoView
        BY <3>1, <4>1
      <4>2. CASE f # NoView
        <5>1. SetFocused(d1, f, TRUE) \in Desk /\ f \in View
          BY <3>1, <4>2, SetFocusedType DEF MaybeView
        <5> QED BY <4>2, <5>1, <3>k DEF Desk, SeatState, MaybeView
      <4> QED BY <4>1, <4>2
    <3>3. Commit(d2) /\ older' = older
      BY <2>1 DEF Unlock
    <3> HIDE DEF d2
    <3> QED BY <3>2, <3>3, CommitType
  <2>2. ASSUME Lock \/ MapLockSurface \/ DestroyLockSurface \/ CrashLock
        PROVE  TypeOK'
    <3>1. seat \in SeatState
      BY DEF TypeOK
    <3>2. seat' \in SeatState
      BY <2>2, <3>1 DEF Lock, MapLockSurface, DestroyLockSurface, CrashLock,
                        SeatState, MaybeView
    <3>3. UNCHANGED <<view, out, older>>
      BY <2>2 DEF Lock, MapLockSurface, DestroyLockSurface, CrashLock
    <3> QED BY <3>2, <3>3 DEF TypeOK
  <2> QED BY <1>25, <2>1, <2>2 DEF LockStep
<1>26. ASSUME UNCHANGED vars PROVE TypeOK'
  BY <1>26 DEF vars, TypeOK
<1> QED BY <1>1, <1>2, <1>3, <1>4, <1>5, <1>6, <1>7, <1>8, <1>9, <1>10, <1>11,
           <1>12, <1>13, <1>14, <1>15, <1>16, <1>17, <1>18, <1>19, <1>20, <1>21,
           <1>22, <1>23, <1>24, <1>25, <1>26, <1>27, <1>28
        DEF Next, ClientStep, UserStep, OutputStep, Tagset

(* The server starts with TypeOK. *)
LEMMA InitType == Init => TypeOK
  BY DesktopConstants DEF Init, TypeOK, Absent, Disconnected, NoBox, ViewState,
     OutputState, SeatState, Tagset, MaybeView, MaybeOutput, Box

(* Every variable keeps its shape, and no view or output is ever left without
   a tag, for any number of views, outputs and tags.                         *)
THEOREM Typed == Spec => []TypeOK
<1>1. TypeOK /\ [Next]_vars => TypeOK'
  BY StepType
<1> QED BY <1>1, InitType, PTL DEF Spec

-----------------------------------------------------------------------------
(* Focus *)

(* From d to e nobody gains or loses focus, comes or goes, or changes output. *)
Kept(d, e) ==
    /\ e.seat = d.seat
    /\ \A v \in View : /\ e.view[v].phase = d.view[v].phase
                       /\ e.view[v].output = d.view[v].output
                       /\ e.view[v].activated = d.view[v].activated
                       /\ e.view[v].surface = d.view[v].surface
    /\ \A o \in Output : e.out[o].connected = d.out[o].connected

(* Kept composes... *)
LEMMA KeptTrans ==
    ASSUME NEW a, NEW b, NEW c, Kept(a, b), Kept(b, c)
    PROVE  Kept(a, c)
  BY DEF Kept

(* ... and holds of a helper that does nothing. *)
LEMMA KeptSame ==
    ASSUME NEW d
    PROVE  Kept(d, d)
  BY DEF Kept

(* Writing a record that agrees on phase, output, activated and surface keeps
   focus.                                                                    *)
LEMMA PutKept ==
    ASSUME NEW d \in Desk, NEW v \in View, NEW r \in ViewState,
           r.phase = d.view[v].phase, r.output = d.view[v].output,
           r.activated = d.view[v].activated, r.surface = d.view[v].surface
    PROVE  Kept(d, [d EXCEPT !.view[v] = r])
  BY DEF Kept, Desk

(* updateAdaptiveSync() leaves focus alone. *)
LEMMA UpdateSyncKept ==
    ASSUME NEW d \in Desk, NEW O
    PROVE  Kept(d, UpdateSync(d, O))
<1>1. \A s \in OutputState : \A b \in BOOLEAN :
          [s EXCEPT !.sync = b].connected = s.connected
  BY DEF OutputState
<1> QED BY <1>1 DEF Kept, UpdateSync, Desk

(* arrange() leaves focus alone, for all the views it enables and disables. *)
LEMMA ArrangeKept ==
    ASSUME NEW d \in Desk, NEW O
    PROVE  Kept(d, Arrange(d, O))
<1> DEFINE e == [d EXCEPT !.view = Placed(d, O), !.out = Laid(d, O)]
<1>1. e \in Desk
  BY PlacedType, LaidType DEF Desk
<1>2. e.seat = d.seat
  BY DEF Desk
<1>3. ASSUME NEW v \in View
      PROVE  /\ e.view[v].phase = d.view[v].phase
             /\ e.view[v].output = d.view[v].output
             /\ e.view[v].activated = d.view[v].activated
             /\ e.view[v].surface = d.view[v].surface
  <2>1. d.view[v] \in ViewState
    BY DEF Desk
  <2>2. e.view[v] = Placed(d, O)[v]
    BY DEF Desk
  <2> QED BY <2>1, <2>2 DEF Placed, ViewState
<1>4. ASSUME NEW o \in Output PROVE e.out[o].connected = d.out[o].connected
  BY DEF Desk, Laid, OutputState
<1>5. Kept(d, e)
  BY <1>2, <1>3, <1>4 DEF Kept
<1>6. Kept(e, UpdateSync(e, O))
  BY <1>1, UpdateSyncKept
<1> HIDE DEF e
<1>7. Kept(d, UpdateSync(e, O))
  BY <1>5, <1>6, KeptTrans
<1> QED BY <1>7 DEF Arrange, e

(* Animations leave focus alone. *)
LEMMA StartAnimKept ==
    ASSUME NEW d \in Desk, NEW S, NEW end \in {"none", "plain", "disable", "close"}
    PROVE  Kept(d, StartAnim(d, S, end))
<1>1. ASSUME NEW v \in View
      PROVE  LET w == StartAnim(d, S, end).view[v]
             IN  /\ w.phase = d.view[v].phase
                 /\ w.output = d.view[v].output
                 /\ w.activated = d.view[v].activated
                 /\ w.surface = d.view[v].surface
  <2>1. d.view[v] \in ViewState
    BY DEF Desk
  <2> QED BY <2>1 DEF StartAnim, Desk, ViewState
<1> QED BY <1>1 DEF Kept, StartAnim, Desk

(* So do the open and the float-pop animation. *)
LEMMA PlayPlainKept ==
    ASSUME NEW d \in Desk, NEW v
    PROVE  Kept(d, PlayPlain(d, v))
  BY StartAnimKept, KeptSame DEF PlayPlain

(* setTags() leaves focus alone, also on a view it hides. *)
LEMMA SetTagsKept ==
    ASSUME NEW d \in Desk, NEW v \in View, NEW tags \in SUBSET Tag
    PROVE  Kept(d, SetTags(d, v, tags))
<1> DEFINE d1 == [d EXCEPT !.view[v].tags = IF tags = {} THEN @ ELSE tags]
           d2 == [d1 EXCEPT !.view[v].shown = OnShownTag(d1, v)]
<1>1. d1 \in Desk /\ Kept(d, d1)
  <2>1. d.view[v] \in ViewState
    BY DEF Desk
  <2>2. \A t \in Tagset : LET r == [d.view[v] EXCEPT !.tags = t]
                          IN  /\ r \in ViewState
                              /\ r.phase = d.view[v].phase
                              /\ r.output = d.view[v].output
                              /\ r.activated = d.view[v].activated
                              /\ r.surface = d.view[v].surface
    BY <2>1 DEF ViewState
  <2>3. (IF tags = {} THEN d.view[v].tags ELSE tags) \in Tagset
    BY <2>1 DEF ViewState, Tagset
  <2> QED BY <2>2, <2>3, PutType, PutKept
<1>2. d2 \in Desk /\ Kept(d1, d2)
  <2> HIDE DEF d1
  <2>1. d1.view[v] \in ViewState /\ OnShownTag(d1, v) \in BOOLEAN
    BY <1>1 DEF Desk, OnShownTag
  <2>2. \A b \in BOOLEAN : LET r == [d1.view[v] EXCEPT !.shown = b]
                           IN  /\ r \in ViewState
                               /\ r.phase = d1.view[v].phase
                               /\ r.output = d1.view[v].output
                               /\ r.activated = d1.view[v].activated
                               /\ r.surface = d1.view[v].surface
    BY <2>1 DEF ViewState
  <2> QED BY <1>1, <2>1, <2>2, PutType, PutKept
<1> HIDE DEF d1, d2
<1>3. Kept(d, Arrange(d2, {d.view[v].output}))
  BY <1>1, <1>2, ArrangeKept, KeptTrans
<1> QED BY <1>3 DEF SetTags, d1, d2

(* setFloating() leaves focus alone. *)
LEMMA SetFloatingKept ==
    ASSUME NEW d \in Desk, NEW v \in View, NEW floating \in BOOLEAN
    PROVE  Kept(d, SetFloating(d, v, floating))
<1> DEFINE o == d.view[v].output
           d1 == [d EXCEPT !.view[v].floating = floating]
           d2 == [d1 EXCEPT !.view[v].box = [kind |-> "float", on |-> o]]
<1>1. d.view[v] \in ViewState
  BY DEF Desk
<1>2. d1 \in Desk /\ Kept(d, d1)
  <2> DEFINE r == [d.view[v] EXCEPT !.floating = floating]
  <2>1. /\ r \in ViewState
        /\ r.phase = d.view[v].phase
        /\ r.output = d.view[v].output
        /\ r.activated = d.view[v].activated
        /\ r.surface = d.view[v].surface
    BY <1>1 DEF ViewState
  <2> QED BY <2>1, PutType, PutKept
<1>3. d2 \in Desk /\ Kept(d1, d2)
  <2>1. d1.view[v] \in ViewState /\ [kind |-> "float", on |-> o] \in Box
    BY <1>1, <1>2 DEF Desk, ViewState, Box
  <2>2. \A b \in Box : LET r == [d1.view[v] EXCEPT !.box = b]
                       IN  /\ r \in ViewState
                           /\ r.phase = d1.view[v].phase
                           /\ r.output = d1.view[v].output
                           /\ r.activated = d1.view[v].activated
                           /\ r.surface = d1.view[v].surface
    <3> HIDE DEF d1
    <3> QED BY <2>1 DEF ViewState
  <2> HIDE DEF d1
  <2> QED BY <1>2, <2>1, <2>2, PutType, PutKept
<1> HIDE DEF d1, d2
<1>4. Kept(d, Arrange(d1, {o})) /\ Kept(d, d2)
  BY <1>2, <1>3, ArrangeKept, KeptTrans
<1>5. Kept(d, Arrange(PlayPlain(d2, v), {o}))
  <2>1. PlayPlain(d2, v) \in Desk /\ Kept(d2, PlayPlain(d2, v))
    BY <1>3, PlayPlainType, PlayPlainKept
  <2>2. Kept(d2, Arrange(PlayPlain(d2, v), {o}))
    BY <2>1, ArrangeKept, KeptTrans
  <2> QED BY <1>4, <2>2, KeptTrans
<1> QED BY <1>2, <1>4, <1>5, KeptSame DEF SetFloating, d1, d2

(* setFullscreen()'s geometry leaves focus alone... *)
LEMMA FullscreenBoxKept ==
    ASSUME NEW d \in Desk, NEW v \in View, NEW kind \in {"full", "float"}
    PROVE  Kept(d, FullscreenBox(d, v, kind))
<1>1. d.view[v] \in ViewState
  BY DEF Desk
<1>2. [kind |-> kind, on |-> d.view[v].output] \in Box
  BY <1>1 DEF ViewState, Box
<1> DEFINE r == [d.view[v] EXCEPT !.box = [kind |-> kind, on |-> d.view[v].output]]
<1>3. /\ r \in ViewState
      /\ r.phase = d.view[v].phase
      /\ r.output = d.view[v].output
      /\ r.activated = d.view[v].activated
      /\ r.surface = d.view[v].surface
  BY <1>1, <1>2 DEF ViewState
<1> QED BY <1>3, PutKept DEF FullscreenBox

(* ... and so does the rest of setFullscreen(). *)
LEMMA SetFullscreenKept ==
    ASSUME NEW d \in Desk, NEW v \in View, NEW fullscreen \in BOOLEAN
    PROVE  Kept(d, SetFullscreen(d, v, fullscreen))
<1> DEFINE d1 == [d EXCEPT !.view[v].fullscreen = fullscreen]
           d2 == IF fullscreen THEN FullscreenBox(d1, v, "full")
                               ELSE LeaveFullscreen(d1, v)
<1>1. d1 \in Desk /\ Kept(d, d1)
  <2> DEFINE r == [d.view[v] EXCEPT !.fullscreen = fullscreen]
  <2>1. d.view[v] \in ViewState
    BY DEF Desk
  <2>2. /\ r \in ViewState
        /\ r.phase = d.view[v].phase
        /\ r.output = d.view[v].output
        /\ r.activated = d.view[v].activated
        /\ r.surface = d.view[v].surface
    BY <2>1 DEF ViewState
  <2> QED BY <2>2, PutType, PutKept
<1> HIDE DEF d1
<1>2. d2 \in Desk /\ Kept(d1, d2)
  BY <1>1, FullscreenBoxType, FullscreenBoxKept, ArrangeType, ArrangeKept
     DEF LeaveFullscreen
<1> HIDE DEF d2
<1>3. Kept(d, UpdateSync(d2, {d.view[v].output}))
  BY <1>1, <1>2, UpdateSyncKept, KeptTrans
<1> QED BY <1>1, <1>3, KeptSame DEF SetFullscreen, d1, d2

(* setTagset() leaves focus alone, also on views it slides out. *)
LEMMA SetTagsetKept ==
    ASSUME NEW d \in Desk, NEW o \in Output, NEW tagset \in SUBSET Tag
    PROVE  Kept(d, SetTagset(d, o, tagset))
<1> DEFINE d1 == [d EXCEPT !.out[o].tagset = tagset]
<1>1. CASE tagset # {}
  <2>1. d1 \in Desk /\ Kept(d, d1)
    <3>1. tagset \in Tagset
      BY <1>1 DEF Tagset
    <3> QED BY <3>1 DEF Desk, OutputState, Kept
  <2> HIDE DEF d1
  <2>2. Arrange(d1, {o}) \in Desk /\ Kept(d, Arrange(d1, {o}))
    BY <2>1, ArrangeType, ArrangeKept, KeptTrans
  <2>3. \A S, T : Kept(d, StartAnim(StartAnim(Arrange(d1, {o}), S, "disable"),
                                   T, "plain"))
    <3> SUFFICES ASSUME NEW S, NEW T
                 PROVE  Kept(d, StartAnim(StartAnim(Arrange(d1, {o}), S, "disable"),
                                          T, "plain"))
      OBVIOUS
    <3> DEFINE d2 == Arrange(d1, {o})
               d3 == StartAnim(d2, S, "disable")
    <3>1. d3 \in Desk /\ Kept(d2, d3)
      BY <2>2, StartAnimType, StartAnimKept
    <3>2. Kept(d3, StartAnim(d3, T, "plain"))
      BY <3>1, StartAnimKept
    <3> HIDE DEF d2, d3
    <3>3. Kept(d2, StartAnim(d3, T, "plain"))
      BY <3>1, <3>2, KeptTrans
    <3> QED BY <2>2, <3>3, KeptTrans DEF d2, d3
  <2> QED BY <2>2, <2>3, KeptSame DEF SetTagset, d1
<1>2. CASE tagset = {}
  BY <1>2, KeptSame DEF SetTagset
<1> QED BY <1>1, <1>2

(* close() leaves focus alone until the client unmaps. *)
LEMMA CloseKept ==
    ASSUME NEW d \in Desk, NEW S
    PROVE  Kept(d, Close(d, S))
<1> DEFINE d1 == StartAnim(d, S, "close")
           views == [v \in View |-> [d1.view[v] EXCEPT !.closing = @ \/ v \in S]]
           d2 == [d1 EXCEPT !.view = views]
<1>1. d1 \in Desk /\ Kept(d, d1)
  BY StartAnimType, StartAnimKept
<1>2. Kept(d1, d2)
  <2> HIDE DEF d1
  <2>1. \A v \in View : /\ views[v].phase = d1.view[v].phase
                        /\ views[v].output = d1.view[v].output
                        /\ views[v].activated = d1.view[v].activated
                        /\ views[v].surface = d1.view[v].surface
    <3>1. \A v \in View : d1.view[v] \in ViewState
      BY <1>1 DEF Desk
    <3> QED BY <3>1 DEF ViewState
  <2> HIDE DEF views
  <2> QED BY <1>1, <2>1 DEF Kept, Desk
<1> HIDE DEF d1, d2
<1>3. Kept(d, d2)
  BY <1>1, <1>2, KeptTrans
<1> QED BY <1>3, KeptSame DEF Close, d1, d2

-----------------------------------------------------------------------------
(* Moving the focus *)

(* From d to e no view comes or goes or changes output; focus may move. *)
Stays(d, e) ==
    /\ \A v \in View : /\ e.view[v].phase = d.view[v].phase
                       /\ e.view[v].output = d.view[v].output
                       /\ e.view[v].surface = d.view[v].surface
    /\ \A o \in Output : e.out[o].connected = d.out[o].connected

(* Stays composes. *)
LEMMA StaysTrans ==
    ASSUME NEW a, NEW b, NEW c, Stays(a, b), Stays(b, c)
    PROVE  Stays(a, c)
  BY DEF Stays

(* A change of the seat alone moves no view. *)
LEMMA StaysSeat ==
    ASSUME NEW d, NEW e, e.view = d.view, e.out = d.out
    PROVE  Stays(d, e)
  BY DEF Stays

(* Leaving focus alone moves no view. *)
LEMMA StaysKept ==
    ASSUME NEW d, NEW e, Kept(d, e)
    PROVE  Stays(d, e)
  BY DEF Stays, Kept

(* setFocused() tells one view and moves none. *)
LEMMA SetFocusedStays ==
    ASSUME NEW d \in Desk, NEW v \in View, NEW b \in BOOLEAN
    PROVE  LET e == SetFocused(d, v, b)
           IN  e.seat = d.seat /\ Stays(d, e) /\ e.view[v].activated = b
<1> DEFINE r == [d.view[v] EXCEPT !.activated = b, !.faded = FALSE]
           e == [d EXCEPT !.view[v] = r]
<1>1. d.view[v] \in ViewState
  BY DEF Desk
<1>2. /\ r.phase = d.view[v].phase /\ r.output = d.view[v].output
      /\ r.activated = b /\ r.surface = d.view[v].surface
  BY <1>1 DEF ViewState
<1>3. e.seat = d.seat /\ Stays(d, e) /\ e.view[v].activated = b
  <2> HIDE DEF r
  <2> QED BY <1>2 DEF Desk, Stays
<1> QED BY <1>3 DEF SetFocused

(* The keyboard once v is focused, or none. *)
Keyboard(d, v) == IF v = NoView THEN NoView ELSE EnteredBy(d, v)

(* What focusView does when it does not refuse: the announcement and the
   activated state move to the view it is given, and the keyboard does if that
   view has a surface.                                                       *)
LEMMA FocusViewMoves ==
    ASSUME NEW d \in Desk, NEW v \in MaybeView, ~Refuses(d, v)
    PROVE  LET e == FocusView(d, v)
           IN  /\ Stays(d, e)
               /\ v # NoView => e.view[v].activated
               /\ e.seat = [d.seat EXCEPT
                      !.focused_view = v, !.kb = Keyboard(d, v), !.told = v,
                      !.focused_output =
                          IF v = NoView \/ d.view[v].output = NoOutput
                          THEN @ ELSE d.view[v].output]
<1> DEFINE prev == d.seat.focused_view
           released == IF prev = NoView THEN d ELSE SetFocused(d, prev, FALSE)
           left == IF prev = NoView THEN NoOutput ELSE d.view[prev].output
<1>1. prev \in MaybeView
  BY DEF Desk, SeatState
<1>2. released \in Desk /\ released.seat = d.seat /\ Stays(d, released)
  <2>1. CASE prev = NoView
    BY <2>1, StaysSeat
  <2>2. CASE prev # NoView
    <3>1. prev \in View
      BY <1>1, <2>2 DEF MaybeView
    <3>2. /\ SetFocused(d, prev, FALSE) \in Desk
          /\ SetFocused(d, prev, FALSE).seat = d.seat
          /\ Stays(d, SetFocused(d, prev, FALSE))
      BY <3>1, SetFocusedType, SetFocusedStays
    <3> QED BY <2>2, <3>2
  <2> QED BY <2>1, <2>2
<1>3. CASE v = NoView
  <2> DEFINE e == [released EXCEPT !.seat.focused_view = NoView,
                      !.seat.kb = NoView, !.seat.told = NoView]
  <2>1. e \in Desk
    BY <1>2 DEF Desk, SeatState, MaybeView
  <2>2. /\ e.view = released.view /\ e.out = released.out
        /\ e.seat = [d.seat EXCEPT !.focused_view = NoView, !.kb = NoView,
                                   !.told = NoView]
    <3> HIDE DEF released
    <3> QED BY <1>2 DEF Desk, SeatState
  <2>3. d.seat \in SeatState
    BY DEF Desk
  <2>4. e.seat = [d.seat EXCEPT !.focused_view = NoView, !.kb = NoView,
                     !.told = NoView, !.focused_output = @]
    BY <2>2, <2>3 DEF SeatState
  <2>5. Kept(e, UpdateSync(e, {left}))
    BY <2>1, UpdateSyncKept
  <2>6. FocusView(d, v) = UpdateSync(e, {left})
    BY <1>3 DEF FocusView
  <2> HIDE DEF e, released, left
  <2>7. Stays(d, UpdateSync(e, {left}))
    <3>1. Stays(released, e) /\ Stays(e, UpdateSync(e, {left}))
      BY <2>2, <2>5, StaysSeat, StaysKept
    <3> QED BY <1>2, <3>1, StaysTrans
  <2> QED BY <1>3, <2>4, <2>5, <2>6, <2>7 DEF Kept, Keyboard
<1>4. CASE v # NoView
  <2> DEFINE entered == d.view[v].output
             focus == SetFocused(released, v, TRUE)
             e == [focus EXCEPT !.seat.focused_view = v,
                      !.seat.focused_output =
                          IF entered = NoOutput THEN @ ELSE entered,
                      !.seat.kb = Keyboard(d, v), !.seat.told = v]
  <2>1. /\ focus \in Desk /\ focus.seat = d.seat /\ Stays(released, focus)
        /\ focus.view[v].activated
    BY <1>2, <1>4, SetFocusedType, SetFocusedStays DEF MaybeView
  <2>2. entered \in MaybeOutput
    BY <1>4 DEF MaybeView, Desk, ViewState
  <2>k. Keyboard(d, v) \in MaybeView \cup {LockSurface}
    BY DEF Keyboard, EnteredBy, Desk, SeatState, MaybeView
  <2>3. e \in Desk
    <3> HIDE DEF focus, entered
    <3> QED BY <2>1, <2>2, <2>k DEF Desk, SeatState, MaybeView
  <2>4. /\ e.view = focus.view /\ e.out = focus.out
        /\ e.seat = [d.seat EXCEPT !.focused_view = v,
               !.focused_output = IF entered = NoOutput THEN @ ELSE entered,
               !.kb = Keyboard(d, v), !.told = v]
    <3> HIDE DEF focus, entered
    <3> QED BY <2>1 DEF Desk, SeatState
  <2>5. d.seat \in SeatState
    BY DEF Desk
  <2>6. e.seat = [d.seat EXCEPT !.focused_view = v, !.kb = Keyboard(d, v),
               !.told = v,
               !.focused_output = IF entered = NoOutput THEN @ ELSE entered]
    BY <2>4, <2>5 DEF SeatState
  <2>7. Kept(e, UpdateSync(e, {left, entered}))
    BY <2>3, UpdateSyncKept
  <2>8. FocusView(d, v) = UpdateSync(e, {left, entered})
    BY <1>4 DEF FocusView, Keyboard
  <2>9. Stays(d, focus)
    <3> HIDE DEF released, focus
    <3> QED BY <1>2, <2>1, StaysTrans
  <2> HIDE DEF e, focus, released, left, entered
  <2>10. Stays(d, UpdateSync(e, {left, entered}))
    <3>1. Stays(focus, e) /\ Stays(e, UpdateSync(e, {left, entered}))
      BY <2>4, <2>7, StaysSeat, StaysKept
    <3> QED BY <2>9, <3>1, StaysTrans
  <2>11. /\ UpdateSync(e, {left, entered}).view[v].activated
         /\ UpdateSync(e, {left, entered}).seat = e.seat
    <3>1. v \in View /\ e.view[v].activated
      BY <1>4, <2>1, <2>4 DEF MaybeView
    <3> QED BY <2>7, <3>1 DEF Kept
  <2> QED BY <1>4, <2>6, <2>8, <2>10, <2>11 DEF entered
<1> QED BY <1>3, <1>4

-----------------------------------------------------------------------------
(* The inductive invariant.  NoDangling needs one thing more than it says: a
   slot that is free names no output, so that unplugging one leaves none behind
   in a slot about to be reused.                                             *)

(* No window of the run lacks a surface. *)
NoneBare == "bare" \notin Requests

Coherent(d) ==
    LET f == d.seat.focused_view
    IN  f # NoView => /\ d.view[f].activated
                      /\ d.seat.told = f
                      /\ NoneBare /\ d.seat.lock = "none" => d.seat.kb = f

Surfaced(d) == NoneBare => \A v \in View : d.view[v].surface

Linked(d) ==
    /\ \A v \in {d.seat.focused_view, d.seat.grabbed, d.seat.kb, d.seat.told}
                 \cap View : Alive(d, v)
    /\ \A v \in View : d.view[v].output \in Connected(d) \cup {NoOutput}
    /\ d.seat.focused_output \in Connected(d) \cup {NoOutput}
    /\ d.seat.focused_output = NoOutput <=> Connected(d) = {}
    /\ \A v \in View : ~Alive(d, v) => d.view[v].output = NoOutput

(* The lock has the keyboard, or nobody has. *)
Guarded(d) == d.seat.lock # "none" => d.seat.kb \notin View

Sound(d) == Coherent(d) /\ Linked(d) /\ Guarded(d) /\ Surfaced(d)

(* Behind the lock a helper takes the focus away or leaves it where it is... *)
Held(d, e) ==
    /\ e.seat.lock = d.seat.lock
    /\ d.seat.lock # "none"
          => e.seat.focused_view \in {d.seat.focused_view, NoView}

(* ... and it unplugs no output. *)
Plugged(d, e) == \A o \in Output : d.out[o].connected => e.out[o].connected

Behind(d, e) == Held(d, e) /\ Plugged(d, e)

(* A helper that leaves focus alone keeps the invariant. *)
LEMMA KeptSound ==
    ASSUME NEW d \in Desk, NEW e, Kept(d, e), Sound(d)
    PROVE  Sound(e) /\ Behind(d, e)
<1>1. Connected(e) = Connected(d)
  BY DEF Kept, Connected
<1>2. d.seat.focused_view \in MaybeView
  BY DEF Desk, SeatState
<1>3. Coherent(e)
  BY <1>2 DEF Kept, Sound, Coherent, MaybeView
<1>4. Linked(e)
  BY <1>1 DEF Kept, Sound, Linked, Alive
<1>5. Surfaced(e)
  BY DEF Kept, Sound, Surfaced
<1> QED BY <1>3, <1>4, <1>5 DEF Kept, Sound, Guarded, Behind, Held, Plugged

(* focusView() of a live view, or of none, keeps the invariant. *)
LEMMA FocusViewSound ==
    ASSUME NEW d \in Desk, Sound(d), NEW v \in MaybeView,
           v \in View => Alive(d, v)
    PROVE  Sound(FocusView(d, v)) /\ Behind(d, FocusView(d, v))
<1> USE DesktopConstants
<1>1. CASE Refuses(d, v)
  BY <1>1 DEF FocusView, Behind, Held, Plugged
<1>2. CASE ~Refuses(d, v)
  <2> DEFINE e == FocusView(d, v)
             there == IF v = NoView \/ d.view[v].output = NoOutput
                      THEN d.seat.focused_output ELSE d.view[v].output
  <2>1. d.seat \in SeatState
    BY DEF Desk
  <2>2. /\ Stays(d, e)
        /\ v # NoView => e.view[v].activated
        /\ e.seat = [d.seat EXCEPT !.focused_view = v, !.kb = Keyboard(d, v),
                                   !.told = v, !.focused_output = there]
    BY <1>2, FocusViewMoves
  <2> HIDE DEF e
  <2>3. /\ e.seat.focused_view = v /\ e.seat.kb = Keyboard(d, v)
        /\ e.seat.told = v
        /\ e.seat.focused_output = there
        /\ e.seat.grabbed = d.seat.grabbed /\ e.seat.lock = d.seat.lock
    <3> HIDE DEF there
    <3> QED BY <2>1, <2>2 DEF SeatState
  <2>4. d.seat.lock = "none"
    BY <1>2 DEF Refuses
  <2>5. Connected(e) = Connected(d)
    BY <2>2 DEF Stays, Connected
  <2>6. Coherent(e) /\ Surfaced(e)
    BY <2>2, <2>3 DEF Coherent, Sound, Surfaced, Stays, Keyboard, EnteredBy, MaybeView
  <2>7. Linked(e)
    <3>1. \A w \in View : Alive(e, w) <=> Alive(d, w)
      BY <2>2 DEF Stays, Alive
    <3>2. there \in Connected(d) \cup {NoOutput}
      BY DEF Sound, Linked, MaybeView
    <3>3. there = NoOutput <=> Connected(d) = {}
      BY DEF Sound, Linked, MaybeView, Connected
    <3>4. \A w \in View : e.view[w].output = d.view[w].output
      BY <2>2 DEF Stays
    <3>5. \A w \in {v, d.seat.grabbed, Keyboard(d, v)} \cap View : Alive(e, w)
      BY <3>1 DEF Sound, Linked, Keyboard, EnteredBy
    <3>6. \A w \in View : ~Alive(e, w) => e.view[w].output = NoOutput
      BY <3>1, <3>4 DEF Sound, Linked
    <3>7. \A w \in View : e.view[w].output \in Connected(e) \cup {NoOutput}
      BY <3>4, <2>5 DEF Sound, Linked
    <3> HIDE DEF there
    <3> QED BY <2>3, <2>5, <3>2, <3>3, <3>5, <3>6, <3>7 DEF Linked
  <2>8. Guarded(e) /\ Behind(d, e)
    BY <2>2, <2>3, <2>4 DEF Guarded, Behind, Held, Plugged, Stays
  <2> QED BY <2>6, <2>7, <2>8 DEF Sound, e
<1> QED BY <1>1, <1>2

(* A focused view that goes away hands its focus on and keeps the invariant. *)
LEMMA PassFocusSound ==
    ASSUME NEW d \in Desk, Sound(d), NEW v \in View, NEW next \in MaybeView,
           next \in View => Alive(d, next)
    PROVE  Sound(PassFocus(d, v, next)) /\ Behind(d, PassFocus(d, v, next))
<1> USE DesktopConstants
<1> DEFINE d1 == [d EXCEPT !.seat.focused_view = NoView]
<1>1. d1 \in Desk
  BY DEF Desk, SeatState, MaybeView
<1>2. /\ d1.view = d.view /\ d1.out = d.out
      /\ d1.seat.focused_view = NoView
      /\ d1.seat.focused_output = d.seat.focused_output
      /\ d1.seat.kb = d.seat.kb /\ d1.seat.told = d.seat.told
      /\ d1.seat.grabbed = d.seat.grabbed /\ d1.seat.lock = d.seat.lock
  BY DEF Desk, SeatState
<1> HIDE DEF d1
<1>3. Connected(d1) = Connected(d)
  BY <1>2 DEF Connected
<1>4. Linked(d1)
  BY <1>2, <1>3 DEF Sound, Linked, Alive
<1>5. Sound(d1) /\ Behind(d, d1) /\ (next \in View => Alive(d1, next))
  BY <1>2, <1>4 DEF Sound, Coherent, Guarded, Surfaced, Behind, Held, Plugged,
                    Alive
<1>6. Sound(FocusView(d1, next)) /\ Behind(d1, FocusView(d1, next))
  BY <1>1, <1>5, FocusViewSound
<1>7. Behind(d, FocusView(d1, next))
  BY <1>5, <1>6 DEF Behind, Held, Plugged
<1>8. Behind(d, d)
  BY DEF Behind, Held, Plugged
<1> QED BY <1>6, <1>7, <1>8 DEF PassFocus, d1

(* Ending a grab keeps the invariant. *)
LEMMA ReleaseGrabSound ==
    ASSUME NEW d \in Desk, Sound(d), NEW v
    PROVE  /\ Sound(ReleaseGrab(d, v)) /\ Behind(d, ReleaseGrab(d, v))
           /\ ReleaseGrab(d, v).view = d.view
<1> USE DesktopConstants
<1> DEFINE d1 == [d EXCEPT !.seat.grabbed = NoView]
<1>1. /\ d1.view = d.view /\ d1.out = d.out
      /\ d1.seat.focused_view = d.seat.focused_view
      /\ d1.seat.focused_output = d.seat.focused_output
      /\ d1.seat.kb = d.seat.kb /\ d1.seat.told = d.seat.told
      /\ d1.seat.grabbed = NoView /\ d1.seat.lock = d.seat.lock
  BY DEF Desk, SeatState
<1> HIDE DEF d1
<1>2. Connected(d1) = Connected(d)
  BY <1>1 DEF Connected
<1>3. Linked(d1)
  BY <1>1, <1>2 DEF Sound, Linked, Alive
<1>4. Sound(d1) /\ Behind(d, d1)
  BY <1>1, <1>3 DEF Sound, Coherent, Guarded, Surfaced, Behind, Held, Plugged
<1> QED BY <1>1, <1>4 DEF ReleaseGrab, Behind, Held, Plugged, d1

(* Behind composes. *)
LEMMA BehindTrans ==
    ASSUME NEW a, NEW b, NEW c, Behind(a, b), Behind(b, c)
    PROVE  Behind(a, c)
  BY DEF Behind, Held, Plugged

(* setMinimized() keeps the invariant in both directions. *)
LEMMA SetMinimizedSound ==
    ASSUME NEW d \in Desk, Sound(d), NEW v \in View, Alive(d, v),
           NEW minimized \in BOOLEAN, NEW next \in MaybeView,
           next \in View => Alive(d, next)
    PROVE  LET e == SetMinimized(d, v, minimized, next)
           IN  Sound(e) /\ Behind(d, e)
<1> DEFINE r == [d.view[v] EXCEPT !.minimized = minimized,
                                  !.shown = ~minimized /\ OnShownTag(d, v)]
           d1 == [d EXCEPT !.view[v] = r]
           d2 == IF minimized THEN PassFocus(ReleaseGrab(d1, v), v, next)
                              ELSE FocusView(d1, v)
           e == Arrange(d2, {d.view[v].output})
<1>1. d1 \in Desk /\ Kept(d, d1)
  <2>1. d.view[v] \in ViewState
    BY DEF Desk
  <2>2. /\ r \in ViewState
        /\ r.phase = d.view[v].phase
        /\ r.output = d.view[v].output
        /\ r.activated = d.view[v].activated
        /\ r.surface = d.view[v].surface
    BY <2>1 DEF ViewState
  <2> QED BY <2>2, PutType, PutKept
<1> HIDE DEF r, d1
<1>2. Sound(d1) /\ Behind(d, d1) /\ (\A w \in View : Alive(d1, w) <=> Alive(d, w))
  BY <1>1, KeptSound DEF Kept, Alive
<1>3. d2 \in Desk /\ Sound(d2) /\ Behind(d1, d2)
  <2>1. CASE minimized
    <3> DEFINE d0 == ReleaseGrab(d1, v)
    <3>1. d0 \in Desk /\ Sound(d0) /\ Behind(d1, d0)
          /\ (next \in View => Alive(d0, next))
      BY <1>1, <1>2, ReleaseGrabType, ReleaseGrabSound DEF Alive
    <3> HIDE DEF d0
    <3>2. /\ PassFocus(d0, v, next) \in Desk
          /\ Sound(PassFocus(d0, v, next))
          /\ Behind(d0, PassFocus(d0, v, next))
      BY <3>1, PassFocusType, PassFocusSound
    <3> QED BY <2>1, <3>1, <3>2, BehindTrans DEF d0
  <2>2. CASE ~minimized
    BY <2>2, <1>1, <1>2, FocusViewType, FocusViewSound DEF MaybeView
  <2> QED BY <2>1, <2>2
<1> HIDE DEF d2
<1>4. Sound(e) /\ Behind(d2, e)
  BY <1>3, ArrangeKept, KeptSound
<1>5. Behind(d, e)
  BY <1>2, <1>3, <1>4, BehindTrans
<1>6. Behind(d, d)
  BY DEF Behind, Held, Plugged
<1> QED BY <1>4, <1>5, <1>6 DEF SetMinimized, d1, d2, r

(* Restoring a view moves none. *)
LEMMA RestoreStays ==
    ASSUME NEW d \in Desk, NEW v \in View, NEW next
    PROVE  Stays(d, SetMinimized(d, v, FALSE, next))
<1> DEFINE r == [d.view[v] EXCEPT !.minimized = FALSE,
                                  !.shown = ~FALSE /\ OnShownTag(d, v)]
           d1 == [d EXCEPT !.view[v] = r]
           d2 == FocusView(d1, v)
           e == Arrange(d2, {d.view[v].output})
<1>1. d1 \in Desk /\ Kept(d, d1)
  <2>1. d.view[v] \in ViewState
    BY DEF Desk
  <2>2. /\ r \in ViewState
        /\ r.phase = d.view[v].phase
        /\ r.output = d.view[v].output
        /\ r.activated = d.view[v].activated
        /\ r.surface = d.view[v].surface
    BY <2>1 DEF ViewState
  <2> QED BY <2>2, PutType, PutKept
<1> HIDE DEF r, d1
<1>2. d2 \in Desk /\ Stays(d1, d2)
  <2>1. CASE Refuses(d1, v)
    BY <2>1, <1>1, StaysSeat DEF FocusView
  <2>2. CASE ~Refuses(d1, v)
    BY <2>2, <1>1, FocusViewType, FocusViewMoves DEF MaybeView
  <2> QED BY <2>1, <2>2
<1> HIDE DEF d2
<1>3. Stays(d2, e)
  BY <1>2, ArrangeKept, StaysKept
<1> HIDE DEF e
<1>4. Stays(d, e)
  BY <1>1, <1>2, <1>3, StaysKept, StaysTrans
<1> QED BY <1>4, StaysSeat DEF SetMinimized, e, d2, d1, r

-----------------------------------------------------------------------------
(* Steps *)

(* The inductive invariant. *)
IInv == TypeOK /\ Sound(desk)

(* An action that commits a sound desk of the right shape keeps IInv. *)
LEMMA CommitSound ==
    ASSUME TypeOK, NEW d \in Desk, Commit(d), Sound(d), Behind(desk, d)
    PROVE  Sound(desk)' /\ Behind(desk, desk')
<1>1. desk'.view = d.view /\ desk'.out = d.out /\ desk'.seat = d.seat
  BY DEF Commit, desk
<1>2. Sound(desk')
  BY <1>1 DEF Sound, Coherent, Linked, Guarded, Surfaced, Alive, Connected
<1> QED BY <1>1, <1>2 DEF Behind, Held, Plugged

(* An action that commits what a focus-keeping helper returns. *)
LEMMA KeptCommit ==
    ASSUME IInv, NEW d \in Desk, Kept(desk, d), Commit(d)
    PROVE  Sound(desk)' /\ Behind(desk, desk')
  BY DeskType, KeptSound, CommitSound DEF IInv

(* FirstOf names a member of the set it searches, or nothing. *)
LEMMA FirstOfMember ==
    ASSUME NEW x, NEW S, NEW order, NEW none, FirstOf(x, S, order, none)
    PROVE  x = none \/ x \in S
  BY DEF FirstOf

(* Following names a member of the list it walks. *)
LEMMA FollowingMember ==
    ASSUME NEW x, NEW c, NEW S, NEW order, NEW step,
           Following(x, c, S, order, step)
    PROVE  x \in S
<1>1. PICK from \in S :
          LET beyond == {y \in S \ {from} : <<from, y>> \in step}
          IN  FirstOf(x, IF beyond = {} THEN S ELSE beyond, step, from)
  BY DEF Following
<1> DEFINE beyond == {y \in S \ {from} : <<from, y>> \in step}
           range == IF beyond = {} THEN S ELSE beyond
<1>2. FirstOf(x, range, step, from)
  BY <1>1
<1>3. range \subseteq S
  OBVIOUS
<1> HIDE DEF range
<1> QED BY <1>1, <1>2, <1>3, FirstOfMember

(* What clients do, windows that come and go above all, keeps the invariant. *)
LEMMA ClientStepSound ==
    ASSUME IInv, ClientStep
    PROVE  Sound(desk)' /\ Behind(desk, desk')
<1> USE DesktopConstants
<1> desk \in Desk /\ desk.view = view /\ desk.out = out /\ desk.seat = seat
  BY DeskType DEF IInv
<1>1. ASSUME NEW v \in View, NEW surface \in BOOLEAN, NewView(v, surface)
      PROVE  Sound(desk)' /\ Behind(desk, desk')
  <2>1. /\ view[v].phase = "absent" /\ out' = out /\ seat' = seat
        /\ view' = [view EXCEPT ![v] = [Absent EXCEPT !.phase = "unmapped",
                                                       !.surface = surface,
                                                       !.shown = TRUE]]
        /\ surface \/ ~NoneBare
    BY <1>1 DEF NewView, Issued, NoneBare
  <2>2. view \in [View -> ViewState] /\ seat \in SeatState
    BY DEF IInv, TypeOK
  <2>3. /\ view'[v].phase = "unmapped" /\ view'[v].output = NoOutput
        /\ view'[v].surface = surface
    BY <2>1, <2>2 DEF Absent
  <2>4. \A w \in View \ {v} : view'[w] = view[w]
    BY <2>1, <2>2
  <2>5. seat.focused_view # v /\ ~Alive(desk, v)
    BY <2>1 DEF IInv, Sound, Linked, Alive
  <2>6. Connected(desk') = Connected(desk)
    BY <2>1 DEF desk, Connected
  <2>7. Coherent(desk')
    <3>1. seat.focused_view \in MaybeView
      BY <2>2 DEF SeatState
    <3> QED BY <2>1, <2>4, <2>5, <3>1 DEF IInv, Sound, Coherent, desk, MaybeView
  <2>8. Linked(desk')
    BY <2>1, <2>3, <2>4, <2>6 DEF IInv, Sound, Linked, Alive, desk
  <2>9. Surfaced(desk')
    BY <2>1, <2>3, <2>4 DEF IInv, Sound, Surfaced, desk
  <2> QED BY <2>1, <2>7, <2>8, <2>9
          DEF IInv, Sound, Guarded, Behind, Held, Plugged, desk
<1>7. ASSUME NEW v \in View, Associate(v) \/ Dissociate(v)
      PROVE  Sound(desk)' /\ Behind(desk, desk')
  <2>1. view \in [View -> ViewState] /\ seat \in SeatState
    BY DEF IInv, TypeOK
  <2>2. \A w \in View : /\ view'[w].phase = view[w].phase
                        /\ view'[w].output = view[w].output
                        /\ view'[w].activated = view[w].activated
                        /\ NoneBare => view'[w].surface \/ view'[w] = view[w]
    <3>1. PICK b \in BOOLEAN :
             /\ view' = [view EXCEPT ![v] = [view[v] EXCEPT !.surface = b]]
             /\ NoneBare => b
      BY <1>7 DEF Associate, Dissociate, Issued, NoneBare
    <3>2. view[v] \in ViewState
      BY <2>1
    <3>3. LET r == [view[v] EXCEPT !.surface = b]
          IN  /\ r.phase = view[v].phase /\ r.output = view[v].output
              /\ r.activated = view[v].activated /\ r.surface = b
      BY <3>2 DEF ViewState
    <3>4. \A w \in View \ {v} : view'[w] = view[w]
      BY <2>1, <3>1
    <3> QED BY <2>1, <3>1, <3>3, <3>4
  <2>3. /\ out' = out
        /\ seat'.focused_view = seat.focused_view
        /\ seat'.focused_output = seat.focused_output
        /\ seat'.told = seat.told /\ seat'.grabbed = seat.grabbed
        /\ seat'.lock = seat.lock
        /\ seat'.kb \in {seat.kb, NoView}
        /\ NoneBare => seat'.kb = seat.kb
    BY <1>7, <2>1 DEF Associate, Dissociate, Issued, NoneBare, SeatState
  <2>4. Connected(desk') = Connected(desk)
    BY <2>3 DEF Connected, desk
  <2>5. Coherent(desk') /\ Surfaced(desk')
    <3>1. seat.focused_view \in MaybeView
      BY <2>1 DEF SeatState
    <3> QED BY <2>2, <2>3, <3>1
            DEF IInv, Sound, Coherent, Surfaced, desk, MaybeView
  <2>6. Linked(desk')
    BY <2>2, <2>3, <2>4 DEF IInv, Sound, Linked, Alive, desk
  <2> QED BY <2>3, <2>5, <2>6
          DEF IInv, Sound, Guarded, Behind, Held, Plugged, desk
<1>2. ASSUME NEW v \in View, NEW o \in MaybeOutput, NEW floats \in BOOLEAN,
             NEW fullscreen \in BOOLEAN, MapView(v, o, floats, fullscreen)
      PROVE  Sound(desk)' /\ Behind(desk, desk')
  <2> DEFINE r1 == [view[v] EXCEPT
                       !.phase = "mapped", !.output = o, !.floating = floats,
                       !.tags = IF o = NoOutput THEN @ ELSE out[o].tagset]
             d1 == [desk EXCEPT !.view[v] = r1]
             d2 == Arrange(d1, {o})
             d3 == IF fullscreen
                   THEN SetFullscreen([d2 EXCEPT !.view[v].fullscreen = FALSE],
                                      v, TRUE)
                   ELSE d2
             d4 == IF floats /\ ~d3.view[v].fullscreen /\ o # NoOutput
                   THEN [d3 EXCEPT !.view[v].box = [kind |-> "float", on |-> o]]
                   ELSE d3
             d5 == FocusView(d4, v)
  <2>1. /\ r1 \in ViewState /\ r1.phase = "mapped" /\ r1.output = o
        /\ r1.activated = view[v].activated
        /\ r1.surface = view[v].surface
    <3>1. view[v] \in ViewState
      BY DEF IInv, TypeOK
    <3>2. (IF o = NoOutput THEN view[v].tags ELSE out[o].tagset) \in Tagset
      BY <3>1 DEF IInv, TypeOK, ViewState, OutputState, MaybeOutput
    <3>3. \A t \in Tagset :
             LET r == [view[v] EXCEPT !.phase = "mapped", !.output = o,
                                      !.floating = floats, !.tags = t]
             IN  /\ r \in ViewState /\ r.phase = "mapped" /\ r.output = o
                 /\ r.activated = view[v].activated
                 /\ r.surface = view[v].surface
      BY <3>1 DEF ViewState
    <3> QED BY <3>2, <3>3
  <2>2. d1 \in Desk
    BY <2>1, PutType
  <2>3. o \in Connected(desk) \cup {NoOutput}
    BY <1>2, FirstOfMember DEF MapView, IInv, Sound, Linked
  <2>4. /\ d1.view[v] = r1 /\ (\A w \in View \ {v} : d1.view[w] = view[w])
        /\ d1.out = out /\ d1.seat = seat
    <3>1. view \in [View -> ViewState]
      BY DEF IInv, TypeOK
    <3> HIDE DEF r1
    <3> QED BY <3>1 DEF Desk
  <2> HIDE DEF r1, d1
  <2>5. Sound(d1) /\ Alive(d1, v) /\ Behind(desk, d1)
    <3>1. Connected(d1) = Connected(desk)
      BY <2>4 DEF Connected
    <3>2. Alive(d1, v) /\ (\A w \in View : Alive(desk, w) => Alive(d1, w))
      BY <2>1, <2>4 DEF Alive
    <3>3. Coherent(d1)
      <4>1. seat.focused_view \in MaybeView
        BY DEF IInv, TypeOK, SeatState
      <4> QED BY <2>1, <2>4, <4>1 DEF IInv, Sound, Coherent, MaybeView
    <3>4. Linked(d1)
      BY <2>1, <2>3, <2>4, <3>1, <3>2 DEF IInv, Sound, Linked, Alive
    <3>5. Surfaced(d1)
      BY <2>1, <2>4 DEF IInv, Sound, Surfaced
    <3> QED BY <2>4, <3>2, <3>3, <3>4, <3>5
            DEF IInv, Sound, Guarded, Behind, Held, Plugged
  <2>6. d2 \in Desk /\ Kept(d1, d2)
    BY <2>2, ArrangeType, ArrangeKept
  <2> HIDE DEF d2
  <2>7. d3 \in Desk /\ Kept(d2, d3)
    <3> DEFINE r == [d2.view[v] EXCEPT !.fullscreen = FALSE]
               e == [d2 EXCEPT !.view[v] = r]
    <3>1. d2.view[v] \in ViewState
      BY <2>6 DEF Desk
    <3>2. /\ r \in ViewState
          /\ r.phase = d2.view[v].phase
          /\ r.output = d2.view[v].output
          /\ r.activated = d2.view[v].activated
          /\ r.surface = d2.view[v].surface
      BY <3>1 DEF ViewState
    <3>3. e \in Desk /\ Kept(d2, e)
      BY <2>6, <3>2, PutType, PutKept
    <3> HIDE DEF e
    <3>4. SetFullscreen(e, v, TRUE) \in Desk /\ Kept(e, SetFullscreen(e, v, TRUE))
      BY <3>3, SetFullscreenType, SetFullscreenKept
    <3> QED BY <2>6, <3>3, <3>4, KeptTrans, KeptSame DEF e
  <2> HIDE DEF d3
  <2>8. d4 \in Desk /\ Kept(d3, d4)
    <3>1. d3.view[v] \in ViewState /\ [kind |-> "float", on |-> o] \in Box
      BY <2>7 DEF Desk, Box
    <3>2. \A b \in Box : LET r == [d3.view[v] EXCEPT !.box = b]
                         IN  /\ r \in ViewState
                             /\ r.phase = d3.view[v].phase
                             /\ r.output = d3.view[v].output
                             /\ r.activated = d3.view[v].activated
                             /\ r.surface = d3.view[v].surface
      BY <3>1 DEF ViewState
    <3> QED BY <2>7, <3>1, <3>2, PutType, PutKept, KeptSame
  <2> HIDE DEF d4
  <2>9. Sound(d4) /\ Behind(d1, d4) /\ Alive(d4, v)
    <3>1. Kept(d1, d4)
      BY <2>6, <2>7, <2>8, KeptTrans
    <3> QED BY <2>2, <2>5, <3>1, KeptSound DEF Kept, Alive
  <2>10. d5 \in Desk /\ Sound(d5) /\ Behind(d4, d5)
    BY <2>8, <2>9, FocusViewType, FocusViewSound DEF MaybeView
  <2> HIDE DEF d5
  <2>11. PlayPlain(d5, v) \in Desk /\ Sound(PlayPlain(d5, v))
         /\ Behind(d5, PlayPlain(d5, v))
    BY <2>10, PlayPlainType, PlayPlainKept, KeptSound
  <2>12. Behind(desk, PlayPlain(d5, v))
    BY <2>5, <2>9, <2>10, <2>11, BehindTrans
  <2>13. Commit(PlayPlain(d5, v))
    BY <1>2 DEF MapView, d5, d4, d3, d2, d1, r1
  <2> QED BY <2>11, <2>12, <2>13, CommitSound DEF IInv
<1>3. ASSUME NEW v \in View, NEW next \in MaybeView, UnmapView(v, next)
      PROVE  Sound(desk)' /\ Behind(desk, desk')
  <2> DEFINE r == [view[v] EXCEPT !.phase = "unmapped"]
             d0 == [desk EXCEPT !.view[v] = r]
             d1 == ReleaseGrab(d0, v)
             d2 == PassFocus(d1, v, next)
             d3 == Arrange(d2, {view[v].output})
  <2>1. /\ r \in ViewState /\ r.phase = "unmapped"
        /\ r.output = view[v].output /\ r.activated = view[v].activated
        /\ r.surface = view[v].surface
    <3>1. view[v] \in ViewState
      BY DEF IInv, TypeOK
    <3> QED BY <3>1 DEF ViewState
  <2>2. d0 \in Desk
    BY <2>1, PutType
  <2>3. /\ d0.view[v] = r /\ (\A w \in View \ {v} : d0.view[w] = view[w])
        /\ d0.out = out /\ d0.seat = seat
    <3>1. view \in [View -> ViewState]
      BY DEF IInv, TypeOK
    <3> HIDE DEF r
    <3> QED BY <3>1 DEF Desk
  <2>4. Alive(desk, v) /\ (next \in View => Alive(desk, next))
    <3>1. next \in View => next \in UnmapHeirs(desk, v)
      BY <1>3, FirstOfMember DEF UnmapView
    <3> QED BY <1>3, <3>1 DEF UnmapView, UnmapHeirs, Alive, Mapped
  <2> HIDE DEF r, d0
  <2>5. Sound(d0) /\ Behind(desk, d0) /\ (next \in View => Alive(d0, next))
    <3>1. Connected(d0) = Connected(desk)
      BY <2>3 DEF Connected
    <3>2. \A w \in View : Alive(desk, w) <=> Alive(d0, w)
      BY <2>1, <2>3, <2>4 DEF Alive
    <3>3. Coherent(d0)
      <4>1. seat.focused_view \in MaybeView
        BY DEF IInv, TypeOK, SeatState
      <4> QED BY <2>1, <2>3, <4>1 DEF IInv, Sound, Coherent, MaybeView
    <3>4. Linked(d0)
      BY <2>1, <2>3, <3>1, <3>2 DEF IInv, Sound, Linked
    <3>5. Surfaced(d0)
      BY <2>1, <2>3 DEF IInv, Sound, Surfaced
    <3> QED BY <2>3, <2>4, <3>2, <3>3, <3>4, <3>5
            DEF IInv, Sound, Guarded, Behind, Held, Plugged
  <2>6. /\ d1 \in Desk /\ Sound(d1) /\ Behind(d0, d1)
        /\ next \in View => Alive(d1, next)
    BY <2>2, <2>5, ReleaseGrabType, ReleaseGrabSound DEF Alive
  <2> HIDE DEF d1
  <2>7. d2 \in Desk /\ Sound(d2) /\ Behind(d1, d2)
    BY <2>6, PassFocusType, PassFocusSound
  <2> HIDE DEF d2
  <2>8. d3 \in Desk /\ Sound(d3) /\ Behind(d2, d3)
    BY <2>7, ArrangeType, ArrangeKept, KeptSound
  <2>9. Commit(d3)
    BY <1>3 DEF UnmapView, d2, d1, d0, r
  <2> HIDE DEF d3
  <2>10. Behind(desk, d3)
    BY <2>5, <2>6, <2>7, <2>8, BehindTrans
  <2> QED BY <2>8, <2>9, <2>10, CommitSound DEF IInv
<1>4. ASSUME NEW v \in View, DestroyView(v)
      PROVE  Sound(desk)' /\ Behind(desk, desk')
  <2>1. /\ out' = out
        /\ view' = [view EXCEPT ![v] = Absent]
        /\ seat' = [seat EXCEPT
               !.told = IF @ = v THEN NoView ELSE @,
               !.focused_view = IF @ = v THEN NoView ELSE @,
               !.grabbed = IF @ = v THEN NoView ELSE @,
               !.kb = IF @ = v THEN NoView ELSE @]
    BY <1>4 DEF DestroyView
  <2>2. view \in [View -> ViewState] /\ seat \in SeatState
    BY DEF IInv, TypeOK
  <2>3. /\ view'[v].phase = "absent" /\ view'[v].output = NoOutput
        /\ view'[v].surface
    BY <2>1, <2>2 DEF Absent
  <2>4. \A w \in View \ {v} : view'[w] = view[w]
    BY <2>1, <2>2
  <2>5. /\ seat'.told = IF seat.told = v THEN NoView ELSE seat.told
        /\ seat'.focused_view =
               IF seat.focused_view = v THEN NoView ELSE seat.focused_view
        /\ seat'.grabbed = IF seat.grabbed = v THEN NoView ELSE seat.grabbed
        /\ seat'.kb = IF seat.kb = v THEN NoView ELSE seat.kb
        /\ seat'.focused_output = seat.focused_output
        /\ seat'.lock = seat.lock
    BY <2>1, <2>2 DEF SeatState
  <2>6. Connected(desk') = Connected(desk)
    BY <2>1 DEF desk, Connected
  <2>7. Coherent(desk')
    <3>1. seat.focused_view \in MaybeView
      BY <2>2 DEF SeatState
    <3> QED BY <2>4, <2>5, <3>1 DEF IInv, Sound, Coherent, desk, MaybeView
  <2>8. Linked(desk')
    <3>1. \A w \in {seat'.focused_view, seat'.grabbed, seat'.kb, seat'.told}
                 \cap View : Alive(desk', w)
      BY <2>4, <2>5 DEF IInv, Sound, Linked, Alive, desk
    <3> QED BY <2>3, <2>4, <2>5, <2>6, <3>1 DEF IInv, Sound, Linked, Alive, desk
  <2>9. Plugged(desk, desk')
    BY <2>1 DEF Plugged, desk
  <2>10. Surfaced(desk')
    BY <2>3, <2>4 DEF IInv, Sound, Surfaced, desk
  <2> QED BY <2>5, <2>7, <2>8, <2>9, <2>10
          DEF IInv, Sound, Guarded, Behind, Held, desk
<1>5. ASSUME NEW v \in View, NEW b \in BOOLEAN, RequestFullscreen(v, b)
      PROVE  Sound(desk)' /\ Behind(desk, desk')
  BY <1>5, SetFullscreenType, SetFullscreenKept, KeptCommit DEF RequestFullscreen
<1>6. ASSUME NEW v \in View, NEW b \in BOOLEAN, Activate(v, b)
      PROVE  Sound(desk)' /\ Behind(desk, desk')
  <2> DEFINE d1 == IF b THEN SetMinimized(desk, v, FALSE, NoView) ELSE desk
  <2>1. Alive(desk, v) /\ Commit(FocusView(d1, v))
    BY <1>6 DEF Activate, Alive, Mapped
  <2>2. d1 \in Desk /\ Sound(d1) /\ Behind(desk, d1) /\ Alive(d1, v)
    <3>1. CASE b
      <4>1. NoView \in MaybeView /\ (NoView \in View => Alive(desk, NoView))
        BY DEF MaybeView
      <4>2. /\ Sound(SetMinimized(desk, v, FALSE, NoView))
            /\ Behind(desk, SetMinimized(desk, v, FALSE, NoView))
        BY <2>1, <4>1, SetMinimizedSound DEF IInv
      <4>3. SetMinimized(desk, v, FALSE, NoView) \in Desk
        BY <4>1, SetMinimizedType
      <4>4. Alive(SetMinimized(desk, v, FALSE, NoView), v)
        BY <2>1, RestoreStays DEF Stays, Alive
      <4> QED BY <3>1, <4>2, <4>3, <4>4
    <3>2. CASE ~b
      BY <3>2, <2>1 DEF IInv, Behind, Held, Plugged
    <3> QED BY <3>1, <3>2
  <2> HIDE DEF d1
  <2>3. /\ FocusView(d1, v) \in Desk /\ Sound(FocusView(d1, v))
        /\ Behind(d1, FocusView(d1, v))
    BY <2>2, FocusViewType, FocusViewSound DEF MaybeView
  <2> QED BY <2>1, <2>2, <2>3, BehindTrans, CommitSound DEF IInv
<1> QED BY <1>1, <1>2, <1>3, <1>4, <1>5, <1>6, <1>7 DEF ClientStep

(* What the user and Lua do keeps the invariant. *)
LEMMA UserStepSound ==
    ASSUME IInv, UserStep
    PROVE  Sound(desk)' /\ Behind(desk, desk')
<1> USE DesktopConstants
<1> desk \in Desk /\ desk.view = view /\ desk.out = out /\ desk.seat = seat
  BY DeskType DEF IInv
<1>1. ASSUME NEW v \in View, NEW b \in BOOLEAN, NEW next \in MaybeView,
             RequestMinimize(v, b, next)
      PROVE  Sound(desk)' /\ Behind(desk, desk')
  <2>1. Alive(desk, v) /\ (next \in View => Alive(desk, next))
    <3>1. next \in View => next \in MinimizeHeirs(desk, v)
      BY <1>1, FirstOfMember DEF RequestMinimize
    <3> QED BY <1>1, <3>1 DEF RequestMinimize, MinimizeHeirs, UnmapHeirs, Alive,
                               Mapped
  <2>2. /\ SetMinimized(desk, v, b, next) \in Desk
        /\ Sound(SetMinimized(desk, v, b, next))
        /\ Behind(desk, SetMinimized(desk, v, b, next))
    BY <2>1, SetMinimizedType, SetMinimizedSound DEF IInv
  <2> QED BY <1>1, <2>2, CommitSound DEF RequestMinimize, IInv
<1>2. ASSUME NEW v \in View, Focus(v)
      PROVE  Sound(desk)' /\ Behind(desk, desk')
  <2>1. FocusView(desk, v) \in Desk /\ Sound(FocusView(desk, v))
        /\ Behind(desk, FocusView(desk, v))
    BY <1>2, FocusViewType, FocusViewSound DEF Focus, IInv, MaybeView
  <2> QED BY <1>2, <2>1, CommitSound DEF Focus, IInv
<1>3. ASSUME NEW v \in View, RequestClose(v)
      PROVE  Sound(desk)' /\ Behind(desk, desk')
  BY <1>3, CloseType, CloseKept, KeptCommit DEF RequestClose
<1>4. ASSUME NEW v \in View, BeginGrab(v)
      PROVE  Sound(desk)' /\ Behind(desk, desk')
  <2>1. /\ Alive(desk, v) /\ view' = view /\ out' = out
        /\ seat'.focused_view = seat.focused_view
        /\ seat'.focused_output = seat.focused_output
        /\ seat'.kb = seat.kb /\ seat'.told = seat.told
        /\ seat'.grabbed = v /\ seat'.lock = seat.lock
    BY <1>4 DEF BeginGrab, IInv, TypeOK, SeatState
  <2>2. Connected(desk') = Connected(desk)
    BY <2>1 DEF Connected, desk
  <2>3. Linked(desk')
    BY <2>1, <2>2 DEF IInv, Sound, Linked, Alive, desk
  <2> QED BY <2>1, <2>3 DEF IInv, Sound, Coherent, Guarded, Surfaced, Behind, Held, Plugged, desk
<1>5. ASSUME NEW v \in View, Drag(v) \/ PlaceFloating(v)
      PROVE  Sound(desk)' /\ Behind(desk, desk')
  <2> DEFINE r == [view[v] EXCEPT !.box = [kind |-> "float", on |-> view[v].output]]
             d == [desk EXCEPT !.view[v] = r]
  <2>1. view[v] \in ViewState
    BY DEF IInv, TypeOK
  <2>2. [kind |-> "float", on |-> view[v].output] \in Box
    BY <2>1 DEF ViewState, Box
  <2>3. /\ r \in ViewState
        /\ r.phase = view[v].phase
        /\ r.output = view[v].output
        /\ r.activated = view[v].activated
        /\ r.surface = view[v].surface
    BY <2>1, <2>2 DEF ViewState
  <2>4. d \in Desk /\ Kept(desk, d)
    BY <2>3, PutType, PutKept
  <2>5. Commit(d)
    <3>1. view' = [view EXCEPT ![v] = r] /\ out' = out /\ seat' = seat
      BY <1>5 DEF Drag, PlaceFloating
    <3> HIDE DEF r
    <3> QED BY <3>1 DEF Commit, Desk
  <2> HIDE DEF d
  <2> QED BY <2>4, <2>5, KeptCommit
<1>6. ASSUME NEW v \in View, NEW step, FocusDirection(v, step)
      PROVE  Sound(desk)' /\ Behind(desk, desk')
  <2> DEFINE visible == {w \in View : /\ Mapped(desk, w)
                                      /\ view[w].output = seat.focused_output
                                      /\ OnShownTag(desk, w)}
  <2>1. Following(v, seat.focused_view, visible, older, step)
    BY <1>6 DEF FocusDirection
  <2>2. v \in visible
    <3> HIDE DEF visible
    <3> QED BY <2>1, FollowingMember
  <2>3. Alive(desk, v)
    BY <2>2 DEF Alive, Mapped
  <2>4. FocusView(desk, v) \in Desk /\ Sound(FocusView(desk, v))
        /\ Behind(desk, FocusView(desk, v))
    BY <2>3, FocusViewType, FocusViewSound DEF IInv, MaybeView
  <2>5. Commit(FocusView(desk, v))
    BY <1>6 DEF FocusDirection
  <2> QED BY <2>4, <2>5, CommitSound DEF IInv
<1>7. ASSUME NEW v \in View, NEW b \in BOOLEAN, RequestFloating(v, b)
      PROVE  Sound(desk)' /\ Behind(desk, desk')
  BY <1>7, SetFloatingType, SetFloatingKept, KeptCommit DEF RequestFloating
<1>8. ASSUME NEW v \in View, NEW tags \in SUBSET Tag, RequestTags(v, tags)
      PROVE  Sound(desk)' /\ Behind(desk, desk')
  BY <1>8, SetTagsType, SetTagsKept, KeptCommit DEF RequestTags
<1>9. ASSUME NEW v \in View, NEW o \in Output, MoveToOutput(v, o)
      PROVE  Sound(desk)' /\ Behind(desk, desk')
  <2> DEFINE r == [view[v] EXCEPT !.floating = FALSE, !.output = o]
             d1 == [desk EXCEPT !.view[v] = r]
  <2>1. /\ r \in ViewState /\ r.phase = view[v].phase
        /\ r.output = o /\ r.activated = view[v].activated
        /\ r.surface = view[v].surface
    <3>1. view[v] \in ViewState /\ o \in MaybeOutput
      BY DEF IInv, TypeOK, MaybeOutput
    <3> QED BY <3>1 DEF ViewState
  <2>2. d1 \in Desk
    BY <2>1, PutType
  <2>3. Alive(desk, v) /\ o \in Connected(desk)
    BY <1>9 DEF MoveToOutput, Connected
  <2>4. /\ d1.view[v] = r /\ (\A w \in View \ {v} : d1.view[w] = view[w])
        /\ d1.out = out /\ d1.seat = seat
    <3>1. view \in [View -> ViewState]
      BY DEF IInv, TypeOK
    <3> HIDE DEF r
    <3> QED BY <3>1 DEF Desk
  <2> HIDE DEF r, d1
  <2>5. Sound(d1) /\ Behind(desk, d1)
    <3>1. Connected(d1) = Connected(desk)
      BY <2>4 DEF Connected
    <3>2. \A w \in View : Alive(desk, w) <=> Alive(d1, w)
      BY <2>1, <2>4 DEF Alive
    <3>3. Coherent(d1)
      <4>1. seat.focused_view \in MaybeView
        BY DEF IInv, TypeOK, SeatState
      <4> QED BY <2>1, <2>4, <4>1 DEF IInv, Sound, Coherent, MaybeView
    <3>4. Linked(d1)
      BY <2>1, <2>3, <2>4, <3>1, <3>2 DEF IInv, Sound, Linked
    <3>5. Surfaced(d1)
      BY <2>1, <2>4 DEF IInv, Sound, Surfaced
    <3> QED BY <2>4, <3>3, <3>4, <3>5
            DEF IInv, Sound, Guarded, Behind, Held, Plugged
  <2>6. out[o].tagset \in SUBSET Tag
    BY DEF IInv, TypeOK, OutputState, Tagset
  <2>7. /\ SetTags(d1, v, out[o].tagset) \in Desk
        /\ Kept(d1, SetTags(d1, v, out[o].tagset))
    BY <2>2, <2>6, SetTagsType, SetTagsKept
  <2>8. /\ Sound(SetTags(d1, v, out[o].tagset))
        /\ Behind(desk, SetTags(d1, v, out[o].tagset))
    BY <2>2, <2>5, <2>7, KeptSound, BehindTrans
  <2>9. Commit(SetTags(d1, v, out[o].tagset))
    BY <1>9 DEF MoveToOutput, d1, r
  <2> QED BY <2>7, <2>8, <2>9, CommitSound DEF IInv
<1>10. ASSUME NEW o \in Output, NEW tags \in SUBSET Tag, SwitchTagset(o, tags)
       PROVE  Sound(desk)' /\ Behind(desk, desk')
  BY <1>10, SetTagsetType, SetTagsetKept, KeptCommit DEF SwitchTagset
<1>11. ASSUME NEW o \in Output, NEW step, FocusMonitor(o, step)
       PROVE  Sound(desk)' /\ Behind(desk, desk')
  <2>1. /\ view' = view /\ out' = out
        /\ seat'.focused_view = seat.focused_view
        /\ seat'.focused_output = o
        /\ seat'.kb = seat.kb /\ seat'.told = seat.told
        /\ seat'.grabbed = seat.grabbed /\ seat'.lock = seat.lock
    BY <1>11 DEF FocusMonitor, IInv, TypeOK, SeatState
  <2>2. Connected(desk') = Connected(desk)
    BY <2>1 DEF Connected, desk
  <2>3. o \in Connected(desk)
    BY <1>11, FollowingMember DEF FocusMonitor
  <2>4. Linked(desk')
    BY <2>1, <2>2, <2>3 DEF IInv, Sound, Linked, Alive, desk
  <2> QED BY <2>1, <2>4 DEF IInv, Sound, Coherent, Guarded, Surfaced, Behind, Held, Plugged, desk
<1>12. ASSUME NEW tags, CloseOnTag(tags)
       PROVE  Sound(desk)' /\ Behind(desk, desk')
  BY <1>12, CloseType, CloseKept, KeptCommit DEF CloseOnTag
<1>13. ASSUME EndGrab
       PROVE  Sound(desk)' /\ Behind(desk, desk')
  <2>1. /\ view' = view /\ out' = out
        /\ seat'.focused_view = seat.focused_view
        /\ seat'.focused_output = seat.focused_output
        /\ seat'.kb = seat.kb /\ seat'.told = seat.told
        /\ seat'.grabbed = NoView /\ seat'.lock = seat.lock
    BY <1>13 DEF EndGrab, IInv, TypeOK, SeatState
  <2>2. Connected(desk') = Connected(desk)
    BY <2>1 DEF Connected, desk
  <2>3. Linked(desk')
    BY <2>1, <2>2 DEF IInv, Sound, Linked, Alive, desk
  <2> QED BY <2>1, <2>3 DEF IInv, Sound, Coherent, Guarded, Surfaced, Behind, Held, Plugged, desk
<1>14. ASSUME Reload
       PROVE  Sound(desk)' /\ Behind(desk, desk')
  <2> DEFINE d == Arrange(desk, Connected(desk))
             views == [v \in View |->
                 IF Alive(d, v)
                 THEN [d.view[v] EXCEPT !.activated = seat.focused_view = v,
                                        !.faded = FALSE]
                 ELSE d.view[v]]
             e == [d EXCEPT !.view = views]
  <2>1. d \in Desk /\ Sound(d) /\ Behind(desk, d) /\ d.seat = seat
    <3>1. d \in Desk /\ Kept(desk, d)
      BY ArrangeType, ArrangeKept
    <3> QED BY <3>1, KeptSound DEF IInv, Kept
  <2>2. Commit(e)
    BY <1>14 DEF Reload
  <2> HIDE DEF d
  <2>3. \A v \in View : /\ views[v] \in ViewState
                        /\ views[v].phase = d.view[v].phase
                        /\ views[v].output = d.view[v].output
                        /\ views[v].surface = d.view[v].surface
                        /\ Alive(d, v) /\ v = seat.focused_view
                              => views[v].activated
    <3>1. \A v \in View : d.view[v] \in ViewState
      BY <2>1 DEF Desk
    <3>2. \A r \in ViewState : \A b \in BOOLEAN :
              LET s == [r EXCEPT !.activated = b, !.faded = FALSE]
              IN  /\ s \in ViewState /\ s.phase = r.phase
                  /\ s.output = r.output /\ s.surface = r.surface
                  /\ b => s.activated
      BY DEF ViewState
    <3> SUFFICES ASSUME NEW v \in View
                 PROVE  /\ views[v] \in ViewState
                        /\ views[v].phase = d.view[v].phase
                        /\ views[v].output = d.view[v].output
                        /\ views[v].surface = d.view[v].surface
                        /\ Alive(d, v) /\ v = seat.focused_view
                              => views[v].activated
      OBVIOUS
    <3>3. CASE ~Alive(d, v)
      BY <3>1, <3>3
    <3>4. CASE Alive(d, v)
      <4> DEFINE b == seat.focused_view = v
                 s == [d.view[v] EXCEPT !.activated = b, !.faded = FALSE]
      <4>1. views[v] = s
        BY <3>4
      <4>2. b \in BOOLEAN /\ (v = seat.focused_view => b)
        OBVIOUS
      <4>3. d.view[v] \in ViewState
        BY <3>1
      <4>4. /\ s \in ViewState /\ s.phase = d.view[v].phase
            /\ s.output = d.view[v].output /\ s.surface = d.view[v].surface
            /\ b => s.activated
        <5> HIDE DEF b
        <5> QED BY <3>2, <4>2, <4>3
      <4> HIDE DEF s, views
      <4> QED BY <4>1, <4>2, <4>4
    <3> QED BY <3>3, <3>4
  <2>4. views \in [View -> ViewState]
    BY <2>3
  <2> HIDE DEF views
  <2>5. /\ e \in Desk /\ e.view = views /\ e.out = d.out /\ e.seat = d.seat
    BY <2>1, <2>4 DEF Desk
  <2> HIDE DEF e
  <2>6. Connected(e) = Connected(d) /\ (\A v \in View : Alive(e, v) <=> Alive(d, v))
    BY <2>3, <2>5 DEF Connected, Alive
  <2>7. Coherent(e)
    <3>1. seat.focused_view \in MaybeView
      BY DEF IInv, TypeOK, SeatState
    <3> QED BY <2>1, <2>3, <2>5, <3>1 DEF Sound, Coherent, Linked, MaybeView
  <2>8. Linked(e)
    BY <2>1, <2>3, <2>5, <2>6 DEF Sound, Linked
  <2>9. Sound(e) /\ Behind(desk, e)
    BY <2>1, <2>3, <2>5, <2>7, <2>8
    DEF Sound, Guarded, Surfaced, Behind, Held, Plugged
  <2> QED BY <2>2, <2>5, <2>9, CommitSound DEF IInv
<1> QED BY <1>1, <1>2, <1>3, <1>4, <1>5, <1>6, <1>7, <1>8, <1>9, <1>10, <1>11,
           <1>12, <1>13, <1>14
        DEF UserStep, Tagset

(* Only the destruction of an output unplugs one. *)
Unplug == \E o \in Output, to \in MaybeOutput : DestroyOutput(o, to)

(* Hotplug, mode changes and frames keep the invariant. *)
LEMMA OutputStepSound ==
    ASSUME IInv, OutputStep
    PROVE  Sound(desk)' /\ Held(desk, desk') /\ (Plugged(desk, desk') \/ Unplug)
<1> USE DesktopConstants
<1> desk \in Desk /\ desk.view = view /\ desk.out = out /\ desk.seat = seat
  BY DeskType DEF IInv
<1>1. ASSUME NEW o \in Output, NEW sync \in BOOLEAN, ConnectOutput(o, sync)
      PROVE  Sound(desk)' /\ Behind(desk, desk')
  <2> DEFINE d == Arrange(desk, Connected(desk))
             new == [Disconnected EXCEPT !.connected = TRUE, !.sync = sync]
             e == [d EXCEPT !.out[o] = new,
                            !.seat.focused_output = IF @ = NoOutput THEN o ELSE @]
  <2>1. d \in Desk /\ Sound(d) /\ Behind(desk, d) /\ d.seat = seat
    <3>1. d \in Desk /\ Kept(desk, d)
      BY ArrangeType, ArrangeKept
    <3> QED BY <3>1, KeptSound DEF IInv, Kept
  <2>2. Commit(e)
    BY <1>1 DEF ConnectOutput
  <2>3. new \in OutputState /\ new.connected
    BY DEF Disconnected, OutputState, Tagset
  <2> HIDE DEF d, new
  <2>4. e \in Desk
    BY <2>1, <2>3 DEF Desk, SeatState, MaybeOutput
  <2>5. /\ e.view = d.view /\ e.out = [d.out EXCEPT ![o] = new]
        /\ e.seat = [d.seat EXCEPT !.focused_output = IF @ = NoOutput THEN o ELSE @]
    BY <2>1 DEF Desk
  <2>6. /\ e.seat.focused_view = d.seat.focused_view
        /\ e.seat.focused_output = IF d.seat.focused_output = NoOutput
                                   THEN o ELSE d.seat.focused_output
        /\ e.seat.kb = d.seat.kb /\ e.seat.told = d.seat.told
        /\ e.seat.grabbed = d.seat.grabbed /\ e.seat.lock = d.seat.lock
    <3>1. d.seat \in SeatState
      BY <2>1 DEF Desk
    <3> QED BY <2>5, <3>1 DEF SeatState
  <2> HIDE DEF e
  <2>7. Connected(e) = Connected(d) \cup {o}
    <3>1. d.out \in [Output -> OutputState]
      BY <2>1 DEF Desk
    <3> QED BY <2>3, <2>5, <3>1 DEF Connected
  <2>8. Linked(e)
    BY <2>1, <2>5, <2>6, <2>7 DEF Sound, Linked, Alive
  <2>9. Plugged(desk, e)
    <3>1. Connected(desk) = Connected(d)
      BY ArrangeKept DEF Kept, Connected, d
    <3> QED BY <2>7, <3>1 DEF Plugged, Connected
  <2>10. Sound(e) /\ Behind(desk, e)
    BY <2>1, <2>5, <2>6, <2>8, <2>9 DEF Sound, Coherent, Guarded, Surfaced, Behind, Held
  <2> QED BY <2>2, <2>4, <2>10, CommitSound DEF IInv
<1>2. ASSUME NEW o \in Output, NEW to \in MaybeOutput, DestroyOutput(o, to)
      PROVE  Sound(desk)' /\ Held(desk, desk') /\ Unplug
  <2> DEFINE moved == {v \in View : Alive(desk, v) /\ view[v].output = o}
             views == [v \in View |->
                          IF v \in moved THEN Migrate(view[v], to) ELSE view[v]]
             d1 == [desk EXCEPT !.view = views]
             f == seat.focused_view
             homeless == f # NoView /\ d1.view[f].output = NoOutput
             d2 == [d1 EXCEPT !.out[o] = Disconnected,
                              !.seat.focused_output = Replaced(@, o, to),
                              !.seat.focused_view = IF homeless THEN NoView ELSE @]
  <2>1. \A v \in View : /\ Migrate(view[v], to) \in ViewState
                        /\ Migrate(view[v], to).phase = view[v].phase
                        /\ Migrate(view[v], to).output = to
                        /\ Migrate(view[v], to).activated = view[v].activated
                        /\ Migrate(view[v], to).surface = view[v].surface
    <3> SUFFICES ASSUME NEW v \in View
                 PROVE  /\ Migrate(view[v], to) \in ViewState
                        /\ Migrate(view[v], to).phase = view[v].phase
                        /\ Migrate(view[v], to).output = to
                        /\ Migrate(view[v], to).activated = view[v].activated
                        /\ Migrate(view[v], to).surface = view[v].surface
      OBVIOUS
    <3>1. view[v] \in ViewState
      BY DEF IInv, TypeOK
    <3>2. \A t \in Tagset :
             LET r == [view[v] EXCEPT !.output = to, !.floating = FALSE,
                                      !.tags = t, !.shown = TRUE]
             IN  /\ r \in ViewState /\ r.phase = view[v].phase
                 /\ r.output = to /\ r.activated = view[v].activated
                 /\ r.surface = view[v].surface
      BY <3>1 DEF ViewState
    <3>3. to # NoOutput => out[to].tagset \in Tagset
      BY DEF IInv, TypeOK, OutputState, MaybeOutput
    <3>4. LET r == [view[v] EXCEPT !.output = NoOutput]
          IN  /\ r \in ViewState /\ r.phase = view[v].phase
              /\ r.output = NoOutput /\ r.activated = view[v].activated
              /\ r.surface = view[v].surface
      BY <3>1 DEF ViewState, MaybeOutput
    <3> QED BY <3>2, <3>3, <3>4 DEF Migrate
  <2>2. \A v \in View : /\ views[v] \in ViewState
                        /\ views[v].phase = view[v].phase
                        /\ views[v].output =
                               IF v \in moved THEN to ELSE view[v].output
                        /\ views[v].activated = view[v].activated
                        /\ views[v].surface = view[v].surface
    BY <2>1 DEF IInv, TypeOK
  <2>3. d1 \in Desk /\ d1.view = views /\ d1.out = out /\ d1.seat = seat
    <3>1. views \in [View -> ViewState]
      BY <2>2
    <3> HIDE DEF views
    <3> QED BY <3>1 DEF Desk
  <2> HIDE DEF views, d1
  <2>4. /\ \A w \in Output : d1.out[w].connected = out[w].connected
        /\ \A v \in View : /\ d1.view[v].phase = view[v].phase
                           /\ d1.view[v].output =
                                 IF v \in moved THEN to ELSE view[v].output
                           /\ d1.view[v].activated = view[v].activated
                           /\ d1.view[v].surface = view[v].surface
    <3> HIDE DEF moved
    <3> QED BY <2>2, <2>3
  <2>5. Commit(Arrange(d2, {to}))
    BY <1>2 DEF DestroyOutput, d1, views
  <2> HIDE DEF homeless
  <2>7. d2 \in Desk
    <3>1. Disconnected \in OutputState
      BY DEF Disconnected, OutputState, Tagset
    <3> QED BY <2>3, <3>1 DEF Desk, SeatState, MaybeView, MaybeOutput, Replaced
  <2>8. /\ d2.view = d1.view /\ d2.out = [d1.out EXCEPT ![o] = Disconnected]
        /\ d2.seat = [seat EXCEPT
               !.focused_output = Replaced(@, o, to),
               !.focused_view = IF homeless THEN NoView ELSE @]
    BY <2>3, <2>4 DEF Desk
  <2>9. /\ d2.seat.focused_view = IF homeless THEN NoView ELSE f
        /\ d2.seat.focused_output = Replaced(seat.focused_output, o, to)
        /\ d2.seat.kb = seat.kb /\ d2.seat.told = seat.told
        /\ d2.seat.grabbed = seat.grabbed /\ d2.seat.lock = seat.lock
    <3>1. seat \in SeatState
      BY DEF IInv, TypeOK
    <3> DEFINE fo == Replaced(seat.focused_output, o, to)
               fv == IF homeless THEN NoView ELSE f
    <3>2. d2.seat = [seat EXCEPT !.focused_output = fo, !.focused_view = fv]
      BY <2>8
    <3> HIDE DEF d2, fo, fv
    <3>3. /\ d2.seat.focused_view = fv /\ d2.seat.focused_output = fo
          /\ d2.seat.kb = seat.kb /\ d2.seat.told = seat.told
          /\ d2.seat.grabbed = seat.grabbed /\ d2.seat.lock = seat.lock
      BY <3>1, <3>2 DEF SeatState
    <3> QED BY <3>3 DEF fo, fv
  <2> HIDE DEF d2
  <2>10. Connected(d2) = Connected(desk) \ {o}
    <3>1. d1.out \in [Output -> OutputState]
      BY <2>3 DEF Desk
    <3> QED BY <2>4, <2>8, <3>1 DEF Connected, Disconnected
  <2>11. /\ to \in Connected(d2) \cup {NoOutput}
         /\ to = NoOutput <=> Connected(d2) = {}
    <3>1. FirstOf(to, Connected(desk) \ {o}, older, NoOutput)
      BY <1>2 DEF DestroyOutput
    <3> QED BY <2>10, <3>1 DEF FirstOf, Connected
  <2>12. o \in Connected(desk)
    BY <1>2 DEF DestroyOutput, Connected
  <2>13. \A v \in View : /\ d2.view[v].phase = view[v].phase
                         /\ d2.view[v].activated = view[v].activated
                         /\ d2.view[v].surface = view[v].surface
                         /\ d2.view[v].output =
                               IF v \in moved THEN to ELSE view[v].output
    <3>1. d2.view = d1.view
      BY <2>8
    <3> HIDE DEF moved, d2
    <3> QED BY <2>4, <3>1
  <2>14. Linked(d2)
    <3>1. \A v \in {d2.seat.focused_view, d2.seat.grabbed, d2.seat.kb,
                    d2.seat.told} \cap View : Alive(d2, v)
      <4> HIDE DEF moved
      <4> QED BY <2>9, <2>13 DEF IInv, Sound, Linked, Alive
    <3>2. \A v \in View : ~Alive(d2, v) => d2.view[v].output = NoOutput
      BY <2>13 DEF IInv, Sound, Linked, Alive
    <3>3. \A v \in View : d2.view[v].output \in Connected(d2) \cup {NoOutput}
      <4> SUFFICES ASSUME NEW v \in View
                   PROVE  d2.view[v].output \in Connected(d2) \cup {NoOutput}
        OBVIOUS
      <4>1. CASE v \in moved
        <5> HIDE DEF moved
        <5> QED BY <4>1, <2>11, <2>13
      <4>2. CASE v \notin moved
        <5>1. view[v].output # o
          BY <4>2, <2>12 DEF IInv, Sound, Linked, Alive, Connected
        <5> QED BY <4>2, <5>1, <2>10, <2>13 DEF IInv, Sound, Linked
      <4> QED BY <4>1, <4>2
    <3>4. /\ d2.seat.focused_output \in Connected(d2) \cup {NoOutput}
          /\ d2.seat.focused_output = NoOutput <=> Connected(d2) = {}
      <4>1. CASE seat.focused_output = o
        BY <4>1, <2>9, <2>11 DEF Replaced
      <4>2. CASE seat.focused_output # o
        <5>1. /\ seat.focused_output \in Connected(desk)
              /\ seat.focused_output # NoOutput
          BY <2>12 DEF IInv, Sound, Linked
        <5> QED BY <4>2, <5>1, <2>9, <2>10 DEF Replaced
      <4> QED BY <4>1, <4>2
    <3> QED BY <3>1, <3>2, <3>3, <3>4 DEF Linked
  <2>15. Coherent(d2)
    <3>1. f \in MaybeView
      BY DEF IInv, TypeOK, SeatState
    <3> QED BY <2>9, <2>13, <3>1 DEF IInv, Sound, Coherent, MaybeView
  <2>16. Sound(d2) /\ Held(desk, d2)
    BY <2>9, <2>13, <2>14, <2>15 DEF IInv, Sound, Guarded, Surfaced, Held
  <2>17. Arrange(d2, {to}) \in Desk /\ Kept(d2, Arrange(d2, {to}))
    BY <2>7, ArrangeType, ArrangeKept
  <2> QED
    <3> HIDE DEF moved
    <3> DEFINE e == Arrange(d2, {to})
    <3>1. Sound(e) /\ Held(d2, e)
      BY <2>7, <2>16, <2>17, KeptSound DEF Behind
    <3>2. Unplug
      BY <1>2 DEF Unplug
    <3> HIDE DEF e
    <3>3. desk'.view = e.view /\ desk'.out = e.out /\ desk'.seat = e.seat
      BY <2>5 DEF Commit, desk, e
    <3>4. Sound(desk')
      BY <3>1, <3>3 DEF Sound, Coherent, Linked, Guarded, Surfaced, Alive, Connected
    <3> QED BY <2>16, <3>1, <3>2, <3>3, <3>4 DEF Held
<1>3. ASSUME RequestState
      PROVE  Sound(desk)' /\ Behind(desk, desk')
  BY <1>3, ArrangeType, ArrangeKept, KeptCommit DEF RequestState
<1>5. ASSUME NEW o \in Output, ArrangeOutput(o)
      PROVE  Sound(desk)' /\ Behind(desk, desk')
  BY <1>5, ArrangeType, ArrangeKept, KeptCommit DEF ArrangeOutput
<1>4. ASSUME NEW v \in View, FinishAnim(v)
      PROVE  Sound(desk)' /\ Behind(desk, desk')
  <2>1. /\ out' = out /\ seat' = seat
        /\ view'[v].phase = view[v].phase
        /\ view'[v].output = view[v].output
        /\ view'[v].activated = view[v].activated
        /\ view'[v].surface = view[v].surface
        /\ \A w \in View \ {v} : view'[w] = view[w]
    <3>1. view \in [View -> ViewState] /\ view[v] \in ViewState
      BY DEF IInv, TypeOK
    <3>2. \A a, b, c, d : LET r == [view[v] EXCEPT !.anim = a, !.shown = b,
                                         !.faded = c, !.closing = d]
                         IN  /\ r.phase = view[v].phase
                             /\ r.output = view[v].output
                             /\ r.activated = view[v].activated
                             /\ r.surface = view[v].surface
      BY <3>1 DEF ViewState
    <3> QED BY <1>4, <3>1, <3>2 DEF FinishAnim
  <2>2. Kept(desk, desk')
    BY <2>1 DEF Kept, desk
  <2> QED BY <2>2, KeptSound DEF IInv
<1> QED BY <1>1, <1>2, <1>3, <1>4, <1>5 DEF OutputStep, Behind

(* What a step may do to focus while the session is and stays locked. *)
FocusHeld ==
    seat.lock # "none" /\ seat'.lock # "none"
        => seat'.focused_view \in {seat.focused_view, NoView}

(* Locking, unlocking and a crash of the lock client keep the invariant. *)
LEMMA LockStepSound ==
    ASSUME IInv, LockStep
    PROVE  Sound(desk)' /\ FocusHeld /\ Plugged(desk, desk')
<1> USE DesktopConstants
<1> desk \in Desk /\ desk.view = view /\ desk.out = out /\ desk.seat = seat
  BY DeskType DEF IInv
<1>1. ASSUME Lock \/ MapLockSurface \/ DestroyLockSurface \/ CrashLock
      PROVE  Sound(desk)' /\ FocusHeld /\ Plugged(desk, desk')
  <2>1. seat \in SeatState
    BY DEF IInv, TypeOK
  <2>2. /\ view' = view /\ out' = out
        /\ seat'.focused_view = seat.focused_view
        /\ seat'.focused_output = seat.focused_output
        /\ seat'.told = seat.told /\ seat'.grabbed = seat.grabbed
    BY <1>1, <2>1 DEF Lock, MapLockSurface, DestroyLockSurface, CrashLock, SeatState
  <2>3. /\ seat'.kb \in {seat.kb, NoView, LockSurface}
        /\ seat'.kb = seat.kb \/ seat.lock # "none" \/ seat'.lock # "none"
              \/ seat.kb = LockSurface
        /\ seat'.lock # "none" /\ seat.lock = "none" => seat'.kb \notin View
        /\ seat'.lock = "none" => seat.lock = "none"
    BY <1>1, <2>1 DEF Lock, MapLockSurface, DestroyLockSurface, CrashLock, SeatState
  <2>4. Connected(desk') = Connected(desk)
    BY <2>2 DEF Connected, desk
  <2>5. Linked(desk')
    BY <2>2, <2>3, <2>4 DEF IInv, Sound, Linked, Alive, desk
  <2>6. Coherent(desk')
    <3>1. seat.focused_view \in MaybeView
      BY <2>1 DEF SeatState
    <3> QED BY <2>2, <2>3, <3>1 DEF IInv, Sound, Coherent, desk, MaybeView
  <2>7. Guarded(desk') /\ Surfaced(desk')
    BY <2>2, <2>3 DEF IInv, Sound, Guarded, Surfaced, desk
  <2> QED BY <2>2, <2>5, <2>6, <2>7 DEF Sound, FocusHeld, Plugged, desk
<1>2. ASSUME Unlock
      PROVE  Sound(desk)' /\ FocusHeld /\ Plugged(desk, desk')
  <2> DEFINE f == seat.focused_view
             d1 == [desk EXCEPT !.seat.lock = "none"]
             d2 == SetFocused(d1, f, TRUE)
             got == EnteredBy(d1, f)
             d3 == IF f = NoView THEN d1 ELSE [d2 EXCEPT !.seat.kb = got]
  <2>1. /\ d1 \in Desk /\ d1.view = view /\ d1.out = out
        /\ d1.seat = [seat EXCEPT !.lock = "none"]
    BY DEF Desk, SeatState
  <2>2. f \in MaybeView /\ seat \in SeatState
    BY DEF IInv, TypeOK, SeatState
  <2>3. Commit(d3)
    BY <1>2 DEF Unlock
  <2>k. f # NoView => /\ got \in {f, seat.kb}
                      /\ NoneBare => got = f
    BY <2>1, <2>2 DEF EnteredBy, IInv, Sound, Surfaced, MaybeView, SeatState
  <2> HIDE DEF d1, got
  <2>4. f # NoView => /\ f \in View /\ d2 \in Desk /\ d2.seat = d1.seat
                      /\ Stays(d1, d2) /\ d2.view[f].activated
    BY <2>1, <2>2, SetFocusedType, SetFocusedStays DEF MaybeView
  <2> HIDE DEF d2
  <2>5. /\ Stays(d1, d3)
        /\ f # NoView => d3.view[f].activated
        /\ d3.seat = [seat EXCEPT !.lock = "none",
                                  !.kb = IF f = NoView THEN @ ELSE got]
    <3>1. CASE f = NoView
      <4>1. [seat EXCEPT !.lock = "none"]
               = [seat EXCEPT !.lock = "none", !.kb = @]
        BY <2>2 DEF SeatState
      <4> QED BY <2>1, <3>1, <4>1, StaysSeat
    <3>2. CASE f # NoView
      <4>1. /\ d3.view = d2.view /\ d3.out = d2.out
            /\ d3.seat = [d2.seat EXCEPT !.kb = got]
        BY <2>4, <3>2 DEF Desk
      <4>2. [[seat EXCEPT !.lock = "none"] EXCEPT !.kb = got]
               = [seat EXCEPT !.lock = "none", !.kb = got]
        BY <2>2 DEF SeatState
      <4>3. Stays(d1, d3)
        BY <2>4, <3>2, <4>1, StaysSeat, StaysTrans
      <4> QED BY <2>1, <2>4, <3>2, <4>1, <4>2, <4>3
    <3> QED BY <3>1, <3>2
  <2>6. /\ d3.seat.focused_view = f /\ d3.seat.told = seat.told
        /\ d3.seat.focused_output = seat.focused_output
        /\ d3.seat.grabbed = seat.grabbed /\ d3.seat.lock = "none"
        /\ d3.seat.kb = IF f = NoView THEN seat.kb ELSE got
    <3> DEFINE kb == IF f = NoView THEN seat.kb ELSE got
    <3>1. d3.seat = [seat EXCEPT !.lock = "none", !.kb = kb]
      BY <2>5
    <3> HIDE DEF d3, kb
    <3>2. /\ d3.seat.focused_view = f /\ d3.seat.told = seat.told
          /\ d3.seat.focused_output = seat.focused_output
          /\ d3.seat.grabbed = seat.grabbed /\ d3.seat.lock = "none"
          /\ d3.seat.kb = kb
      BY <2>2, <3>1 DEF SeatState
    <3> QED BY <3>2 DEF kb
  <2> HIDE DEF d3
  <2>7. Connected(d3) = Connected(desk)
    BY <2>1, <2>5 DEF Stays, Connected
  <2>8. \A v \in View : /\ d3.view[v].phase = view[v].phase
                        /\ d3.view[v].output = view[v].output
                        /\ d3.view[v].surface = view[v].surface
    BY <2>1, <2>5 DEF Stays
  <2>9. Linked(d3)
    BY <2>6, <2>7, <2>8, <2>k DEF IInv, Sound, Linked, Alive
  <2>10. Sound(d3)
    BY <2>5, <2>6, <2>8, <2>9, <2>k DEF IInv, Sound, Coherent, Guarded, Surfaced
  <2>11. desk'.view = d3.view /\ desk'.out = d3.out /\ desk'.seat = d3.seat
    BY <2>3 DEF Commit, desk
  <2>12. Sound(desk')
    BY <2>10, <2>11 DEF Sound, Coherent, Linked, Guarded, Surfaced, Alive, Connected
  <2>13. seat'.lock = "none"
    BY <2>3, <2>6 DEF Commit
  <2>14. Plugged(desk, desk')
    BY <2>1, <2>5, <2>11 DEF Plugged, Stays
  <2> QED BY <2>12, <2>13, <2>14 DEF FocusHeld
<1> QED BY <1>1, <1>2 DEF LockStep

(* Every step keeps IInv, and moves no focus behind the lock; one that unplugs
   an output is its destruction.                                             *)
LEMMA StepSound ==
    ASSUME IInv, [Next]_vars
    PROVE  Sound(desk)' /\ FocusHeld /\ (Plugged(desk, desk') \/ Unplug)
<1>1. Held(desk, desk') => FocusHeld
  BY DEF Held, FocusHeld, desk
<1>2. CASE UNCHANGED vars
  <2>1. desk' = desk /\ seat' = seat
    BY <1>2 DEF vars, desk
  <2> QED BY <2>1 DEF IInv, FocusHeld, Plugged
<1>3. CASE ClientStep \/ UserStep
  BY <1>1, <1>3, ClientStepSound, UserStepSound DEF Behind
<1> QED BY <1>1, <1>2, <1>3, OutputStepSound, LockStepSound DEF Next

(* IInv is an invariant. *)
LEMMA Inductive == Spec => []IInv
<1>1. Init => IInv
  <2>1. ASSUME Init PROVE TypeOK
    BY <2>1, InitType
  <2>2. ASSUME Init PROVE Sound(desk)
    BY <2>2, DesktopConstants DEF Init, Sound, Coherent, Linked, Guarded, Surfaced, Alive,
       Connected, desk, Absent, Disconnected
  <2> QED BY <2>1, <2>2 DEF IInv
<1>2. IInv /\ [Next]_vars => IInv'
  BY StepType, StepSound DEF IInv
<1> QED BY <1>1, <1>2, PTL DEF Spec

-----------------------------------------------------------------------------
(* Theorems *)

(* The client's activated state and the last client::focus name the focused
   view, after any sequence of handlers, X11 windows without a surface among
   the views or not.                                                         *)
THEOREM FocusIsAnnounced == Spec => []FocusAnnounced
<1>1. IInv => FocusAnnounced
  BY DEF IInv, Sound, Coherent, FocusAnnounced, desk
<1> QED BY <1>1, Inductive, PTL

(* So does the keyboard, where no window can be focused before it has a surface
   or after it lost it.                                                      *)
THEOREM FocusIsCoherent ==
    ASSUME NoneBare
    PROVE  Spec => []FocusCoherent
<1>1. IInv => FocusCoherent
  BY DEF IInv, Sound, Coherent, FocusAnnounced, FocusCoherent, desk
<1> QED BY <1>1, Inductive, PTL

(* No pointer between views, outputs and the seat outlives its target. *)
THEOREM PointersLive == Spec => []NoDangling
<1>1. IInv => NoDangling
  BY DEF IInv, Sound, Linked, NoDangling, desk
<1> QED BY <1>1, Inductive, PTL

(* While the session is locked, its lock client crashed or not, no window has
   the keyboard.                                                             *)
THEOREM LockHoldsKeyboard == Spec => []LockKeepsKeyboard
<1>1. IInv => LockKeepsKeyboard
  BY DEF IInv, Sound, Guarded, LockKeepsKeyboard, desk
<1> QED BY <1>1, Inductive, PTL

(* Focus never moves to another window behind the lock. *)
THEOREM LockHoldsFocus == Spec => LockKeepsFocus
<1>1. IInv /\ [Next]_vars
        => [seat.lock # "none" /\ seat'.lock # "none"
              => seat'.focused_view \in {seat.focused_view, NoView}]_vars
  BY StepSound DEF FocusHeld
<1> QED BY <1>1, Inductive, PTL DEF Spec, LockKeepsFocus
=============================================================================
