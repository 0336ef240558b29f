------------------------ MODULE DesktopLayout_proof ------------------------
(* The layout, the scene and adaptive sync keep up with the windows, for any
   number of views, outputs and tags.  What a helper leaves to be arranged is
   named by outputs: a desk is tidy but for those, and arrange() of them makes
   it tidy again.                                                           *)
EXTENDS Desktop_proof

(* The requests that are known to leave something behind are left out, each
   from the properties it breaks: client:move_to_output does not arrange the
   output a window leaves...                                                *)
Rearranges == "move" \notin Requests

(* ... a monitor rule turns the sync of a new output on, which is not arranged
   when it joins...                                                          *)
Decides == Rearranges /\ "sync" \notin Requests

(* ... a drag goes on with a window that was tiled meanwhile... *)
Ungrabbed == "grab" \notin Requests

(* ... and new tags do not stop the slide that disables a window's node. *)
Steady == {"tags", "move", "unplug"} \cap Requests = {}

-----------------------------------------------------------------------------
(* What tiles and what shows *)

(* From d to e no view changes in what decides whether it shows or tiles. *)
SameRole(r, s) ==
    /\ s.phase = r.phase /\ s.output = r.output /\ s.tags = r.tags
    /\ s.minimized = r.minimized /\ s.floating = r.floating
    /\ s.fullscreen = r.fullscreen

SameLayout(d, e) ==
    /\ \A v \in View : SameRole(d.view[v], e.view[v])
    /\ \A o \in Output : e.out[o].tagset = d.out[o].tagset

(* Then the same views show and tile. *)
LEMMA SameSets ==
    ASSUME NEW d \in Desk, NEW e \in Desk, SameLayout(d, e)
    PROVE  /\ \A v \in View : /\ Mapped(e, v) <=> Mapped(d, v)
                              /\ OnShownTag(e, v) <=> OnShownTag(d, v)
           /\ \A o : Showing(e, o) = Showing(d, o) /\ Tiled(e, o) = Tiled(d, o)
<1>1. ASSUME NEW v \in View
      PROVE  /\ Mapped(e, v) <=> Mapped(d, v)
             /\ OnShownTag(e, v) <=> OnShownTag(d, v)
  <2>1. d.view[v].output \in MaybeOutput /\ SameRole(d.view[v], e.view[v])
    BY DEF Desk, ViewState, SameLayout
  <2>2. ASSUME d.view[v].output \in Output
        PROVE  e.out[d.view[v].output].tagset = d.out[d.view[v].output].tagset
    BY <2>2 DEF SameLayout
  <2> QED BY <2>1, <2>2 DEF SameRole, Mapped, OnShownTag, MaybeOutput
<1>2. ASSUME NEW o PROVE Showing(e, o) = Showing(d, o)
  BY <1>1 DEF Showing, SameLayout, SameRole
<1>3. ASSUME NEW o PROVE Tiled(e, o) = Tiled(d, o)
  BY <1>2 DEF Tiled, Showing, SameLayout, SameRole
<1> QED BY <1>1, <1>2, <1>3

(* Keeping the layout composes. *)
LEMMA SameTrans ==
    ASSUME NEW a, NEW b, NEW c, SameLayout(a, b), SameLayout(b, c)
    PROVE  SameLayout(a, c)
  BY DEF SameLayout, SameRole

(* Nothing shows without an output. *)
LEMMA NowhereShown ==
    ASSUME NEW d PROVE Showing(d, NoOutput) = {} /\ Tiled(d, NoOutput) = {}
  BY DEF Showing, Tiled, OnShownTag

-----------------------------------------------------------------------------
(* Tidy *)

SyncAt(d, o) ==
    d.out[o].sync <=> \E v \in View : Showing(d, o) = {v} /\ d.seat.focused_view = v

(* A view that keeps its slot under fullscreen comes back to the tiling. *)
LaidAt(d, o) ==
    /\ Tiled(d, o) \subseteq d.out[o].laid
    /\ \A v \in d.out[o].laid \ Tiled(d, o) :
          v \in Showing(d, o) /\ d.view[v].fullscreen /\ ~d.view[v].floating

SlotAt(d, v) ==
    v \in Tiled(d, d.view[v].output)
    => d.view[v].box = [kind |-> "slot", on |-> d.view[v].output]

ShownAt(d, v) ==
    Mapped(d, v) /\ d.view[v].output # NoOutput
    => (d.view[v].shown <=> v \in Showing(d, d.view[v].output))

EnabledAt(d, v) == v \in Showing(d, d.view[v].output) => d.view[v].shown

ViewFresh(d, v) ==
    /\ Ungrabbed => SlotAt(d, v)
    /\ ~AnimEnabled => ShownAt(d, v)
    /\ EnabledAt(d, v) \/ ~Steady

(* The outputs and the views of outputs outside X are as arrange() would leave
   them.                                                                     *)
SyncTidy(d, X) == Decides => \A o \in Output \ X : SyncAt(d, o)
LaidTidy(d, X) == Rearranges => \A o \in Output \ X : LaidAt(d, o)
ViewsTidy(d, X) == \A v \in View : d.view[v].output \notin X => ViewFresh(d, v)
Tidy(d, X) == SyncTidy(d, X) /\ LaidTidy(d, X) /\ ViewsTidy(d, X)

(* A view that does not show is as it should be, unless its node is on. *)
LEMMA UnshownFresh ==
    ASSUME NEW d, NEW v \in View, ~Mapped(d, v) \/ d.view[v].output = NoOutput
    PROVE  ViewFresh(d, v)
<1>1. v \notin Showing(d, d.view[v].output) /\ v \notin Tiled(d, d.view[v].output)
  BY NowhereShown DEF Showing, Tiled
<1> QED BY <1>1 DEF ViewFresh, SlotAt, ShownAt, EnabledAt

(* There is nothing to arrange without an output. *)
LEMMA NowhereTidy ==
    ASSUME NEW d, NEW X, Tidy(d, X), NEW Y, X \subseteq Y \cup {NoOutput}
    PROVE  Tidy(d, Y)
<1>1. SyncTidy(d, Y) /\ LaidTidy(d, Y)
  BY DesktopConstants DEF Tidy, SyncTidy, LaidTidy
<1>2. ASSUME NEW v \in View, d.view[v].output \notin Y PROVE ViewFresh(d, v)
  <2>1. CASE d.view[v].output = NoOutput
    BY <2>1, UnshownFresh
  <2>2. CASE d.view[v].output # NoOutput
    BY <1>2, <2>2 DEF Tidy, ViewsTidy
  <2> QED BY <2>1, <2>2
<1> QED BY <1>1, <1>2 DEF Tidy, ViewsTidy

(* From d to e the layout stays: no tiled view moves, and nodes are only
   enabled, by animations.                                                   *)
Light(d, e) ==
    /\ SameLayout(d, e)
    /\ \A o \in Output : e.out[o].laid = d.out[o].laid
    /\ \A v \in View : /\ Ungrabbed => \/ e.view[v].box = d.view[v].box
                                       \/ e.view[v].floating
                                       \/ e.view[v].fullscreen
                       /\ \/ e.view[v].shown = d.view[v].shown
                          \/ AnimEnabled /\ e.view[v].shown

Lighter(d, e) ==
    /\ Light(d, e)
    /\ \A o \in Output : e.out[o].sync = d.out[o].sync
    /\ e.seat.focused_view = d.seat.focused_view

(* A light change keeps the layout and the views tidy... *)
LEMMA LightTidy ==
    ASSUME NEW d \in Desk, NEW e \in Desk, NEW X, Light(d, e)
    PROVE  /\ LaidTidy(d, X) => LaidTidy(e, X)
           /\ ViewsTidy(d, X) => ViewsTidy(e, X)
<1>1. /\ \A v \in View : Mapped(e, v) <=> Mapped(d, v)
      /\ \A o : Showing(e, o) = Showing(d, o) /\ Tiled(e, o) = Tiled(d, o)
  BY SameSets DEF Light
<1>2. /\ \A v \in View : /\ e.view[v].output = d.view[v].output
                         /\ e.view[v].fullscreen = d.view[v].fullscreen
                         /\ e.view[v].floating = d.view[v].floating
      /\ \A o \in Output : e.out[o].laid = d.out[o].laid
  BY DEF Light, SameLayout, SameRole
<1>3. ASSUME NEW o \in Output, LaidAt(d, o) PROVE LaidAt(e, o)
  <2>1. d.out[o].laid \subseteq View
    BY DEF Desk, OutputState
  <2> QED BY <1>1, <1>2, <1>3, <2>1 DEF LaidAt
<1>4. ASSUME NEW v \in View, ViewFresh(d, v) PROVE ViewFresh(e, v)
  <2>1. /\ Ungrabbed => \/ e.view[v].box = d.view[v].box
                        \/ e.view[v].floating \/ e.view[v].fullscreen
        /\ e.view[v].shown = d.view[v].shown \/ (AnimEnabled /\ e.view[v].shown)
    BY DEF Light
  <2>2. Ungrabbed => SlotAt(e, v)
    <3>1. v \in Tiled(e, e.view[v].output)
          => ~e.view[v].floating /\ ~e.view[v].fullscreen
      BY DEF Tiled
    <3> QED BY <1>1, <1>2, <1>4, <2>1, <3>1 DEF ViewFresh, SlotAt
  <2>3. ~AnimEnabled => ShownAt(e, v)
    BY <1>1, <1>2, <1>4, <2>1 DEF ViewFresh, ShownAt
  <2>4. EnabledAt(e, v) \/ ~Steady
    BY <1>1, <1>2, <1>4, <2>1 DEF ViewFresh, EnabledAt
  <2> QED BY <2>2, <2>3, <2>4 DEF ViewFresh
<1> QED BY <1>2, <1>3, <1>4 DEF LaidTidy, ViewsTidy

(* ... and one that leaves sync and focus alone keeps all of it. *)
LEMMA LighterTidy ==
    ASSUME NEW d \in Desk, NEW e \in Desk, NEW X, Lighter(d, e), Tidy(d, X)
    PROVE  Tidy(e, X)
<1>1. Light(d, e)
  BY DEF Lighter
<1>2. \A o : Showing(e, o) = Showing(d, o)
  BY <1>1, SameSets DEF Light
<1>3. ASSUME NEW o \in Output, SyncAt(d, o) PROVE SyncAt(e, o)
  <2>1. e.out[o].sync = d.out[o].sync /\ e.seat.focused_view = d.seat.focused_view
    BY DEF Lighter
  <2> QED BY <1>2, <1>3, <2>1 DEF SyncAt
<1>4. SyncTidy(e, X)
  BY <1>3 DEF Tidy, SyncTidy
<1>5. LaidTidy(e, X) /\ ViewsTidy(e, X)
  BY <1>1, LightTidy DEF Tidy
<1> QED BY <1>4, <1>5 DEF Tidy

(* updateAdaptiveSync() leaves the layout and puts the sync right. *)
LEMMA UpdateSyncTidy ==
    ASSUME NEW d \in Desk, NEW O, NEW X, SyncTidy(d, X \cup O)
    PROVE  LET e == UpdateSync(d, O)
           IN  /\ Light(d, e) /\ e.view = d.view /\ e.seat = d.seat
               /\ SyncTidy(e, X)
<1> DEFINE e == UpdateSync(d, O)
           right(o) == \E v \in View : Showing(d, o) = {v} /\ d.seat.focused_view = v
           outs == [o \in Output |->
                       IF o \in O THEN [d.out[o] EXCEPT !.sync = right(o)]
                                  ELSE d.out[o]]
<1>8. e = [d EXCEPT !.out = outs]
  BY DEF UpdateSync
<1>1. e.view = d.view /\ e.seat = d.seat /\ e \in Desk
  <2>1. e \in Desk
    BY UpdateSyncType
  <2> HIDE DEF e, outs
  <2> QED BY <1>8, <2>1 DEF Desk
<1>2. ASSUME NEW o \in Output
      PROVE  e.out[o] = IF o \in O THEN [d.out[o] EXCEPT !.sync = right(o)]
                                   ELSE d.out[o]
  <2>1. e.out = outs
    <3> HIDE DEF e, outs
    <3> QED BY <1>8 DEF Desk
  <2> HIDE DEF e, right
  <2> QED BY <2>1
<1>3. ASSUME NEW o \in Output PROVE right(o) \in BOOLEAN
  OBVIOUS
<1> HIDE DEF e, right
<1>4. ASSUME NEW o \in Output
      PROVE  /\ e.out[o].tagset = d.out[o].tagset /\ e.out[o].laid = d.out[o].laid
             /\ o \in O => e.out[o].sync = right(o)
             /\ o \notin O => e.out[o].sync = d.out[o].sync
  <2>1. d.out[o] \in OutputState
    BY DEF Desk
  <2>2. \A b : LET s == [d.out[o] EXCEPT !.sync = b]
               IN  s.tagset = d.out[o].tagset /\ s.laid = d.out[o].laid /\ s.sync = b
    BY <2>1 DEF OutputState
  <2> QED BY <1>2, <2>2
<1>5. Light(d, e)
  BY <1>1, <1>4 DEF Light, SameLayout, SameRole
<1>6. \A o : Showing(e, o) = Showing(d, o)
  BY <1>1, <1>5, SameSets DEF Light
<1>7. ASSUME NEW o \in Output \ X, Decides PROVE SyncAt(e, o)
  <2>1. CASE o \in O
    <3>1. e.out[o].sync <=> right(o)
      BY <1>4, <2>1
    <3>2. Showing(e, o) = Showing(d, o) /\ e.seat.focused_view = d.seat.focused_view
      BY <1>1, <1>6
    <3> QED BY <3>1, <3>2 DEF SyncAt, right
  <2>2. CASE o \notin O
    <3>1. SyncAt(d, o)
      BY <1>7, <2>2 DEF SyncTidy
    <3>2. /\ e.out[o].sync = d.out[o].sync /\ Showing(e, o) = Showing(d, o)
          /\ e.seat.focused_view = d.seat.focused_view
      BY <1>1, <1>4, <1>6, <2>2
    <3> QED BY <3>1, <3>2 DEF SyncAt
  <2> QED BY <2>1, <2>2
<1> QED BY <1>1, <1>5, <1>7 DEF SyncTidy, e

(* What arrange() writes to a view changes nothing of its role. *)
Rewritten(r, shown, box, s) ==
    SameRole(r, s) /\ s.anim = r.anim /\ s.shown = shown /\ s.box = box

(* ... since it writes the node's state and the slot alone. *)
LEMMA PlaceRole ==
    ASSUME NEW r \in ViewState, NEW shown, NEW box
    PROVE  Rewritten(r, shown, box, [r EXCEPT !.shown = shown, !.box = box])
  BY DEF ViewState, SameRole, Rewritten

(* What arrange() leaves of a view. *)
LEMMA PlacedRow ==
    ASSUME NEW d \in Desk, NEW O, NEW v \in View
    PROVE  LET r == d.view[v]
               s == Placed(d, O)[v]
               here == Mapped(d, v) /\ r.output \in O \ {NoOutput}
           IN  /\ SameRole(r, s) /\ s.anim = r.anim
               /\ here => /\ s.shown <=> v \in Showing(d, r.output)
                          /\ v \in Tiled(d, r.output)
                             => s.box = [kind |-> "slot", on |-> r.output]
               /\ here \/ s = r
<1> DEFINE r == d.view[v]
           s == Placed(d, O)[v]
           here == Mapped(d, v) /\ r.output \in O \ {NoOutput}
           shown == v \in Showing(d, r.output)
           tiled == v \in Tiled(d, r.output)
           slot == [kind |-> "slot", on |-> r.output]
           box == IF tiled THEN slot ELSE r.box
<1>1. s = IF here THEN [r EXCEPT !.shown = shown, !.box = box] ELSE r
  BY DEF Placed
<1>2. r \in ViewState
  BY DEF Desk
<1>3. tiled => box = slot
  OBVIOUS
<1> HIDE DEF r, s, here, shown, tiled, slot, box
<1>4. CASE here
  <2>1. s = [r EXCEPT !.shown = shown, !.box = box]
    BY <1>1, <1>4
  <2>2. Rewritten(r, shown, box, s)
    BY <1>2, <2>1, PlaceRole
  <2>3. SameRole(r, s) /\ s.anim = r.anim /\ (s.shown <=> shown)
        /\ (tiled => s.box = slot) /\ here
    BY <1>3, <1>4, <2>2 DEF Rewritten
  <2> QED BY <2>3 DEF r, s, here, shown, tiled, slot
<1>5. CASE ~here
  <2>1. s = r /\ SameRole(r, s) /\ s.anim = r.anim /\ ~here
    BY <1>1, <1>5 DEF SameRole
  <2> QED BY <2>1 DEF r, s, here
<1> QED BY <1>4, <1>5

(* arrange() tidies the outputs it is given, and what has no output. *)
Placing(d, O, e) ==
    /\ e \in Desk /\ e.seat = d.seat
    /\ SameLayout(d, e)
    /\ \A v \in View :
          /\ e.view[v].anim = d.view[v].anim
          /\ Mapped(d, v) /\ d.view[v].output \in O \ {NoOutput}
             => ViewFresh(e, v)
          /\ \/ Mapped(d, v) /\ d.view[v].output \in O \ {NoOutput}
             \/ e.view[v] = d.view[v]
    /\ \A o \in Output :
          /\ e.out[o].sync = d.out[o].sync
          /\ e.out[o].laid = IF o \in O THEN Tiled(d, o) ELSE d.out[o].laid

(* The placement that arrange() makes is one. *)
LEMMA PlacedFresh ==
    ASSUME NEW d \in Desk, NEW O
    PROVE  Placing(d, O, [d EXCEPT !.view = Placed(d, O), !.out = Laid(d, O)])
<1> DEFINE e == [d EXCEPT !.view = Placed(d, O), !.out = Laid(d, O)]
<1>1. /\ e \in Desk /\ e.seat = d.seat
      /\ e.view = Placed(d, O) /\ e.out = Laid(d, O)
  BY PlacedType, LaidType DEF Desk
<1> HIDE DEF e
<1>2. ASSUME NEW o \in Output
      PROVE  /\ e.out[o].tagset = d.out[o].tagset
             /\ e.out[o].sync = d.out[o].sync
             /\ e.out[o].laid = IF o \in O THEN Tiled(d, o) ELSE d.out[o].laid
  <2>1. d.out[o] \in OutputState
    BY DEF Desk
  <2>2. e.out[o] = IF o \in O THEN [d.out[o] EXCEPT !.laid = Tiled(d, o)]
                              ELSE d.out[o]
    BY <1>1 DEF Laid
  <2> QED BY <2>1, <2>2 DEF OutputState
<1>3. ASSUME NEW v \in View
      PROVE  /\ SameRole(d.view[v], e.view[v])
             /\ e.view[v].anim = d.view[v].anim
             /\ Mapped(d, v) /\ d.view[v].output \in O \ {NoOutput}
                => /\ e.view[v].shown <=> v \in Showing(d, d.view[v].output)
                   /\ v \in Tiled(d, d.view[v].output)
                      => e.view[v].box = [kind |-> "slot", on |-> d.view[v].output]
             /\ \/ Mapped(d, v) /\ d.view[v].output \in O \ {NoOutput}
                \/ e.view[v] = d.view[v]
  BY <1>1, PlacedRow
<1>4. SameLayout(d, e)
  BY <1>2, <1>3 DEF SameLayout
<1>5. /\ \A v \in View : Mapped(e, v) <=> Mapped(d, v)
      /\ \A o : Showing(e, o) = Showing(d, o) /\ Tiled(e, o) = Tiled(d, o)
  BY <1>1, <1>4, SameSets
<1>6. ASSUME NEW v \in View, Mapped(d, v), d.view[v].output \in O \ {NoOutput}
      PROVE  ViewFresh(e, v)
  <2>1. e.view[v].output = d.view[v].output
    BY <1>3 DEF SameRole
  <2>2. /\ e.view[v].shown <=> v \in Showing(e, e.view[v].output)
        /\ v \in Tiled(e, e.view[v].output)
           => e.view[v].box = [kind |-> "slot", on |-> e.view[v].output]
    BY <1>3, <1>5, <1>6, <2>1
  <2> QED BY <2>2 DEF ViewFresh, SlotAt, ShownAt, EnabledAt
<1>7. Placing(d, O, e)
  BY <1>1, <1>2, <1>3, <1>4, <1>6 DEF Placing
<1> QED BY <1>7 DEF e

(* arrange() of outputs that are untidy makes them tidy. *)
LEMMA ArrangeTidy ==
    ASSUME NEW d \in Desk, NEW O, NEW X, Tidy(d, X \cup O)
    PROVE  LET e == Arrange(d, O)
           IN  /\ Tidy(e, X) /\ SameLayout(d, e) /\ e.seat = d.seat
               /\ \A v \in View : e.view[v].anim = d.view[v].anim
<1> DEFINE p == [d EXCEPT !.view = Placed(d, O), !.out = Laid(d, O)]
           e == UpdateSync(p, O)
<1>2. Arrange(d, O) = e
  BY DEF Arrange
<1> HIDE DEF p
<1>1. Placing(d, O, p)
  BY PlacedFresh DEF p
<1> USE DEF Placing
<1>3. /\ \A v \in View : /\ Mapped(p, v) <=> Mapped(d, v)
                         /\ OnShownTag(p, v) <=> OnShownTag(d, v)
      /\ \A o : Showing(p, o) = Showing(d, o) /\ Tiled(p, o) = Tiled(d, o)
  BY <1>1, SameSets
<1>4. \A v \in View : SameRole(d.view[v], p.view[v])
  BY <1>1 DEF SameLayout
<1>5. SyncTidy(p, X \cup O)
  BY <1>1, <1>3 DEF Tidy, SyncTidy, SyncAt
<1>6. LaidTidy(p, X)
  <2> SUFFICES ASSUME Rearranges, NEW o \in Output \ X PROVE LaidAt(p, o)
    BY DEF LaidTidy
  <2>1. CASE o \in O
    <3>1. p.out[o].laid = Tiled(p, o)
      BY <1>1, <1>3, <2>1
    <3> QED BY <3>1 DEF LaidAt
  <2>2. CASE o \notin O
    <3>1. LaidAt(d, o)
      BY <2>2 DEF Tidy, LaidTidy
    <3>2. p.out[o].laid = d.out[o].laid /\ d.out[o].laid \subseteq View
      BY <1>1, <2>2 DEF Desk, OutputState
    <3> QED BY <1>3, <1>4, <3>1, <3>2 DEF LaidAt, SameRole
  <2> QED BY <2>1, <2>2
<1>7. ViewsTidy(p, X)
  <2> SUFFICES ASSUME NEW v \in View, p.view[v].output \notin X
               PROVE  ViewFresh(p, v)
    BY DEF ViewsTidy
  <2>1. p.view[v].output = d.view[v].output
    BY <1>4 DEF SameRole
  <2>2. CASE ~Mapped(d, v) \/ d.view[v].output = NoOutput
    BY <1>3, <2>1, <2>2, UnshownFresh
  <2>3. CASE Mapped(d, v) /\ d.view[v].output \in O \ {NoOutput}
    BY <1>1, <2>3
  <2>4. CASE d.view[v].output \notin O
    <3>1. ViewFresh(d, v)
      BY <2>1, <2>4 DEF Tidy, ViewsTidy
    <3>2. p.view[v] = d.view[v]
      BY <1>1, <2>4
    <3> QED BY <1>3, <3>1, <3>2 DEF ViewFresh, SlotAt, ShownAt, EnabledAt
  <2> QED BY <2>2, <2>3, <2>4
<1>8. Light(p, e) /\ e.view = p.view /\ e.seat = p.seat /\ SyncTidy(e, X)
  BY <1>1, <1>5, UpdateSyncTidy
<1>9. e \in Desk
  BY <1>1, UpdateSyncType
<1> HIDE DEF e
<1>10. LaidTidy(e, X) /\ ViewsTidy(e, X)
  BY <1>1, <1>6, <1>7, <1>8, <1>9, LightTidy
<1>11. SameLayout(d, e)
  BY <1>1, <1>8, SameTrans DEF Light
<1> QED BY <1>1, <1>2, <1>8, <1>10, <1>11 DEF Tidy

-----------------------------------------------------------------------------
(* Changes *)

Calm(d, e) == \A v \in View : e.view[v].anim = d.view[v].anim

Even(d, e) == SameLayout(d, e) /\ Calm(d, e)

(* Even changes compose. *)
LEMMA EvenTrans ==
    ASSUME NEW a, NEW b, NEW c, Even(a, b), Even(b, c)
    PROVE  Even(a, c)
<1>1. SameLayout(a, c)
  BY SameTrans DEF Even
<1> QED BY <1>1 DEF Even, Calm

(* arrange() changes no role and no animation. *)
LEMMA ArrangeEven ==
    ASSUME NEW d \in Desk, NEW O
    PROVE  Even(d, Arrange(d, O))
<1> DEFINE X == Output \cup {NoOutput}
<1>1. ASSUME NEW v \in View PROVE d.view[v].output \in X
  BY DEF Desk, ViewState, MaybeOutput
<1>2. Tidy(d, X \cup O)
  BY <1>1 DEF Tidy, SyncTidy, LaidTidy, ViewsTidy
<1> HIDE DEF X
<1> QED BY <1>2, ArrangeTidy DEF Even, Calm

(* updateAdaptiveSync() keeps a tidy desk tidy. *)
LEMMA UpdateSyncEven ==
    ASSUME NEW d \in Desk, NEW O, NEW X, Tidy(d, X)
    PROVE  Tidy(UpdateSync(d, O), X) /\ Even(d, UpdateSync(d, O))
<1> DEFINE e == UpdateSync(d, O)
<1>1. SyncTidy(d, X \cup O)
  BY DEF Tidy, SyncTidy
<1>2. e \in Desk
  BY UpdateSyncType
<1>3. Light(d, e) /\ e.view = d.view /\ SyncTidy(e, X)
  BY <1>1, UpdateSyncTidy
<1> HIDE DEF e
<1>4. LaidTidy(e, X) /\ ViewsTidy(e, X)
  BY <1>2, <1>3, LightTidy DEF Tidy
<1>5. Tidy(e, X) /\ Even(d, e)
  BY <1>3, <1>4 DEF Tidy, Even, Calm, Light
<1> QED BY <1>5 DEF e

(* What changes from d to e is on outputs of X. *)
Within(d, e, X) ==
    /\ \A v \in View :
          \/ /\ e.view[v] = d.view[v]
             /\ e.seat.focused_view = v <=> d.seat.focused_view = v
          \/ /\ Mapped(d, v) => d.view[v].output \in X
             /\ Mapped(e, v) => e.view[v].output \in X
    /\ \A o \in Output \ X : e.out[o] = d.out[o]

(* Such a change leaves the outputs of X to be arranged and no other. *)
LEMMA WithinTidy ==
    ASSUME NEW d \in Desk, NEW e \in Desk, NEW X, NEW Y, Within(d, e, X),
           Tidy(d, Y), Y \subseteq X
    PROVE  Tidy(e, X)
<1>1. ASSUME NEW o \in Output \ X
      PROVE  /\ Showing(e, o) = Showing(d, o) /\ Tiled(e, o) = Tiled(d, o)
             /\ e.out[o] = d.out[o]
             /\ \A v \in Showing(d, o) :
                   /\ e.view[v] = d.view[v]
                   /\ e.seat.focused_view = v <=> d.seat.focused_view = v
  <2>1. e.out[o] = d.out[o]
    BY DEF Within
  <2>2. ASSUME NEW v \in View, v \in Showing(d, o) \/ v \in Showing(e, o)
        PROVE  /\ e.view[v] = d.view[v]
               /\ e.seat.focused_view = v <=> d.seat.focused_view = v
    BY <2>2 DEF Within, Showing
  <2>3. ASSUME NEW v \in View, v \in Showing(d, o) PROVE v \in Showing(e, o)
    BY <2>1, <2>2, <2>3 DEF Showing, Mapped, OnShownTag
  <2>4. ASSUME NEW v \in View, v \in Showing(e, o) PROVE v \in Showing(d, o)
    BY <2>1, <2>2, <2>4 DEF Showing, Mapped, OnShownTag
  <2>5. Showing(e, o) = Showing(d, o)
    BY <2>3, <2>4 DEF Showing
  <2>6. Tiled(e, o) = Tiled(d, o)
    BY <2>2, <2>5 DEF Tiled, Showing
  <2> QED BY <2>1, <2>2, <2>5, <2>6 DEF Showing
<1>2. SyncTidy(e, X)
  <2> SUFFICES ASSUME Decides, NEW o \in Output \ X PROVE SyncAt(e, o)
    BY DEF SyncTidy
  <2>1. SyncAt(d, o)
    BY DEF Tidy, SyncTidy
  <2>2. ASSUME NEW v \in View
        PROVE  (Showing(e, o) = {v} /\ e.seat.focused_view = v)
               <=> (Showing(d, o) = {v} /\ d.seat.focused_view = v)
    BY <1>1
  <2> QED BY <1>1, <2>1, <2>2 DEF SyncAt
<1>3. LaidTidy(e, X)
  <2> SUFFICES ASSUME Rearranges, NEW o \in Output \ X PROVE LaidAt(e, o)
    BY DEF LaidTidy
  <2>1. LaidAt(d, o)
    BY DEF Tidy, LaidTidy
  <2> QED BY <1>1, <2>1 DEF LaidAt
<1>4. ViewsTidy(e, X)
  <2> SUFFICES ASSUME NEW v \in View, e.view[v].output \notin X
               PROVE  ViewFresh(e, v)
    BY DEF ViewsTidy
  <2>1. CASE ~Mapped(e, v) \/ e.view[v].output = NoOutput
    BY <2>1, UnshownFresh
  <2>2. CASE Mapped(e, v) /\ e.view[v].output # NoOutput
    <3>1. e.view[v].output \in Output
      BY <2>2 DEF Desk, ViewState, MaybeOutput
    <3>2. e.view[v] = d.view[v]
      BY <2>2 DEF Within
    <3>3. ViewFresh(d, v)
      BY <3>2 DEF Tidy, ViewsTidy
    <3>4. /\ Showing(e, d.view[v].output) = Showing(d, d.view[v].output)
          /\ Tiled(e, d.view[v].output) = Tiled(d, d.view[v].output)
      BY <1>1, <3>1, <3>2
    <3> QED BY <3>2, <3>3, <3>4 DEF ViewFresh, SlotAt, ShownAt, EnabledAt, Mapped
  <2> QED BY <2>1, <2>2
<1> QED BY <1>2, <1>3, <1>4 DEF Tidy

(* A setter that writes one view leaves its outputs to be arranged. *)
LEMMA PutTidy ==
    ASSUME NEW d \in Desk, NEW v \in View, NEW r \in ViewState,
           NEW X, NEW Y, Tidy(d, Y), Y \subseteq X,
           d.view[v].phase = "mapped" => d.view[v].output \in X,
           r.phase = "mapped" => r.output \in X
    PROVE  Tidy([d EXCEPT !.view[v] = r], X)
<1> DEFINE e == [d EXCEPT !.view[v] = r]
<1>1. e \in Desk
  BY PutType
<1>2. /\ e.out = d.out /\ e.seat = d.seat /\ e.view[v] = r
      /\ \A w \in View \ {v} : e.view[w] = d.view[w]
  BY DEF Desk
<1> HIDE DEF e
<1>3. Within(d, e, X)
  BY <1>2 DEF Within, Mapped
<1>4. Tidy(e, X)
  BY <1>1, <1>3, WithinTidy
<1> QED BY <1>4 DEF e

-----------------------------------------------------------------------------
(* Helpers that arrange nothing *)

(* From d to e views change at most in what clients are told. *)
Told(d, e) ==
    /\ e.out = d.out
    /\ \A v \in View : /\ SameRole(d.view[v], e.view[v])
                       /\ e.view[v].shown = d.view[v].shown
                       /\ e.view[v].box = d.view[v].box
                       /\ e.view[v].anim = d.view[v].anim

(* Telling clients changes no layout. *)
LEMMA ToldLight ==
    ASSUME NEW d, NEW e, Told(d, e)
    PROVE  /\ Light(d, e) /\ Even(d, e)
           /\ e.seat.focused_view = d.seat.focused_view => Lighter(d, e)
  BY DEF Told, Light, Lighter, Even, Calm, SameLayout

(* Telling clients composes. *)
LEMMA ToldTrans ==
    ASSUME NEW a, NEW b, NEW c, Told(a, b), Told(b, c)
    PROVE  Told(a, c)
  BY DEF Told, SameRole

(* A change of the seat alone is one. *)
LEMMA SeatTold ==
    ASSUME NEW d, NEW e, e.view = d.view, e.out = d.out
    PROVE  Told(d, e)
  BY DEF Told, SameRole

(* setFocused() does no more than tell a client. *)
LEMMA SetFocusedTold ==
    ASSUME NEW d \in Desk, NEW v \in View, NEW b \in BOOLEAN
    PROVE  Told(d, SetFocused(d, v, b)) /\ SetFocused(d, v, b).seat = d.seat
<1> DEFINE r == [d.view[v] EXCEPT !.activated = b, !.faded = FALSE]
           e == [d EXCEPT !.view[v] = r]
<1>1. d.view[v] \in ViewState
  BY DEF Desk
<1>2. /\ SameRole(d.view[v], r) /\ r.shown = d.view[v].shown
      /\ r.box = d.view[v].box /\ r.anim = d.view[v].anim
  BY <1>1 DEF ViewState, SameRole
<1> HIDE DEF r
<1>3. /\ e.out = d.out /\ e.seat = d.seat /\ e.view[v] = r
      /\ \A w \in View \ {v} : e.view[w] = d.view[w]
  BY DEF Desk
<1> HIDE DEF e
<1>4. Told(d, e)
  BY <1>2, <1>3 DEF Told, SameRole
<1> QED BY <1>3, <1>4 DEF SetFocused, e, r

(* What focusView() does before it decides adaptive sync again. *)
LEMMA FocusViewMid ==
    ASSUME NEW d \in Desk, NEW v \in MaybeView, ~Refuses(d, v)
    PROVE  LET prev == d.seat.focused_view
               left == IF prev = NoView THEN NoOutput ELSE d.view[prev].output
               entered == IF v = NoView THEN NoOutput ELSE d.view[v].output
           IN  \E m \in Desk :
                  /\ Told(d, m) /\ m.seat.focused_view = v
                  /\ FocusView(d, v) =
                        UpdateSync(m, IF v = NoView THEN {left} ELSE {left, entered})
<1> DEFINE prev == d.seat.focused_view
           released == IF prev = NoView THEN d ELSE SetFocused(d, prev, FALSE)
           left == IF prev = NoView THEN NoOutput ELSE d.view[prev].output
<1>1. prev \in MaybeView
  BY DEF Desk, SeatState
<1>2. released \in Desk /\ released.seat = d.seat /\ Told(d, released)
  <2>1. CASE prev = NoView
    BY <2>1, SeatTold
  <2>2. CASE prev # NoView
    <3>1. prev \in View
      BY <1>1, <2>2 DEF MaybeView
    <3> QED BY <2>2, <3>1, SetFocusedType, SetFocusedTold
  <2> QED BY <2>1, <2>2
<1>3. CASE v = NoView
  <2> DEFINE m == [released EXCEPT !.seat.focused_view = NoView,
                                   !.seat.kb = NoView, !.seat.told = NoView]
  <2>1. FocusView(d, v) = UpdateSync(m, {left})
    BY <1>3 DEF FocusView
  <2> HIDE DEF released
  <2>2. m \in Desk
    BY <1>2 DEF Desk, SeatState, MaybeView
  <2>3. m.view = released.view /\ m.out = released.out /\ m.seat.focused_view = v
    BY <1>2, <1>3 DEF Desk, SeatState
  <2> HIDE DEF m
  <2>4. Told(d, m)
    BY <1>2, <2>3, SeatTold, ToldTrans
  <2> QED BY <1>3, <2>1, <2>2, <2>3, <2>4
<1>4. CASE v # NoView
  <2> DEFINE entered == d.view[v].output
             focus == SetFocused(released, v, TRUE)
             m == [focus EXCEPT !.seat.focused_view = v,
                                !.seat.focused_output =
                                    IF entered = NoOutput THEN @ ELSE entered,
                                !.seat.kb = EnteredBy(d, v), !.seat.told = v]
  <2>1. FocusView(d, v) = UpdateSync(m, {left, entered})
    BY <1>4 DEF FocusView
  <2>2. v \in View
    BY <1>4 DEF MaybeView
  <2> HIDE DEF released
  <2>3. focus \in Desk /\ entered \in MaybeOutput /\ Told(released, focus)
    BY <1>2, <2>2, SetFocusedType, SetFocusedTold DEF Desk, ViewState
  <2>k. EnteredBy(d, v) \in MaybeView \cup {LockSurface}
    BY <2>2 DEF EnteredBy, Desk, SeatState, MaybeView
  <2> HIDE DEF focus, entered
  <2>4. m \in Desk
    BY <2>2, <2>3, <2>k DEF Desk, SeatState, MaybeView
  <2>5. m.view = focus.view /\ m.out = focus.out /\ m.seat.focused_view = v
    BY <2>3 DEF Desk, SeatState
  <2> HIDE DEF m
  <2>6. Told(d, m)
    BY <1>2, <2>3, <2>5, SeatTold, ToldTrans
  <2> QED BY <1>4, <2>1, <2>4, <2>5, <2>6 DEF entered
<1> QED BY <1>3, <1>4

(* focusView() needs nothing arranged: only the outputs that lose and gain the
   focus can need another sync, and it decides theirs.                       *)
LEMMA FocusViewTidy ==
    ASSUME NEW d \in Desk, NEW v \in MaybeView, NEW X, Tidy(d, X)
    PROVE  Tidy(FocusView(d, v), X) /\ Even(d, FocusView(d, v))
<1>1. CASE Refuses(d, v)
  <2>1. FocusView(d, v) = d
    BY <1>1 DEF FocusView
  <2> QED BY <2>1 DEF Even, Calm, SameLayout, SameRole
<1>2. CASE ~Refuses(d, v)
  <2> DEFINE prev == d.seat.focused_view
             left == IF prev = NoView THEN NoOutput ELSE d.view[prev].output
             entered == IF v = NoView THEN NoOutput ELSE d.view[v].output
             O == IF v = NoView THEN {left} ELSE {left, entered}
  <2>1. PICK m \in Desk : /\ Told(d, m) /\ m.seat.focused_view = v
                          /\ FocusView(d, v) = UpdateSync(m, O)
    BY <1>2, FocusViewMid
  <2>2. Light(d, m) /\ Even(d, m)
    BY <2>1, ToldLight
  <2>3. SyncTidy(m, X \cup O)
    <3> SUFFICES ASSUME Decides, NEW o \in Output \ (X \cup O)
                 PROVE  SyncAt(m, o)
      BY DEF SyncTidy
    <3>1. SyncAt(d, o)
      BY DEF Tidy, SyncTidy
    <3>2. Showing(m, o) = Showing(d, o) /\ m.out[o].sync = d.out[o].sync
      BY <2>1, <2>2, SameSets DEF Light, Told
    <3>3. prev \notin Showing(d, o) /\ v \notin Showing(d, o)
      BY DesktopConstants DEF Showing
    <3> QED BY <2>1, <3>1, <3>2, <3>3 DEF SyncAt
  <2>4. Light(m, UpdateSync(m, O)) /\ SyncTidy(UpdateSync(m, O), X)
        /\ UpdateSync(m, O).view = m.view
    BY <2>3, UpdateSyncTidy
  <2>5. UpdateSync(m, O) \in Desk
    BY UpdateSyncType
  <2> HIDE DEF O
  <2>6. LaidTidy(UpdateSync(m, O), X) /\ ViewsTidy(UpdateSync(m, O), X)
    <3>1. LaidTidy(m, X) /\ ViewsTidy(m, X)
      BY <2>2, LightTidy DEF Tidy
    <3> QED BY <2>4, <2>5, <3>1, LightTidy
  <2>7. Even(m, UpdateSync(m, O))
    BY <2>4 DEF Even, Calm, Light
  <2>8. Even(d, UpdateSync(m, O))
    BY <2>2, <2>7, EvenTrans
  <2> QED BY <2>1, <2>4, <2>6, <2>8 DEF Tidy
<1> QED BY <1>1, <1>2

(* Handing the focus of a view on leaves its output to be arranged. *)
LEMMA PassFocusTidy ==
    ASSUME NEW d \in Desk, NEW v \in View, NEW next \in MaybeView, NEW X,
           Tidy(d, X), Mapped(d, v) => d.view[v].output \in X
    PROVE  Tidy(PassFocus(d, v, next), X) /\ Even(d, PassFocus(d, v, next))
<1>1. CASE d.seat.focused_view = v
  <2> DEFINE e == [d EXCEPT !.seat.focused_view = NoView]
  <2>1. /\ e \in Desk /\ e.view = d.view /\ e.out = d.out
        /\ e.seat.focused_view = NoView
    BY DEF Desk, SeatState, MaybeView
  <2>2. PassFocus(d, v, next) = FocusView(e, next)
    BY <1>1 DEF PassFocus
  <2> HIDE DEF e
  <2>3. Within(d, e, X)
    BY <1>1, <2>1, DesktopConstants DEF Within, Mapped
  <2>4. Tidy(e, X) /\ Even(d, e)
    BY <2>1, <2>3, WithinTidy, SeatTold, ToldLight
  <2> QED BY <2>1, <2>2, <2>4, FocusViewTidy, EvenTrans
<1>2. CASE d.seat.focused_view # v
  <2>1. PassFocus(d, v, next) = d
    BY <1>2 DEF PassFocus
  <2> QED BY <2>1 DEF Even, Calm, SameLayout, SameRole
<1> QED BY <1>1, <1>2

(* A change of the seat that does not move focused_view tidies nothing up and
   upsets nothing.                                                           *)
LEMMA SeatTidy ==
    ASSUME NEW d \in Desk, NEW e \in Desk, NEW X, Tidy(d, X), Told(d, e),
           e.seat.focused_view = d.seat.focused_view
    PROVE  Tidy(e, X) /\ Even(d, e)
  BY ToldLight, LighterTidy

(* Animations only enable nodes. *)
LEMMA StartAnimTidy ==
    ASSUME NEW d \in Desk, NEW S, NEW end \in {"none", "plain", "disable", "close"},
           NEW X, Tidy(d, X), AnimEnabled
    PROVE  LET e == StartAnim(d, S, end)
           IN  /\ Tidy(e, X) /\ SameLayout(d, e)
               /\ \A v \in View :
                     e.view[v].anim = IF v \in S THEN end ELSE d.view[v].anim
<1> DEFINE e == StartAnim(d, S, end)
<1>1. e.seat = d.seat /\ e.out = d.out
  BY DEF StartAnim, Desk
<1>2. ASSUME NEW v \in View
      PROVE  /\ SameRole(d.view[v], e.view[v])
             /\ e.view[v].box = d.view[v].box
             /\ e.view[v].shown = d.view[v].shown \/ e.view[v].shown
             /\ e.view[v].anim = IF v \in S THEN end ELSE d.view[v].anim
  <2>1. d.view[v] \in ViewState
    BY DEF Desk
  <2>2. e.view[v] = IF v \in S
                    THEN [d.view[v] EXCEPT !.anim = end, !.shown = TRUE,
                                           !.faded = FALSE]
                    ELSE d.view[v]
    BY DEF StartAnim, Desk
  <2> HIDE DEF e
  <2> QED BY <2>1, <2>2 DEF ViewState, SameRole
<1>3. e \in Desk
  BY StartAnimType
<1> HIDE DEF e
<1>4. Lighter(d, e)
  BY <1>1, <1>2 DEF Lighter, Light, SameLayout
<1>5. Tidy(e, X) /\ SameLayout(d, e)
  BY <1>3, <1>4, LighterTidy DEF Lighter, Light
<1> QED BY <1>2, <1>5 DEF e

(* The opening animations enable a node, with animations on. *)
LEMMA PlayPlainTidy ==
    ASSUME NEW d \in Desk, NEW v, NEW X, Tidy(d, X)
    PROVE  LET e == PlayPlain(d, v)
           IN  /\ Tidy(e, X) /\ SameLayout(d, e)
               /\ \A w \in View :
                     e.view[w].anim = IF AnimEnabled /\ w = v THEN "plain"
                                      ELSE d.view[w].anim
<1>1. CASE AnimEnabled
  <2>1. PlayPlain(d, v) = StartAnim(d, {v}, "plain")
    BY <1>1 DEF PlayPlain
  <2> QED BY <1>1, <2>1, StartAnimTidy
<1>2. CASE ~AnimEnabled
  <2>1. PlayPlain(d, v) = d
    BY <1>2 DEF PlayPlain
  <2> QED BY <1>2, <2>1 DEF SameLayout, SameRole
<1> QED BY <1>1, <1>2

-----------------------------------------------------------------------------
(* Animations that end with the node disabled *)

(* Without animations none runs; and a view that slides out is off the screen. *)
AnimAt(d, v) ==
    /\ AnimEnabled \/ d.view[v].anim = "none"
    /\ Steady /\ Mapped(d, v) /\ d.view[v].anim = "disable" => ~OnShownTag(d, v)

AnimRight(d) == \A v \in View : AnimAt(d, v)

AnimKept(d, e) ==
    \A v \in View :
        /\ \/ e.view[v].anim \in {"none", d.view[v].anim}
           \/ AnimEnabled /\ e.view[v].anim # "disable"
        /\ Mapped(e, v) => Mapped(d, v)
        /\ Steady /\ OnShownTag(e, v) => OnShownTag(d, v)

(* A helper that starts no slide keeps the animations right. *)
LEMMA AnimKeptRight ==
    ASSUME NEW d, NEW e, AnimKept(d, e), AnimRight(d)
    PROVE  AnimRight(e)
  BY DEF AnimKept, AnimRight, AnimAt

(* Starting no slide composes. *)
LEMMA AnimKeptTrans ==
    ASSUME NEW a, NEW b, NEW c, AnimKept(a, b), AnimKept(b, c)
    PROVE  AnimKept(a, c)
<1> SUFFICES ASSUME NEW v \in View
             PROVE  /\ \/ c.view[v].anim \in {"none", a.view[v].anim}
                       \/ AnimEnabled /\ c.view[v].anim # "disable"
                    /\ Mapped(c, v) => Mapped(a, v)
                    /\ Steady /\ OnShownTag(c, v) => OnShownTag(a, v)
  BY DEF AnimKept
<1>1. /\ \/ b.view[v].anim \in {"none", a.view[v].anim}
         \/ AnimEnabled /\ b.view[v].anim # "disable"
      /\ \/ c.view[v].anim \in {"none", b.view[v].anim}
         \/ AnimEnabled /\ c.view[v].anim # "disable"
      /\ Mapped(c, v) => Mapped(a, v)
      /\ Steady /\ OnShownTag(c, v) => OnShownTag(a, v)
  BY DEF AnimKept
<1> QED BY <1>1

(* No slide is started where the layout stays. *)
LEMMA EvenAnim ==
    ASSUME NEW d \in Desk, NEW e \in Desk, SameLayout(d, e),
           \A v \in View : \/ e.view[v].anim \in {"none", d.view[v].anim}
                           \/ AnimEnabled /\ e.view[v].anim # "disable"
    PROVE  AnimKept(d, e)
  BY SameSets DEF AnimKept

(* A setter that writes no tags, and maps nothing, starts no slide. *)
LEMMA PutAnim ==
    ASSUME NEW d \in Desk, NEW v \in View, NEW r \in ViewState,
           r.anim = d.view[v].anim,
           r.phase = "mapped" => d.view[v].phase = "mapped",
           Steady => r.tags = d.view[v].tags /\ r.output = d.view[v].output
    PROVE  AnimKept(d, [d EXCEPT !.view[v] = r])
<1> DEFINE e == [d EXCEPT !.view[v] = r]
<1>1. /\ e.out = d.out /\ e.view[v] = r
      /\ \A w \in View \ {v} : e.view[w] = d.view[w]
  BY DEF Desk
<1> HIDE DEF e
<1>2. AnimKept(d, e)
  <2> SUFFICES ASSUME NEW w \in View
               PROVE  /\ e.view[w].anim = d.view[w].anim
                      /\ Mapped(e, w) => Mapped(d, w)
                      /\ Steady /\ OnShownTag(e, w) => OnShownTag(d, w)
    BY DEF AnimKept
  <2>1. CASE w = v
    BY <1>1, <2>1 DEF Mapped, OnShownTag
  <2>2. CASE w # v
    BY <1>1, <2>2 DEF Mapped, OnShownTag
  <2> QED BY <2>1, <2>2
<1> QED BY <1>2 DEF e

-----------------------------------------------------------------------------
(* Setters: what each leaves tidy *)

(* Nothing is left to be arranged; views without an output need not be. *)
Nowhere == {NoOutput}

(* setTags() arranges the output of the view; tags are not steady. *)
LEMMA SetTagsTidy ==
    ASSUME NEW d \in Desk, NEW v \in View, NEW tags \in SUBSET Tag, ~Steady,
           Tidy(d, Nowhere \cup {d.view[v].output})
    PROVE  Tidy(SetTags(d, v, tags), Nowhere) /\ AnimKept(d, SetTags(d, v, tags))
<1> DEFINE o == d.view[v].output
           X == Nowhere \cup {o}
           r == [d.view[v] EXCEPT !.tags = IF tags = {} THEN @ ELSE tags]
           d1 == [d EXCEPT !.view[v].tags = IF tags = {} THEN @ ELSE tags]
           shown == OnShownTag(d1, v)
           d2 == [d1 EXCEPT !.view[v].shown = shown]
<1>1. d.view[v] \in ViewState /\ r \in ViewState
  <2>1. d.view[v] \in ViewState
    BY DEF Desk
  <2>2. \A t \in Tagset : [d.view[v] EXCEPT !.tags = t] \in ViewState
    BY <2>1 DEF ViewState
  <2>3. (IF tags = {} THEN d.view[v].tags ELSE tags) \in Tagset
    BY <2>1 DEF ViewState, Tagset
  <2> QED BY <2>1, <2>2, <2>3
<1>2. r.anim = d.view[v].anim /\ r.phase = d.view[v].phase /\ r.output = o
  BY <1>1 DEF ViewState
<1>3. d1 = [d EXCEPT !.view[v] = r] /\ o \in X
  OBVIOUS
<1> HIDE DEF X
<1>4. d1 \in Desk /\ Tidy(d1, X) /\ AnimKept(d, d1) /\ d1.view[v] = r
  <2> HIDE DEF r, o, d1
  <2>1. d1.view[v] = r
    BY <1>3 DEF Desk
  <2>2. [d EXCEPT !.view[v] = r] \in Desk
    BY <1>1, PutType
  <2>3. Tidy([d EXCEPT !.view[v] = r], X)
    BY <1>1, <1>2, <1>3, PutTidy DEF o, X
  <2>4. AnimKept(d, [d EXCEPT !.view[v] = r])
    BY <1>1, <1>2, PutAnim
  <2> QED BY <1>3, <2>1, <2>2, <2>3, <2>4
<1> HIDE DEF d1
<1>5. d2 \in Desk /\ Tidy(d2, X) /\ AnimKept(d1, d2)
  <2> HIDE DEF r, o
  <2> DEFINE s == [r EXCEPT !.shown = shown]
  <2>1. d2 = [d1 EXCEPT !.view[v] = s]
    BY <1>4
  <2>2. shown \in BOOLEAN
    BY DEF OnShownTag
  <2> HIDE DEF shown
  <2>3. /\ s \in ViewState /\ s.anim = r.anim /\ s.phase = r.phase
        /\ s.output = r.output
    BY <1>1, <2>2 DEF ViewState
  <2> HIDE DEF s, d2
  <2>4. [d1 EXCEPT !.view[v] = s] \in Desk
    BY <1>4, <2>3, PutType
  <2>5. Tidy([d1 EXCEPT !.view[v] = s], X)
    BY <1>2, <1>3, <1>4, <2>3, PutTidy
  <2>6. AnimKept(d1, [d1 EXCEPT !.view[v] = s])
    BY <1>4, <2>3, PutAnim
  <2> QED BY <2>1, <2>4, <2>5, <2>6
<1>6. SetTags(d, v, tags) = Arrange(d2, {o})
  BY DEF SetTags, d1
<1> HIDE DEF d2, o
<1>7. Arrange(d2, {o}) \in Desk /\ Tidy(Arrange(d2, {o}), Nowhere)
      /\ Even(d2, Arrange(d2, {o}))
  BY <1>5, ArrangeType, ArrangeTidy, ArrangeEven DEF X
<1>8. AnimKept(d2, Arrange(d2, {o}))
  BY <1>5, <1>7, EvenAnim DEF Even, Calm
<1>9. AnimKept(d, Arrange(d2, {o}))
  BY <1>4, <1>5, <1>8, AnimKeptTrans
<1> QED BY <1>6, <1>7, <1>9

(* A setter of one view that keeps its output, its phase and its animation. *)
LEMMA SetTidy ==
    ASSUME NEW d \in Desk, NEW v \in View, NEW r \in ViewState,
           r.phase = d.view[v].phase, r.output = d.view[v].output,
           r.tags = d.view[v].tags, r.anim = d.view[v].anim, Tidy(d, Nowhere)
    PROVE  LET e == [d EXCEPT !.view[v] = r]
           IN  /\ e \in Desk /\ AnimKept(d, e)
               /\ e.view[v] = r /\ e.seat = d.seat /\ e.out = d.out
               /\ Tidy(e, Nowhere \cup {d.view[v].output})
<1> DEFINE X == Nowhere \cup {d.view[v].output}
<1>1. Tidy([d EXCEPT !.view[v] = r], X)
  <2>1. d.view[v].output \in X /\ Nowhere \subseteq X
    OBVIOUS
  <2> HIDE DEF X
  <2> QED BY <2>1, PutTidy
<1>2. [d EXCEPT !.view[v] = r] \in Desk /\ AnimKept(d, [d EXCEPT !.view[v] = r])
  BY PutType, PutAnim
<1> QED BY <1>1, <1>2 DEF Desk

(* Once its output is arranged nothing is left over. *)
LEMMA ArrangedTidy ==
    ASSUME NEW d \in Desk, NEW e \in Desk, NEW o, AnimKept(d, e),
           Tidy(e, Nowhere \cup {o})
    PROVE  /\ Arrange(e, {o}) \in Desk
           /\ Tidy(Arrange(e, {o}), Nowhere) /\ AnimKept(d, Arrange(e, {o}))
<1>1. Arrange(e, {o}) \in Desk /\ Tidy(Arrange(e, {o}), Nowhere)
      /\ Even(e, Arrange(e, {o}))
  BY ArrangeType, ArrangeTidy, ArrangeEven
<1>2. AnimKept(e, Arrange(e, {o}))
  BY <1>1, EvenAnim DEF Even, Calm
<1> QED BY <1>1, <1>2, AnimKeptTrans

(* A floating or a fullscreen view may be put anywhere. *)
LEMMA BoxTidy ==
    ASSUME NEW d \in Desk, NEW v \in View, NEW box \in Box, NEW X, Tidy(d, X),
           d.view[v].floating \/ d.view[v].fullscreen \/ ~Ungrabbed
    PROVE  LET e == [d EXCEPT !.view[v].box = box]
           IN  e \in Desk /\ Tidy(e, X) /\ Even(d, e)
<1> DEFINE r == [d.view[v] EXCEPT !.box = box]
           e == [d EXCEPT !.view[v] = r]
<1>1. d.view[v] \in ViewState
  BY DEF Desk
<1>2. /\ r \in ViewState /\ SameRole(d.view[v], r) /\ r.shown = d.view[v].shown
      /\ r.anim = d.view[v].anim
  BY <1>1 DEF ViewState, SameRole
<1> HIDE DEF r
<1>3. /\ e \in Desk /\ e.out = d.out /\ e.seat = d.seat /\ e.view[v] = r
      /\ \A w \in View \ {v} : e.view[w] = d.view[w]
  BY <1>2, PutType DEF Desk
<1> HIDE DEF e
<1>4. ASSUME NEW w \in View
      PROVE  /\ SameRole(d.view[w], e.view[w]) /\ e.view[w].anim = d.view[w].anim
             /\ e.view[w].shown = d.view[w].shown
             /\ Ungrabbed => \/ e.view[w].box = d.view[w].box
                             \/ e.view[w].floating \/ e.view[w].fullscreen
  <2>1. CASE w = v
    BY <1>2, <1>3, <2>1 DEF SameRole
  <2>2. CASE w # v
    BY <1>3, <2>2 DEF SameRole
  <2> QED BY <2>1, <2>2
<1>5. SameLayout(d, e)
  BY <1>3, <1>4 DEF SameLayout
<1>6. Lighter(d, e) /\ Even(d, e)
  BY <1>3, <1>4, <1>5 DEF Lighter, Light, Even, Calm
<1>7. Tidy(e, X)
  BY <1>3, <1>6, LighterTidy
<1> QED BY <1>3, <1>6, <1>7 DEF e, r

(* A view that is or becomes fullscreen keeps its slot in the layout, and a
   floating one has none.                                                    *)
LEMMA FlipTidy ==
    ASSUME NEW d \in Desk, NEW v \in View, NEW b \in BOOLEAN, NEW X, Tidy(d, X),
           b \/ d.view[v].floating
    PROVE  Tidy([d EXCEPT !.view[v].fullscreen = b], X)
<1> DEFINE r == [d.view[v] EXCEPT !.fullscreen = b]
           e == [d EXCEPT !.view[v] = r]
<1>1. d.view[v] \in ViewState
  BY DEF Desk
<1>2. /\ r.phase = d.view[v].phase /\ r.output = d.view[v].output
      /\ r.tags = d.view[v].tags /\ r.minimized = d.view[v].minimized
      /\ r.floating = d.view[v].floating /\ r.fullscreen = b
      /\ r.shown = d.view[v].shown /\ r.box = d.view[v].box
  BY <1>1 DEF ViewState
<1> HIDE DEF r
<1>3. /\ e.out = d.out /\ e.seat = d.seat /\ e.view[v] = r
      /\ \A w \in View \ {v} : e.view[w] = d.view[w]
  BY DEF Desk
<1> HIDE DEF e
<1>4. ASSUME NEW w \in View
      PROVE  /\ Mapped(e, w) <=> Mapped(d, w)
             /\ OnShownTag(e, w) <=> OnShownTag(d, w)
             /\ e.view[w].output = d.view[w].output
             /\ e.view[w].minimized = d.view[w].minimized
             /\ e.view[w].floating = d.view[w].floating
             /\ e.view[w].shown = d.view[w].shown /\ e.view[w].box = d.view[w].box
             /\ w # v => e.view[w].fullscreen = d.view[w].fullscreen
  <2>1. CASE w = v
    BY <1>2, <1>3, <2>1 DEF Mapped, OnShownTag
  <2>2. CASE w # v
    BY <1>3, <2>2 DEF Mapped, OnShownTag
  <2> QED BY <2>1, <2>2
<1>5. \A o : Showing(e, o) = Showing(d, o)
  BY <1>4 DEF Showing
<1>6. \A o : Tiled(e, o) \subseteq Tiled(d, o)
  BY <1>2, <1>3, <1>4, <1>5 DEF Tiled, Showing
<1>7. SyncTidy(e, X)
  <2> SUFFICES ASSUME Decides, NEW o \in Output \ X PROVE SyncAt(e, o)
    BY DEF SyncTidy
  <2>1. SyncAt(d, o)
    BY DEF Tidy, SyncTidy
  <2> QED BY <1>3, <1>5, <2>1 DEF SyncAt
<1>8. LaidTidy(e, X)
  <2> SUFFICES ASSUME Rearranges, NEW o \in Output \ X PROVE LaidAt(e, o)
    BY DEF LaidTidy
  <2>1. LaidAt(d, o)
    BY DEF Tidy, LaidTidy
  <2>2. Tiled(e, o) \subseteq e.out[o].laid
    BY <1>3, <1>6, <2>1 DEF LaidAt
  <2>3. ASSUME NEW w \in e.out[o].laid \ Tiled(e, o)
        PROVE  w \in Showing(e, o) /\ e.view[w].fullscreen /\ ~e.view[w].floating
    <3>1. CASE w \in Tiled(d, o)
      BY <1>2, <1>3, <1>4, <1>5, <2>3, <3>1 DEF Tiled, Showing
    <3>2. CASE w \notin Tiled(d, o)
      <4>1. w \in Showing(d, o) /\ d.view[w].fullscreen /\ ~d.view[w].floating
        BY <1>3, <2>1, <2>3, <3>2 DEF LaidAt
      <4>2. w \in View
        BY <4>1 DEF Showing
      <4>3. e.view[w].fullscreen
        BY <1>2, <1>3, <1>4, <4>1, <4>2
      <4> QED BY <1>4, <1>5, <4>1, <4>2, <4>3
    <3> QED BY <3>1, <3>2
  <2> QED BY <2>2, <2>3 DEF LaidAt
<1>9. ViewsTidy(e, X)
  <2> SUFFICES ASSUME NEW w \in View, e.view[w].output \notin X
               PROVE  ViewFresh(e, w)
    BY DEF ViewsTidy
  <2>1. ViewFresh(d, w)
    BY <1>4 DEF Tidy, ViewsTidy
  <2>2. Ungrabbed => SlotAt(e, w)
    BY <1>4, <1>6, <2>1 DEF ViewFresh, SlotAt
  <2>3. ~AnimEnabled => ShownAt(e, w)
    BY <1>4, <1>5, <2>1 DEF ViewFresh, ShownAt
  <2>4. EnabledAt(e, w) \/ ~Steady
    BY <1>4, <1>5, <2>1 DEF ViewFresh, EnabledAt
  <2> QED BY <2>2, <2>3, <2>4 DEF ViewFresh
<1>10. Tidy(e, X)
  BY <1>7, <1>8, <1>9 DEF Tidy
<1> QED BY <1>10 DEF e, r

(* setFloating() arranges the output of the view, if it has one. *)
LEMMA SetFloatingTidy ==
    ASSUME NEW d \in Desk, NEW v \in View, NEW floating \in BOOLEAN,
           Tidy(d, Nowhere)
    PROVE  LET e == SetFloating(d, v, floating)
           IN  Tidy(e, Nowhere) /\ AnimKept(d, e)
<1> DEFINE o == d.view[v].output
           r == [d.view[v] EXCEPT !.floating = floating]
           d1 == [d EXCEPT !.view[v] = r]
           box == [kind |-> "float", on |-> o]
           d2 == [d1 EXCEPT !.view[v].box = box]
           e == SetFloating(d, v, floating)
<1>1. CASE d.view[v].fullscreen \/ d.view[v].floating = floating
  <2>1. e = d
    BY <1>1 DEF SetFloating
  <2> QED BY <2>1, EvenAnim DEF SameLayout, SameRole
<1>2. CASE ~(d.view[v].fullscreen \/ d.view[v].floating = floating)
  <2>1. e = IF ~floating THEN Arrange(d1, {o})
            ELSE IF o = NoOutput THEN d1
            ELSE Arrange(PlayPlain(d2, v), {o})
    BY <1>2 DEF SetFloating
  <2>2. d.view[v] \in ViewState
    BY DEF Desk
  <2>3. /\ r \in ViewState /\ r.phase = d.view[v].phase /\ r.output = o
        /\ r.tags = d.view[v].tags /\ r.anim = d.view[v].anim
        /\ r.floating = floating
    BY <2>2 DEF ViewState
  <2>4. o \in MaybeOutput /\ box \in Box
    BY <2>2 DEF ViewState, Box
  <2> HIDE DEF e, r, box
  <2>5. /\ d1 \in Desk /\ AnimKept(d, d1) /\ d1.view[v] = r
        /\ Tidy(d1, Nowhere \cup {o})
    BY <2>3, SetTidy
  <2> HIDE DEF d1, o
  <2>6. CASE ~floating
    <3>1. e = Arrange(d1, {o})
      BY <2>1, <2>6
    <3> QED BY <2>5, <3>1, ArrangedTidy DEF e
  <2>7. CASE floating /\ o = NoOutput
    <3>1. Tidy(d1, Nowhere)
      <4>1. Nowhere \cup {o} = Nowhere
        BY <2>7 DEF Nowhere
      <4> QED BY <2>5, <4>1
    <3> QED BY <2>1, <2>5, <2>7, <3>1 DEF e
  <2>8. CASE floating /\ o # NoOutput
    <3>1. d2 \in Desk /\ Tidy(d2, Nowhere \cup {o}) /\ Even(d1, d2)
      BY <2>3, <2>4, <2>5, <2>8, BoxTidy
    <3> HIDE DEF d2
    <3>2. PlayPlain(d2, v) \in Desk /\ Tidy(PlayPlain(d2, v), Nowhere \cup {o})
      BY <3>1, PlayPlainType, PlayPlainTidy
    <3>3. AnimKept(d1, d2) /\ AnimKept(d2, PlayPlain(d2, v))
      BY <2>5, <3>1, <3>2, EvenAnim, PlayPlainTidy DEF Even, Calm
    <3>4. AnimKept(d, PlayPlain(d2, v))
      BY <2>5, <3>3, AnimKeptTrans
    <3>5. e = Arrange(PlayPlain(d2, v), {o})
      BY <2>1, <2>8
    <3> QED BY <3>2, <3>4, <3>5, ArrangedTidy DEF e
  <2> QED BY <2>6, <2>7, <2>8
<1> QED BY <1>1, <1>2

(* What setFullscreen() does once the view is told it is fullscreen: it is put
   over its output, and the others keep their slots.                         *)
LEMMA FullscreenOn ==
    ASSUME NEW d \in Desk, NEW v \in View, ~d.view[v].fullscreen,
           NEW d1 \in Desk, d1 = [d EXCEPT !.view[v].fullscreen = TRUE],
           d1.view[v].fullscreen, Tidy(d1, Nowhere)
    PROVE  LET e == SetFullscreen(d, v, TRUE)
           IN  e \in Desk /\ Tidy(e, Nowhere) /\ Even(d1, e)
<1> DEFINE o == d.view[v].output
           box == [kind |-> "full", on |-> d1.view[v].output]
           d2 == [d1 EXCEPT !.view[v].box = box]
<1>1. SetFullscreen(d, v, TRUE)
         = IF o = NoOutput THEN d1 ELSE UpdateSync(FullscreenBox(d1, v, "full"), {o})
  BY DEF SetFullscreen
<1>2. FullscreenBox(d1, v, "full") = d2
  BY DEF FullscreenBox
<1>3. box \in Box
  BY DEF Desk, ViewState, Box
<1> HIDE DEF box
<1>4. d2 \in Desk /\ Tidy(d2, Nowhere) /\ Even(d1, d2)
  BY <1>3, BoxTidy
<1> HIDE DEF d2, o
<1>5. UpdateSync(d2, {o}) \in Desk /\ Tidy(UpdateSync(d2, {o}), Nowhere)
      /\ Even(d2, UpdateSync(d2, {o}))
  BY <1>4, UpdateSyncType, UpdateSyncEven
<1>6. Even(d1, UpdateSync(d2, {o}))
  BY <1>4, <1>5, EvenTrans
<1>7. Even(d1, d1)
  BY DEF Even, Calm, SameLayout, SameRole
<1> QED BY <1>1, <1>2, <1>5, <1>6, <1>7

(* setFullscreen() arranges only when a tiled view comes back; nothing else
   would need it.                                                            *)
LEMMA SetFullscreenTidy ==
    ASSUME NEW d \in Desk, NEW v \in View, NEW fullscreen \in BOOLEAN,
           Tidy(d, Nowhere)
    PROVE  LET e == SetFullscreen(d, v, fullscreen)
           IN  Tidy(e, Nowhere) /\ AnimKept(d, e)
<1> DEFINE o == d.view[v].output
           r == [d.view[v] EXCEPT !.fullscreen = fullscreen]
           d1 == [d EXCEPT !.view[v] = r]
           box == [kind |-> "float", on |-> d1.view[v].output]
           e == SetFullscreen(d, v, fullscreen)
<1>1. d.view[v] \in ViewState
  BY DEF Desk
<1>2. /\ r \in ViewState /\ r.phase = d.view[v].phase /\ r.output = o
      /\ r.tags = d.view[v].tags /\ r.anim = d.view[v].anim
      /\ r.floating = d.view[v].floating /\ r.fullscreen = fullscreen
  BY <1>1 DEF ViewState
<1>3. d1 = [d EXCEPT !.view[v].fullscreen = fullscreen]
  OBVIOUS
<1>4. /\ d1 \in Desk /\ AnimKept(d, d1) /\ d1.view[v] = r
      /\ Tidy(d1, Nowhere \cup {o})
  <2> HIDE DEF r
  <2> QED BY <1>2, SetTidy
<1>5. fullscreen \/ d.view[v].floating => Tidy(d1, Nowhere)
  BY <1>3, FlipTidy
<1>6. CASE d.view[v].fullscreen = fullscreen
  <2>1. e = d
    BY <1>6 DEF SetFullscreen
  <2> QED BY <2>1, EvenAnim DEF SameLayout, SameRole
<1>7. CASE d.view[v].fullscreen # fullscreen /\ fullscreen
  <2>1. ~d.view[v].fullscreen
    BY <1>1, <1>7 DEF ViewState
  <2>2. fullscreen = TRUE
    BY <1>7
  <2> HIDE DEF d1, r
  <2>3. d1.view[v].fullscreen
    BY <1>2, <1>4, <1>7
  <2>4. e \in Desk /\ Tidy(e, Nowhere) /\ Even(d1, e)
    <3>1. Tidy(d1, Nowhere)
      BY <1>5, <1>7
    <3> QED BY <1>3, <1>4, <2>1, <2>2, <2>3, <3>1, FullscreenOn
  <2> HIDE DEF e
  <2>5. AnimKept(d1, e)
    BY <1>4, <2>4, EvenAnim DEF Even, Calm
  <2>6. AnimKept(d, e)
    BY <1>4, <2>5, AnimKeptTrans
  <2> QED BY <2>4, <2>6 DEF e
<1>8. CASE d.view[v].fullscreen # fullscreen /\ ~fullscreen
  <2>1. e = IF o = NoOutput THEN d1 ELSE UpdateSync(LeaveFullscreen(d1, v), {o})
    BY <1>8 DEF SetFullscreen
  <2>2. LeaveFullscreen(d1, v) = IF d1.view[v].floating
                                 THEN [d1 EXCEPT !.view[v].box = box]
                                 ELSE Arrange(d1, {d1.view[v].output})
    BY DEF LeaveFullscreen, FullscreenBox
  <2>3. box \in Box
    BY <1>4 DEF Desk, ViewState, Box
  <2>4. d1.view[v].output = o
    BY <1>2, <1>4
  <2> HIDE DEF e, d1, r, box, o
  <2>5. CASE o = NoOutput
    <3>1. Nowhere \cup {o} = Nowhere
      BY <2>5 DEF Nowhere
    <3> QED BY <1>4, <2>1, <2>5, <3>1 DEF e
  <2>6. CASE o # NoOutput
    <3> DEFINE d2 == LeaveFullscreen(d1, v)
    <3>1. d2 \in Desk /\ Tidy(d2, Nowhere) /\ AnimKept(d, d2)
      <4>1. CASE d1.view[v].floating
        <5>1. Tidy(d1, Nowhere)
          BY <1>2, <1>4, <1>5, <4>1
        <5> DEFINE c == [d1 EXCEPT !.view[v].box = box]
        <5>2. c \in Desk /\ Tidy(c, Nowhere) /\ Even(d1, c)
          BY <1>4, <2>3, <4>1, <5>1, BoxTidy
        <5>3. d2 = c
          BY <2>2, <4>1
        <5> HIDE DEF c, d2
        <5>4. AnimKept(d1, c)
          BY <1>4, <5>2, EvenAnim DEF Even, Calm
        <5> QED BY <1>4, <5>2, <5>3, <5>4, AnimKeptTrans
      <4>2. CASE ~d1.view[v].floating
        <5>1. d2 = Arrange(d1, {o})
          BY <2>2, <2>4, <4>2
        <5> HIDE DEF d2
        <5> QED BY <1>4, <5>1, ArrangedTidy
      <4> QED BY <4>1, <4>2
    <3>2. e = UpdateSync(d2, {o})
      BY <2>1, <2>6
    <3> HIDE DEF d2
    <3>3. e \in Desk /\ Tidy(e, Nowhere) /\ Even(d2, e)
      BY <3>1, <3>2, UpdateSyncType, UpdateSyncEven
    <3>4. AnimKept(d2, e)
      BY <3>1, <3>3, EvenAnim DEF Even, Calm
    <3> QED BY <3>1, <3>3, <3>4, AnimKeptTrans DEF e
  <2> QED BY <2>5, <2>6
<1> QED BY <1>6, <1>7, <1>8

(* setMinimized() arranges the output of the view after it moved the focus. *)
LEMMA SetMinimizedTidy ==
    ASSUME NEW d \in Desk, NEW v \in View, NEW minimized \in BOOLEAN,
           NEW next \in MaybeView, Tidy(d, Nowhere)
    PROVE  LET e == SetMinimized(d, v, minimized, next)
           IN  Tidy(e, Nowhere) /\ AnimKept(d, e)
<1> DEFINE o == d.view[v].output
           X == Nowhere \cup {o}
           shown == ~minimized /\ OnShownTag(d, v)
           r == [d.view[v] EXCEPT !.minimized = minimized, !.shown = shown]
           d1 == [d EXCEPT !.view[v] = r]
           d2 == IF minimized THEN PassFocus(ReleaseGrab(d1, v), v, next)
                              ELSE FocusView(d1, v)
           e == SetMinimized(d, v, minimized, next)
<1>1. e = IF d.view[v].minimized = minimized THEN d ELSE Arrange(d2, {o})
  BY DEF SetMinimized
<1>2. /\ r \in ViewState /\ r.phase = d.view[v].phase /\ r.output = o
      /\ r.tags = d.view[v].tags /\ r.anim = d.view[v].anim
  <2>1. d.view[v] \in ViewState
    BY DEF Desk
  <2>2. shown \in BOOLEAN
    BY DEF OnShownTag
  <2> HIDE DEF shown
  <2> QED BY <2>1, <2>2 DEF ViewState
<1> HIDE DEF r, e
<1>3. /\ d1 \in Desk /\ AnimKept(d, d1) /\ d1.view[v] = r /\ Tidy(d1, X)
  BY <1>2, SetTidy
<1>4. d1.view[v].output \in X
  BY <1>2, <1>3
<1> HIDE DEF d1
<1>5. d2 \in Desk /\ Tidy(d2, X) /\ AnimKept(d1, d2)
  <2>1. CASE minimized
    <3> DEFINE c == ReleaseGrab(d1, v)
    <3>1. /\ c \in Desk /\ c.view = d1.view /\ c.out = d1.out
          /\ c.seat.focused_view = d1.seat.focused_view
      BY <1>3, ReleaseGrabType DEF ReleaseGrab, Desk, SeatState
    <3>2. d2 = PassFocus(c, v, next)
      BY <2>1
    <3> HIDE DEF c, d2, X
    <3>3. Tidy(c, X) /\ Even(d1, c)
      BY <1>3, <3>1, SeatTold, SeatTidy
    <3>4. d2 \in Desk /\ Tidy(d2, X) /\ Even(c, d2)
      BY <1>4, <3>1, <3>2, <3>3, PassFocusType, PassFocusTidy
    <3>5. Even(d1, d2)
      BY <3>3, <3>4, EvenTrans
    <3> QED BY <1>3, <3>4, <3>5, EvenAnim DEF Even, Calm
  <2>2. CASE ~minimized
    <3>1. d2 = FocusView(d1, v) /\ v \in MaybeView
      BY <2>2 DEF MaybeView
    <3> HIDE DEF d2, X
    <3>2. d2 \in Desk /\ Tidy(d2, X) /\ Even(d1, d2)
      BY <1>3, <3>1, FocusViewType, FocusViewTidy
    <3> QED BY <1>3, <3>2, EvenAnim DEF Even, Calm
  <2> QED BY <2>1, <2>2
<1> HIDE DEF d2
<1>6. CASE d.view[v].minimized = minimized
  <2>1. e = d
    BY <1>1, <1>6
  <2> QED BY <2>1, EvenAnim DEF SameLayout, SameRole, e
<1>7. CASE d.view[v].minimized # minimized
  <2>1. AnimKept(d, d2)
    BY <1>3, <1>5, AnimKeptTrans
  <2>2. e = Arrange(d2, {o})
    BY <1>1, <1>7
  <2> QED BY <1>5, <2>1, <2>2, ArrangedTidy DEF e
<1> QED BY <1>6, <1>7

(* Writing the record of one output leaves that output to be arranged. *)
LEMMA PutOutTidy ==
    ASSUME NEW d \in Desk, NEW o \in Output, NEW s \in OutputState,
           NEW X, Tidy(d, X)
    PROVE  LET e == [d EXCEPT !.out[o] = s]
           IN  /\ e \in Desk /\ Tidy(e, X \cup {o})
               /\ e.view = d.view /\ e.seat = d.seat /\ e.out[o] = s
               /\ \A p \in Output \ {o} : e.out[p] = d.out[p]
<1> DEFINE e == [d EXCEPT !.out[o] = s]
           Y == X \cup {o}
<1>1. /\ e \in Desk /\ e.view = d.view /\ e.seat = d.seat /\ e.out[o] = s
      /\ \A p \in Output \ {o} : e.out[p] = d.out[p]
  BY DEF Desk
<1> HIDE DEF e
<1>2. Within(d, e, Y)
  BY <1>1 DEF Within
<1>3. X \subseteq Y
  OBVIOUS
<1> HIDE DEF Y
<1>4. Tidy(e, Y)
  BY <1>1, <1>2, <1>3, WithinTidy
<1> QED BY <1>1, <1>4 DEF e, Y

(* setTagset() arranges its output before the slides start; what slides out is
   what left the screen.                                                     *)
LEMMA SetTagsetTidy ==
    ASSUME NEW d \in Desk, NEW o \in Output, NEW tagset \in SUBSET Tag,
           Tidy(d, Nowhere), AnimRight(d)
    PROVE  LET e == SetTagset(d, o, tagset)
           IN  Tidy(e, Nowhere) /\ AnimRight(e)
<1> DEFINE here == {v \in View : Mapped(d, v) /\ d.view[v].output = o}
           old == d.out[o].tagset
           On(tags) == {v \in here : d.view[v].tags \cap tags # {}}
           leaving == On(old) \ On(tagset)
           entering == On(tagset) \ On(old)
           s == [d.out[o] EXCEPT !.tagset = tagset]
           d0 == [d EXCEPT !.out[o] = s]
           d1 == Arrange(d0, {o})
           d2 == StartAnim(d1, leaving, "disable")
           d3 == StartAnim(d2, entering, "plain")
           e == SetTagset(d, o, tagset)
<1>1. e = IF tagset \in {{}, old} THEN d ELSE IF ~AnimEnabled THEN d1 ELSE d3
  BY DEF SetTagset
<1>2. CASE tagset \in {{}, old}
  BY <1>1, <1>2
<1>3. CASE tagset \notin {{}, old}
  <2>1. s \in OutputState /\ s.tagset = tagset
    <3>1. d.out[o] \in OutputState /\ tagset \in Tagset
      BY <1>3 DEF Desk, Tagset
    <3> QED BY <3>1 DEF OutputState
  <2> HIDE DEF s, e
  <2>2. /\ d0 \in Desk /\ Tidy(d0, Nowhere \cup {o})
        /\ d0.view = d.view /\ d0.out[o] = s
        /\ \A p \in Output \ {o} : d0.out[p] = d.out[p]
    BY <2>1, PutOutTidy
  <2> HIDE DEF d0
  <2>3. d1 \in Desk /\ Tidy(d1, Nowhere) /\ Even(d0, d1)
    BY <2>2, ArrangeType, ArrangeTidy, ArrangeEven
  <2> HIDE DEF d1
  <2>4. CASE ~AnimEnabled
    <3>1. e = d1
      BY <1>1, <1>3, <2>4
    <3>2. AnimRight(d1)
      <4>1. \A v \in View : d1.view[v].anim = "none"
        BY <2>2, <2>3, <2>4 DEF AnimRight, AnimAt, Even, Calm
      <4> QED BY <4>1 DEF AnimRight, AnimAt
    <3> QED BY <2>3, <3>1, <3>2 DEF e
  <2>5. CASE AnimEnabled
    <3> HIDE DEF leaving, entering
    <3>1. /\ d2 \in Desk /\ Tidy(d2, Nowhere) /\ SameLayout(d1, d2)
          /\ \A v \in View : d2.view[v].anim = IF v \in leaving THEN "disable"
                                               ELSE d1.view[v].anim
      BY <2>3, <2>5, StartAnimType, StartAnimTidy
    <3> HIDE DEF d2
    <3>2. /\ d3 \in Desk /\ Tidy(d3, Nowhere) /\ SameLayout(d2, d3)
          /\ \A v \in View : d3.view[v].anim = IF v \in entering THEN "plain"
                                               ELSE d2.view[v].anim
      BY <2>5, <3>1, StartAnimType, StartAnimTidy
    <3>3. e = d3
      BY <1>1, <1>3, <2>5
    <3> HIDE DEF d3
    <3>4. SameLayout(d0, d3)
      BY <2>3, <3>1, <3>2, SameTrans DEF Even
    <3>5. AnimRight(d3)
      <4> SUFFICES ASSUME NEW v \in View, Steady, Mapped(d3, v),
                          d3.view[v].anim = "disable"
                   PROVE  ~OnShownTag(d3, v)
        BY <2>5 DEF AnimRight, AnimAt
      <4>1. Mapped(d0, v) /\ (OnShownTag(d3, v) <=> OnShownTag(d0, v))
        BY <2>2, <3>2, <3>4, SameSets
      <4>2. Mapped(d, v) /\ d0.view[v] = d.view[v]
        BY <2>2, <4>1 DEF Mapped
      <4>3. v \notin entering
             /\ (v \in leaving \/ d.view[v].anim = "disable")
        BY <2>2, <2>3, <3>1, <3>2 DEF Even, Calm
      <4>4. d.view[v].anim = "disable" => ~OnShownTag(d, v)
        BY <4>2 DEF AnimRight, AnimAt
      <4>5. CASE d.view[v].output = o
        <5>1. o # NoOutput
          BY DesktopConstants
        <5>2. OnShownTag(d0, v) <=> d.view[v].tags \cap tagset # {}
          BY <2>1, <2>2, <4>2, <4>5, <5>1 DEF OnShownTag
        <5>3. OnShownTag(d, v) <=> d.view[v].tags \cap old # {}
          BY <4>5, <5>1 DEF OnShownTag
        <5>4. v \in here
          BY <4>2, <4>5
        <5> HIDE DEF here, old
        <5>5. CASE v \in leaving
          <6>1. v \notin On(tagset)
            BY <5>5 DEF leaving
          <6> QED BY <4>1, <5>2, <5>4, <6>1
        <5>6. CASE v \notin leaving
          <6>1. v \notin On(old)
            BY <4>3, <4>4, <5>3, <5>6
          <6>2. v \notin On(tagset)
            BY <4>3, <6>1 DEF entering
          <6> QED BY <4>1, <5>2, <5>4, <6>2
        <5> QED BY <5>5, <5>6
      <4>6. CASE d.view[v].output # o
        <5>1. v \notin leaving
          BY <4>6 DEF leaving
        <5>2. ~OnShownTag(d, v)
          BY <4>3, <4>4, <5>1
        <5>3. d.view[v].output \in MaybeOutput
          BY DEF Desk, ViewState
        <5> QED BY <2>2, <4>1, <4>2, <4>6, <5>2, <5>3 DEF OnShownTag, MaybeOutput
      <4> QED BY <4>5, <4>6
    <3> QED BY <3>2, <3>3, <3>5 DEF e
  <2> QED BY <2>4, <2>5
<1> QED BY <1>2, <1>3

(* close() leaves a view as it is until its client unmaps it. *)
LEMMA CloseTidy ==
    ASSUME NEW d \in Desk, NEW S, Tidy(d, Nowhere)
    PROVE  LET e == Close(d, S)
           IN  Tidy(e, Nowhere) /\ AnimKept(d, e)
<1>1. CASE ~AnimEnabled
  <2>1. Close(d, S) = d
    BY <1>1 DEF Close
  <2> QED BY <2>1, EvenAnim DEF SameLayout, SameRole
<1>2. CASE AnimEnabled
  <2> DEFINE d1 == StartAnim(d, S, "close")
             views == [v \in View |->
                          [d1.view[v] EXCEPT !.closing = @ \/ v \in S]]
             d2 == [d1 EXCEPT !.view = views]
  <2>1. Close(d, S) = d2
    BY <1>2 DEF Close
  <2>2. d2 \in Desk
    BY <2>1, CloseType
  <2>3. /\ d1 \in Desk /\ Tidy(d1, Nowhere) /\ SameLayout(d, d1)
        /\ \A v \in View : d1.view[v].anim = IF v \in S THEN "close"
                                             ELSE d.view[v].anim
    BY <1>2, StartAnimType, StartAnimTidy
  <2> HIDE DEF d1
  <2>4. \A v \in View : /\ SameRole(d1.view[v], views[v])
                        /\ views[v].shown = d1.view[v].shown
                        /\ views[v].box = d1.view[v].box
                        /\ views[v].anim = d1.view[v].anim
    <3>1. \A v \in View : d1.view[v] \in ViewState
      BY <2>3 DEF Desk
    <3> QED BY <3>1 DEF ViewState, SameRole
  <2> HIDE DEF views
  <2>5. d2.view = views /\ d2.out = d1.out /\ d2.seat = d1.seat
    BY <2>3 DEF Desk
  <2> HIDE DEF d2
  <2>6. Told(d1, d2)
    BY <2>4, <2>5 DEF Told
  <2>7. Tidy(d2, Nowhere) /\ Even(d1, d2)
    BY <2>2, <2>3, <2>5, <2>6, SeatTidy
  <2>8. AnimKept(d, d2)
    BY <1>2, <2>2, <2>3, <2>7, EvenAnim, SameTrans DEF Even, Calm
  <2> QED BY <2>1, <2>7, <2>8
<1> QED BY <1>1, <1>2

-----------------------------------------------------------------------------
(* Steps *)

(* The layout's part of the inductive invariant: nothing is left over between
   two handlers.                                                             *)
Free(d) == Ungrabbed => d.seat.grabbed = NoView

Orderly(d) == Tidy(d, Nowhere) /\ AnimRight(d) /\ Free(d)

(* The desk after a step is what the step left of the variables. *)
LEMMA DeskAfter ==
    ASSUME TypeOK'
    PROVE  /\ desk' \in Desk
           /\ desk'.view = view' /\ desk'.out = out' /\ desk'.seat = seat'
  BY DEF TypeOK, desk, Desk

(* A handler that commits an orderly desk leaves one. *)
LEMMA CommitOrderly ==
    ASSUME NEW d \in Desk, Commit(d), Orderly(d)
    PROVE  Orderly(desk)'
<1>1. desk' = d
  BY DEF Commit, desk, Desk
<1>2. Orderly(desk')
  BY <1>1
<1> QED BY <1>2

(* What a handler ends with is orderly if it frees no grab. *)
LEMMA KeptOrderly ==
    ASSUME NEW d \in Desk, NEW e \in Desk, Orderly(d), Tidy(e, Nowhere),
           AnimKept(d, e), e.seat.grabbed \in {NoView, d.seat.grabbed}
    PROVE  Orderly(e)
<1>1. AnimRight(e)
  BY AnimKeptRight DEF Orderly
<1>2. Free(e)
  BY DEF Orderly, Free
<1> QED BY <1>1, <1>2 DEF Orderly

(* The same, where the layout stays. *)
LEMMA EvenOrderly ==
    ASSUME NEW d \in Desk, NEW e \in Desk, Orderly(d), Tidy(e, Nowhere),
           Even(d, e), e.seat.grabbed \in {NoView, d.seat.grabbed}
    PROVE  Orderly(e)
<1>1. AnimKept(d, e)
  BY EvenAnim DEF Even, Calm
<1> QED BY <1>1, KeptOrderly

(* Tidy but for fewer outputs is tidy but for more. *)
LEMMA Weaken ==
    ASSUME NEW d \in Desk, NEW X, NEW Y, Tidy(d, X), X \subseteq Y
    PROVE  Tidy(d, Y)
  BY DEF Tidy, SyncTidy, LaidTidy, ViewsTidy

(* arrange() of any outputs at any time keeps the desk orderly. *)
LEMMA ArrangeOrderly ==
    ASSUME NEW d \in Desk, NEW O, Orderly(d)
    PROVE  /\ Arrange(d, O) \in Desk /\ Orderly(Arrange(d, O))
           /\ Even(d, Arrange(d, O)) /\ Arrange(d, O).seat = d.seat
<1> DEFINE e == Arrange(d, O)
           Y == Nowhere \cup O
<1>1. e \in Desk /\ e.seat = d.seat /\ Even(d, e)
  BY ArrangeType, ArrangeKept, ArrangeEven DEF Kept
<1>2. Tidy(e, Nowhere)
  <2>1. Nowhere \subseteq Y
    OBVIOUS
  <2>2. Tidy(d, Y)
    <3> HIDE DEF Y
    <3> QED BY <2>1, Weaken DEF Orderly
  <2> QED BY <2>2, ArrangeTidy
<1> HIDE DEF e
<1>3. Orderly(e)
  BY <1>1, <1>2, EvenOrderly
<1> QED BY <1>1, <1>3 DEF e

(* focusView() grabs nothing... *)
LEMMA FocusViewGrip ==
    ASSUME NEW d \in Desk, NEW v \in MaybeView
    PROVE  FocusView(d, v).seat.grabbed = d.seat.grabbed
<1>1. CASE Refuses(d, v)
  BY <1>1 DEF FocusView
<1>2. CASE ~Refuses(d, v)
  <2>1. FocusView(d, v).seat =
           [d.seat EXCEPT !.focused_view = v, !.kb = Keyboard(d, v),
                          !.told = v,
                          !.focused_output =
                              IF v = NoView \/ d.view[v].output = NoOutput
                              THEN @ ELSE d.view[v].output]
    BY <1>2, FocusViewMoves
  <2>2. d.seat \in SeatState
    BY DEF Desk
  <2> QED BY <2>1, <2>2 DEF SeatState
<1> QED BY <1>1, <1>2

(* ... nor does passing the focus on... *)
LEMMA PassFocusGrip ==
    ASSUME NEW d \in Desk, NEW v, NEW next \in MaybeView
    PROVE  PassFocus(d, v, next).seat.grabbed = d.seat.grabbed
<1> DEFINE e == [d EXCEPT !.seat.focused_view = NoView]
<1>1. e \in Desk /\ e.seat.grabbed = d.seat.grabbed
  BY DEF Desk, SeatState, MaybeView
<1>2. PassFocus(d, v, next) = IF d.seat.focused_view = v THEN FocusView(e, next)
                              ELSE d
  BY DEF PassFocus
<1> HIDE DEF e
<1> QED BY <1>1, <1>2, FocusViewGrip

(* ... and a view that goes away is dropped. *)
LEMMA SetMinimizedGrip ==
    ASSUME NEW d \in Desk, NEW v \in View, NEW minimized \in BOOLEAN,
           NEW next \in MaybeView
    PROVE  SetMinimized(d, v, minimized, next).seat.grabbed
              \in {NoView, d.seat.grabbed}
<1> DEFINE r == [d.view[v] EXCEPT !.minimized = minimized,
                                  !.shown = ~minimized /\ OnShownTag(d, v)]
           d1 == [d EXCEPT !.view[v] = r]
           c == ReleaseGrab(d1, v)
           d2 == IF minimized THEN PassFocus(c, v, next) ELSE FocusView(d1, v)
           e == SetMinimized(d, v, minimized, next)
<1>1. e = IF d.view[v].minimized = minimized THEN d
          ELSE Arrange(d2, {d.view[v].output})
  BY DEF SetMinimized
<1>2. r \in ViewState
  <2> DEFINE shown == ~minimized /\ OnShownTag(d, v)
  <2>1. shown \in BOOLEAN /\ d.view[v] \in ViewState
    BY DEF OnShownTag, Desk
  <2> HIDE DEF shown
  <2>2. [d.view[v] EXCEPT !.minimized = minimized, !.shown = shown] \in ViewState
    BY <2>1 DEF ViewState
  <2> QED BY <2>2 DEF shown
<1> HIDE DEF r, e
<1>3. d1 \in Desk /\ d1.seat = d.seat
  BY <1>2, PutType DEF Desk
<1> HIDE DEF d1
<1>4. c \in Desk /\ c.seat.grabbed \in {NoView, d.seat.grabbed}
  BY <1>3, ReleaseGrabType DEF ReleaseGrab, Desk, SeatState
<1> HIDE DEF c
<1>5. d2 \in Desk /\ d2.seat.grabbed \in {NoView, d.seat.grabbed}
  BY <1>3, <1>4, PassFocusType, PassFocusGrip, FocusViewType, FocusViewGrip
     DEF MaybeView
<1> HIDE DEF d2
<1>6. Arrange(d2, {d.view[v].output}).seat = d2.seat
  BY <1>5, ArrangeKept DEF Kept
<1>7. e.seat.grabbed \in {NoView, d.seat.grabbed}
  BY <1>1, <1>5, <1>6
<1> QED BY <1>7 DEF e

(* focusView() of a view keeps the desk orderly. *)
LEMMA FocusViewOrderly ==
    ASSUME NEW d \in Desk, NEW v \in MaybeView, Orderly(d)
    PROVE  FocusView(d, v) \in Desk /\ Orderly(FocusView(d, v))
<1> DEFINE e == FocusView(d, v)
<1>1. e \in Desk /\ Tidy(e, Nowhere) /\ Even(d, e)
      /\ e.seat.grabbed = d.seat.grabbed
  BY FocusViewType, FocusViewTidy, FocusViewGrip DEF Orderly
<1> HIDE DEF e
<1>2. Orderly(e)
  BY <1>1, EvenOrderly
<1> QED BY <1>1, <1>2 DEF e

(* So does minimizing, and restoring, a view. *)
LEMMA SetMinimizedOrderly ==
    ASSUME NEW d \in Desk, NEW v \in View, NEW minimized \in BOOLEAN,
           NEW next \in MaybeView, Orderly(d)
    PROVE  LET e == SetMinimized(d, v, minimized, next)
           IN  e \in Desk /\ Orderly(e)
<1> DEFINE e == SetMinimized(d, v, minimized, next)
<1>1. /\ e \in Desk /\ Tidy(e, Nowhere) /\ AnimKept(d, e)
      /\ e.seat.grabbed \in {NoView, d.seat.grabbed}
  BY SetMinimizedType, SetMinimizedTidy, SetMinimizedGrip DEF Orderly
<1> HIDE DEF e
<1>2. Orderly(e)
  BY <1>1, KeptOrderly
<1> QED BY <1>1, <1>2 DEF e

(* A handler that tells clients at most, and neither moves the focus nor begins
   a grab, leaves the desk orderly.                                          *)
LEMMA ToldOrderly ==
    ASSUME TypeOK, TypeOK', Orderly(desk), Told(desk, desk'),
           seat'.focused_view = seat.focused_view,
           ~Ungrabbed \/ seat'.grabbed \in {NoView, seat.grabbed}
    PROVE  Orderly(desk')
<1>1. /\ desk \in Desk /\ desk.seat = seat
      /\ desk' \in Desk /\ desk'.seat = seat'
  BY DeskType, DeskAfter
<1>2. Tidy(desk', Nowhere) /\ Even(desk, desk')
  BY <1>1, SeatTidy DEF Orderly
<1>3. AnimRight(desk')
  BY <1>1, <1>2, EvenAnim, AnimKeptRight DEF Even, Calm, Orderly
<1>4. Free(desk')
  BY <1>1 DEF Orderly, Free
<1> QED BY <1>2, <1>3, <1>4 DEF Orderly

(* A window that gets or loses its surface is one such. *)
LEMMA SurfaceOrderly ==
    ASSUME TypeOK, TypeOK', Orderly(desk), NEW v \in View,
           Associate(v) \/ Dissociate(v)
    PROVE  Orderly(desk')
<1>1. /\ desk \in Desk /\ desk.view = view /\ desk.out = out
      /\ desk'.view = view' /\ desk'.out = out'
  BY DeskType, DeskAfter
<1>2. PICK b \in BOOLEAN : view' = [view EXCEPT ![v] = [view[v] EXCEPT !.surface = b]]
  BY DEF Associate, Dissociate
<1>3. view[v] \in ViewState /\ view \in [View -> ViewState]
  BY DEF TypeOK
<1>4. LET s == [view[v] EXCEPT !.surface = b]
      IN  /\ SameRole(view[v], s) /\ s.shown = view[v].shown
          /\ s.box = view[v].box /\ s.anim = view[v].anim
  BY <1>3 DEF ViewState, SameRole
<1>5. \A w \in View \ {v} : view'[w] = view[w]
  BY <1>2, <1>3
<1>6. view'[v] = [view[v] EXCEPT !.surface = b]
  BY <1>2, <1>3
<1>7. out' = out /\ seat'.focused_view = seat.focused_view
      /\ seat'.grabbed = seat.grabbed
  BY DEF Associate, Dissociate, TypeOK, SeatState
<1>8. Told(desk, desk')
  <2>1. \A w \in View : /\ SameRole(view[w], view'[w])
                        /\ view'[w].shown = view[w].shown
                        /\ view'[w].box = view[w].box
                        /\ view'[w].anim = view[w].anim
    BY <1>4, <1>5, <1>6 DEF SameRole
  <2> QED BY <1>1, <1>7, <2>1 DEF Told
<1> QED BY <1>7, <1>8, ToldOrderly

(* A view that is not mapped, and will not be, is in nobody's way. *)
LEMMA UnmappedOrderly ==
    ASSUME NEW d \in Desk, NEW e \in Desk, NEW v \in View, Orderly(d),
           ~Mapped(d, v), ~Mapped(e, v), e.view[v].anim = "none",
           \A w \in View \ {v} :
               /\ e.view[w] = d.view[w]
               /\ e.seat.focused_view = w <=> d.seat.focused_view = w,
           e.out = d.out, e.seat.grabbed \in {NoView, d.seat.grabbed}
    PROVE  Orderly(e)
<1>1. Within(d, e, Nowhere)
  BY DEF Within
<1>2. Tidy(e, Nowhere)
  BY <1>1, WithinTidy DEF Orderly
<1>3. ASSUME NEW w \in View PROVE AnimAt(e, w)
  <2>1. CASE w = v
    BY <2>1 DEF AnimAt
  <2>2. CASE w # v
    BY <2>2 DEF Orderly, AnimRight, AnimAt, Mapped, OnShownTag
  <2> QED BY <2>1, <2>2
<1>4. Free(e)
  BY DEF Orderly, Free
<1> QED BY <1>2, <1>3, <1>4 DEF Orderly, AnimRight

(* A new window is not mapped yet. *)
LEMMA NewViewOrderly ==
    ASSUME TypeOK, TypeOK', Orderly(desk), NEW v \in View,
           NEW surface \in BOOLEAN, NewView(v, surface)
    PROVE  Orderly(desk')
<1> DEFINE r == [Absent EXCEPT !.phase = "unmapped", !.surface = surface,
                               !.shown = TRUE]
<1>1. r.phase = "unmapped" /\ r.anim = "none"
  BY DEF Absent
<1>2. /\ view[v].phase = "absent" /\ view' = [view EXCEPT ![v] = r]
      /\ out' = out /\ seat' = seat
  BY DEF NewView
<1> HIDE DEF r
<1>3. /\ view'[v] = r /\ \A w \in View \ {v} : view'[w] = view[w]
  BY <1>2 DEF TypeOK
<1>4. /\ desk \in Desk /\ desk.view = view /\ desk.out = out /\ desk.seat = seat
      /\ desk' \in Desk
      /\ desk'.view = view' /\ desk'.out = out' /\ desk'.seat = seat'
  BY DeskType, DeskAfter
<1>5. ~Mapped(desk, v) /\ ~Mapped(desk', v)
  BY <1>1, <1>2, <1>3, <1>4 DEF Mapped
<1>6. desk'.out = desk.out /\ desk'.seat = desk.seat
      /\ desk'.view[v].anim = "none"
      /\ \A w \in View \ {v} : desk'.view[w] = desk.view[w]
  BY <1>1, <1>2, <1>3, <1>4
<1> QED BY <1>4, <1>5, <1>6, UnmappedOrderly

(* A window that is destroyed was unmapped before. *)
LEMMA DestroyViewOrderly ==
    ASSUME TypeOK, TypeOK', Orderly(desk), NEW v \in View, DestroyView(v)
    PROVE  Orderly(desk')
<1>1. /\ view[v].phase = "unmapped" /\ view' = [view EXCEPT ![v] = Absent]
      /\ out' = out
  BY DEF DestroyView
<1>2. /\ view'[v] = Absent /\ \A w \in View \ {v} : view'[w] = view[w]
  BY <1>1 DEF TypeOK
<1>3. /\ \A w \in View \ {v} :
             seat'.focused_view = w <=> seat.focused_view = w
      /\ seat'.grabbed \in {NoView, seat.grabbed}
  BY DesktopConstants DEF DestroyView, TypeOK, SeatState
<1>4. Absent.phase = "absent" /\ Absent.anim = "none"
  BY DEF Absent
<1>5. /\ desk \in Desk /\ desk.view = view /\ desk.out = out /\ desk.seat = seat
      /\ desk' \in Desk
      /\ desk'.view = view' /\ desk'.out = out' /\ desk'.seat = seat'
  BY DeskType, DeskAfter
<1>6. ~Mapped(desk, v) /\ ~Mapped(desk', v)
  BY <1>1, <1>2, <1>4, <1>5 DEF Mapped
<1>7. /\ desk'.out = desk.out /\ desk'.view[v].anim = "none"
      /\ \A w \in View \ {v} : desk'.view[w] = desk.view[w]
  BY <1>1, <1>2, <1>4, <1>5
<1>8. /\ \A w \in View \ {v} :
             desk'.seat.focused_view = w <=> desk.seat.focused_view = w
      /\ desk'.seat.grabbed \in {NoView, desk.seat.grabbed}
  BY <1>3, <1>5
<1> QED BY <1>5, <1>6, <1>7, <1>8, UnmappedOrderly

(* Unmapping passes the focus on and arranges the output left behind. *)
LEMMA UnmapViewOrderly ==
    ASSUME TypeOK, Orderly(desk), NEW v \in View, NEW next \in MaybeView,
           UnmapView(v, next)
    PROVE  Orderly(desk')
<1> DEFINE o == view[v].output
           X == Nowhere \cup {o}
           r == [view[v] EXCEPT !.phase = "unmapped"]
           d1 == [desk EXCEPT !.view[v] = r]
           d2 == ReleaseGrab(d1, v)
           d3 == PassFocus(d2, v, next)
           d4 == Arrange(d3, {o})
<1>1. desk \in Desk /\ desk.view = view /\ desk.seat = seat
  BY DeskType
<1>2. Commit(d4)
  BY <1>1 DEF UnmapView
<1>3. /\ r \in ViewState /\ r.phase = "unmapped" /\ r.anim = view[v].anim
      /\ r.tags = view[v].tags /\ r.output = o
  <2>1. view[v] \in ViewState
    BY DEF TypeOK
  <2> QED BY <2>1 DEF ViewState
<1> HIDE DEF r
<1>4. /\ d1 \in Desk /\ Tidy(d1, X) /\ AnimKept(desk, d1) /\ d1.view[v] = r
      /\ d1.seat = seat
  <2>1. Nowhere \subseteq X /\ o \in X
    OBVIOUS
  <2>2. Tidy(d1, X)
    <3> HIDE DEF X
    <3> QED BY <1>1, <1>3, <2>1, PutTidy DEF Orderly
  <2> HIDE DEF X, o
  <2>3. d1 \in Desk
    BY <1>1, <1>3, PutType
  <2>4. AnimKept(desk, d1)
    BY <1>1, <1>3, PutAnim DEF o
  <2>5. d1.view[v] = r /\ d1.seat = seat
    BY <1>1 DEF Desk
  <2> QED BY <2>2, <2>3, <2>4, <2>5
<1> HIDE DEF d1
<1>5. /\ d2 \in Desk /\ d2.view = d1.view /\ d2.out = d1.out
      /\ d2.seat.focused_view = d1.seat.focused_view
      /\ d2.seat.grabbed \in {NoView, seat.grabbed}
  BY <1>4, ReleaseGrabType DEF ReleaseGrab, Desk, SeatState
<1> HIDE DEF d2, X
<1>6. Tidy(d2, X) /\ Even(d1, d2)
  BY <1>4, <1>5, SeatTold, SeatTidy
<1>7. /\ d3 \in Desk /\ Tidy(d3, X) /\ Even(d2, d3)
      /\ d3.seat.grabbed = d2.seat.grabbed
  <2>1. ~Mapped(d2, v)
    BY <1>3, <1>4, <1>5 DEF Mapped
  <2> QED BY <1>5, <1>6, <2>1, PassFocusType, PassFocusTidy, PassFocusGrip
<1> HIDE DEF d3
<1>8. AnimKept(desk, d3)
  <2>1. Even(d1, d3)
    BY <1>6, <1>7, EvenTrans
  <2>2. AnimKept(d1, d3)
    BY <1>4, <1>7, <2>1, EvenAnim DEF Even, Calm
  <2> QED BY <1>4, <2>2, AnimKeptTrans
<1>9. /\ d4 \in Desk /\ Tidy(d4, Nowhere) /\ AnimKept(desk, d4)
      /\ d4.seat = d3.seat
  <2> HIDE DEF o
  <2> QED BY <1>1, <1>7, <1>8, ArrangedTidy, ArrangeKept DEF X, Kept
<1> HIDE DEF d4
<1>10. Orderly(d4)
  BY <1>1, <1>5, <1>7, <1>9, KeptOrderly
<1> QED BY <1>2, <1>9, <1>10, CommitOrderly

(* From d to e no animation starts, and only v comes or goes. *)
Beside(d, e, v) ==
    /\ Calm(d, e)
    /\ \A w \in View \ {v} : /\ Mapped(e, w) <=> Mapped(d, w)
                             /\ OnShownTag(e, w) <=> OnShownTag(d, w)

(* Changes beside v compose. *)
LEMMA BesideTrans ==
    ASSUME NEW a, NEW b, NEW c, NEW v, Beside(a, b, v), Beside(b, c, v)
    PROVE  Beside(a, c, v)
  BY DEF Beside, Calm

(* An even change is beside any view. *)
LEMMA EvenBeside ==
    ASSUME NEW d \in Desk, NEW e \in Desk, NEW v, Even(d, e)
    PROVE  Beside(d, e, v)
  BY SameSets DEF Beside, Even

(* So is a write of the record of v. *)
LEMMA PutBeside ==
    ASSUME NEW d \in Desk, NEW v \in View, NEW r \in ViewState,
           r.anim = d.view[v].anim
    PROVE  Beside(d, [d EXCEPT !.view[v] = r], v)
<1> DEFINE e == [d EXCEPT !.view[v] = r]
<1>1. /\ e.out = d.out /\ e.view[v] = r
      /\ \A w \in View \ {v} : e.view[w] = d.view[w]
  BY DEF Desk
<1> HIDE DEF e
<1>2. Beside(d, e, v)
  BY <1>1 DEF Beside, Calm, Mapped, OnShownTag
<1> QED BY <1>2 DEF e

(* Mapping places, focuses and shows the new window on its output. *)
LEMMA MapViewOrderly ==
    ASSUME TypeOK, Orderly(desk), NEW v \in View, NEW o \in MaybeOutput,
           NEW floats \in BOOLEAN, NEW fullscreen \in BOOLEAN,
           MapView(v, o, floats, fullscreen)
    PROVE  Orderly(desk')
<1> DEFINE X == Nowhere \cup {o}
           r == [view[v] EXCEPT
                    !.phase = "mapped", !.output = o, !.floating = floats,
                    !.tags = IF o = NoOutput THEN @ ELSE out[o].tagset]
           d1 == [desk EXCEPT !.view[v] = r]
           d2 == Arrange(d1, {o})
           c == [d2 EXCEPT !.view[v].fullscreen = FALSE]
           f == [d2 EXCEPT !.view[v].fullscreen = TRUE]
           d3 == IF fullscreen THEN SetFullscreen(c, v, TRUE) ELSE d2
           box == [kind |-> "float", on |-> o]
           d4 == IF floats /\ ~d3.view[v].fullscreen /\ o # NoOutput
                 THEN [d3 EXCEPT !.view[v].box = box]
                 ELSE d3
           d5 == FocusView(d4, v)
           d6 == PlayPlain(d5, v)
<1>1. desk \in Desk /\ desk.view = view /\ desk.seat = seat
  BY DeskType
<1>2. Commit(d6) /\ view[v].phase = "unmapped"
  BY <1>1 DEF MapView
<1>3. /\ r \in ViewState /\ r.phase = "mapped" /\ r.output = o
      /\ r.floating = floats /\ r.anim = view[v].anim
  <2>1. view[v] \in ViewState
    BY DEF TypeOK
  <2> DEFINE tags == IF o = NoOutput THEN view[v].tags ELSE out[o].tagset
  <2>2. tags \in Tagset
    BY <2>1 DEF TypeOK, ViewState, OutputState, MaybeOutput
  <2>3. r = [view[v] EXCEPT !.phase = "mapped", !.output = o,
                            !.floating = floats, !.tags = tags]
    BY <2>1
  <2> HIDE DEF tags, r
  <2> QED BY <2>1, <2>2, <2>3 DEF ViewState
<1> HIDE DEF r
<1>4. /\ d1 \in Desk /\ Tidy(d1, X) /\ Beside(desk, d1, v) /\ d1.view[v] = r
      /\ d1.seat = seat
  <2>1. Nowhere \subseteq X /\ o \in X
    OBVIOUS
  <2>2. Tidy(d1, X)
    <3> HIDE DEF X
    <3> QED BY <1>1, <1>2, <1>3, <2>1, PutTidy DEF Orderly
  <2> HIDE DEF X
  <2>3. d1 \in Desk /\ Beside(desk, d1, v)
    BY <1>1, <1>3, PutType, PutBeside
  <2>4. d1.view[v] = r /\ d1.seat = seat
    BY <1>1 DEF Desk
  <2> QED BY <2>2, <2>3, <2>4
<1> HIDE DEF d1
<1>5. /\ d2 \in Desk /\ Tidy(d2, Nowhere) /\ Even(d1, d2) /\ d2.seat = seat
  BY <1>4, ArrangeType, ArrangeTidy, ArrangeEven, ArrangeKept DEF Kept
<1> HIDE DEF d2, X
<1>6. Beside(desk, d2, v) /\ d2.view[v].floating = floats
  <2>1. Beside(d1, d2, v)
    BY <1>4, <1>5, EvenBeside
  <2> QED BY <1>3, <1>4, <1>5, <2>1, BesideTrans DEF Even, SameLayout, SameRole
<1>7. /\ d3 \in Desk /\ Tidy(d3, Nowhere) /\ Beside(desk, d3, v)
      /\ d3.seat = seat
      /\ d3.view[v].floating = floats \/ d3.view[v].fullscreen
  <2>1. CASE ~fullscreen
    BY <1>5, <1>6, <2>1
  <2>2. CASE fullscreen
    <3> DEFINE s == [d2.view[v] EXCEPT !.fullscreen = TRUE]
               t == [d2.view[v] EXCEPT !.fullscreen = FALSE]
    <3>1. /\ s \in ViewState /\ s.fullscreen /\ s.anim = d2.view[v].anim
          /\ t \in ViewState /\ ~t.fullscreen
          /\ s = [t EXCEPT !.fullscreen = TRUE]
      <4>1. d2.view[v] \in ViewState
        BY <1>5 DEF Desk
      <4> QED BY <4>1 DEF ViewState
    <3>2. f = [d2 EXCEPT !.view[v] = s] /\ c = [d2 EXCEPT !.view[v] = t]
      OBVIOUS
    <3> HIDE DEF s, t
    <3>3. /\ f \in Desk /\ c \in Desk
          /\ f.view[v].fullscreen /\ ~c.view[v].fullscreen
          /\ f = [c EXCEPT !.view[v].fullscreen = TRUE] /\ c.seat = seat
      <4>1. [d2 EXCEPT !.view[v] = s] \in Desk /\ [d2 EXCEPT !.view[v] = t] \in Desk
        BY <1>5, <3>1, PutType
      <4>2. [d2 EXCEPT !.view[v] = s]
               = [[d2 EXCEPT !.view[v] = t] EXCEPT
                     !.view[v] = [t EXCEPT !.fullscreen = TRUE]]
        BY <1>5, <3>1 DEF Desk
      <4>3. /\ [d2 EXCEPT !.view[v] = s].view[v] = s
            /\ [d2 EXCEPT !.view[v] = t].view[v] = t
            /\ [d2 EXCEPT !.view[v] = t].seat = seat
        BY <1>5 DEF Desk
      <4> HIDE DEF f, c
      <4>4. f \in Desk /\ c \in Desk /\ f.view[v] = s /\ c.view[v] = t
            /\ c.seat = seat
        BY <3>2, <4>1, <4>3
      <4>5. f = [c EXCEPT !.view[v].fullscreen = TRUE]
        BY <3>2, <4>2, <4>4
      <4> QED BY <3>1, <4>4, <4>5
    <3>4. Tidy(f, Nowhere)
      BY <1>5, FlipTidy
    <3>5. Beside(d2, f, v)
      <4> HIDE DEF f
      <4> QED BY <1>5, <3>1, <3>2, PutBeside
    <3> HIDE DEF f, c
    <3>6. d3 = SetFullscreen(c, v, TRUE)
      BY <2>2
    <3>7. d3 \in Desk /\ Tidy(d3, Nowhere) /\ Even(f, d3)
      BY <3>3, <3>4, <3>6, FullscreenOn
    <3>8. d3.seat = seat
      <4>1. c \in Desk /\ TRUE \in BOOLEAN
        BY <3>3
      <4>2. Kept(c, SetFullscreen(c, v, TRUE))
        BY <4>1, SetFullscreenKept, Zenon
      <4> HIDE DEF d3
      <4> QED BY <3>3, <3>6, <4>2 DEF Kept
    <3> HIDE DEF d3
    <3>9. d3.view[v].fullscreen
      BY <3>3, <3>7 DEF Even, SameLayout, SameRole
    <3>10. Beside(desk, d3, v)
      <4>1. Beside(desk, f, v)
        BY <1>6, <3>5, BesideTrans
      <4>2. Beside(f, d3, v)
        BY <3>3, <3>7, EvenBeside
      <4> QED BY <4>1, <4>2, BesideTrans
    <3> QED BY <3>7, <3>8, <3>9, <3>10
  <2> QED BY <2>1, <2>2
<1> HIDE DEF d3
<1>8. /\ d4 \in Desk /\ Tidy(d4, Nowhere) /\ Even(d3, d4) /\ d4.seat = seat
  <2> DEFINE e == [d3 EXCEPT !.view[v].box = box]
  <2>1. CASE floats /\ ~d3.view[v].fullscreen /\ o # NoOutput
    <3>1. box \in Box
      BY DEF Box
    <3> HIDE DEF box
    <3>2. e \in Desk /\ Tidy(e, Nowhere) /\ Even(d3, e)
      BY <1>7, <2>1, <3>1, BoxTidy
    <3>3. e.seat = seat
      BY <1>7 DEF Desk
    <3>4. d4 = e
      BY <2>1
    <3> HIDE DEF e, d4
    <3> QED BY <3>2, <3>3, <3>4
  <2>2. CASE ~(floats /\ ~d3.view[v].fullscreen /\ o # NoOutput)
    <3>1. d4 = d3
      BY <2>2
    <3> HIDE DEF d4
    <3> QED BY <1>7, <3>1 DEF Even, Calm, SameLayout, SameRole
  <2> QED BY <2>1, <2>2
<1> HIDE DEF d4
<1>9. /\ d5 \in Desk /\ Tidy(d5, Nowhere) /\ Even(d4, d5)
      /\ d5.seat.grabbed = seat.grabbed
  BY <1>8, FocusViewType, FocusViewTidy, FocusViewGrip DEF MaybeView
<1> HIDE DEF d5
<1>10. Beside(desk, d5, v)
  <2>1. Even(d3, d5)
    BY <1>8, <1>9, EvenTrans
  <2>2. Beside(d3, d5, v)
    BY <1>7, <1>9, <2>1, EvenBeside
  <2> QED BY <1>7, <2>2, BesideTrans
<1>11. /\ d6 \in Desk /\ Tidy(d6, Nowhere) /\ SameLayout(d5, d6)
       /\ \A w \in View : d6.view[w].anim = IF AnimEnabled /\ w = v THEN "plain"
                                            ELSE d5.view[w].anim
       /\ d6.seat.grabbed = seat.grabbed
  <2>1. d6 \in Desk /\ d6.seat = d5.seat
    BY <1>9, PlayPlainType, PlayPlainKept DEF Kept
  <2> QED BY <1>9, <2>1, PlayPlainTidy
<1> HIDE DEF d6
<1>12. ASSUME NEW w \in View PROVE AnimAt(d6, w)
  <2>1. AnimAt(desk, w)
    BY DEF Orderly, AnimRight
  <2>2. d5.view[w].anim = desk.view[w].anim
    BY <1>10 DEF Beside, Calm
  <2>3. CASE w = v
    BY <1>11, <2>1, <2>2, <2>3 DEF AnimAt
  <2>4. CASE w # v
    <3>1. /\ Mapped(d6, w) <=> Mapped(desk, w)
          /\ OnShownTag(d6, w) <=> OnShownTag(desk, w)
      BY <1>9, <1>10, <1>11, <2>4, SameSets DEF Beside
    <3>2. d6.view[w].anim = desk.view[w].anim
      BY <1>11, <2>2, <2>4
    <3> QED BY <2>1, <3>1, <3>2 DEF AnimAt
  <2> QED BY <2>3, <2>4
<1>13. Orderly(d6)
  BY <1>1, <1>11, <1>12 DEF Orderly, AnimRight, Free
<1> QED BY <1>2, <1>11, <1>13, CommitOrderly

(* What clients do leaves the desk orderly. *)
LEMMA ClientStepOrderly ==
    ASSUME TypeOK, TypeOK', Orderly(desk), ClientStep
    PROVE  Orderly(desk')
<1>0. desk \in Desk /\ desk.seat = seat
  BY DeskType
<1>1. ASSUME NEW v \in View, NEW b \in BOOLEAN, RequestFullscreen(v, b)
      PROVE  Orderly(desk')
  <2> DEFINE e == SetFullscreen(desk, v, b)
  <2>1. Commit(e)
    BY <1>1 DEF RequestFullscreen
  <2>2. /\ e \in Desk /\ Tidy(e, Nowhere) /\ AnimKept(desk, e)
        /\ e.seat = desk.seat
    BY <1>0, SetFullscreenType, SetFullscreenTidy, SetFullscreenKept
       DEF Orderly, Kept
  <2> HIDE DEF e
  <2>3. Orderly(e)
    BY <1>0, <2>2, KeptOrderly
  <2> QED BY <2>1, <2>2, <2>3, CommitOrderly
<1>2. ASSUME NEW v \in View, NEW b \in BOOLEAN, Activate(v, b)
      PROVE  Orderly(desk')
  <2> DEFINE c == SetMinimized(desk, v, FALSE, NoView)
             d == IF b THEN c ELSE desk
             e == FocusView(d, v)
  <2>1. Commit(e)
    BY <1>2 DEF Activate
  <2>2. c \in Desk /\ Orderly(c)
    <3>1. NoView \in MaybeView /\ FALSE \in BOOLEAN
      BY DEF MaybeView
    <3> QED BY <1>0, <3>1, SetMinimizedOrderly, Zenon
  <2> HIDE DEF c
  <2>3. d \in Desk /\ Orderly(d)
    BY <1>0, <2>2
  <2> HIDE DEF d
  <2>4. e \in Desk /\ Orderly(e)
    BY <2>3, FocusViewOrderly DEF MaybeView
  <2> HIDE DEF e
  <2> QED BY <2>1, <2>4, CommitOrderly
<1>3. PICK v \in View :
         \/ \E surface \in BOOLEAN : NewView(v, surface)
         \/ Associate(v) \/ Dissociate(v)
         \/ \E o \in MaybeOutput, floats, fullscreen \in BOOLEAN :
                MapView(v, o, floats, fullscreen)
         \/ \E next \in MaybeView : UnmapView(v, next)
         \/ DestroyView(v)
         \/ \E b \in BOOLEAN : RequestFullscreen(v, b) \/ Activate(v, b)
  BY DEF ClientStep
<1>4. CASE \E surface \in BOOLEAN : NewView(v, surface)
  BY <1>4, NewViewOrderly
<1>5. CASE Associate(v) \/ Dissociate(v)
  BY <1>5, SurfaceOrderly
<1>6. CASE \E o \in MaybeOutput, floats, fullscreen \in BOOLEAN :
              MapView(v, o, floats, fullscreen)
  BY <1>6, MapViewOrderly
<1>7. CASE \E next \in MaybeView : UnmapView(v, next)
  BY <1>7, UnmapViewOrderly
<1>8. CASE DestroyView(v)
  BY <1>8, DestroyViewOrderly
<1> QED BY <1>1, <1>2, <1>3, <1>4, <1>5, <1>6, <1>7, <1>8, Zenon

-----------------------------------------------------------------------------
(* A window moved to another output leaves the old one as it was; only the new
   one is arranged.                                                          *)
LEMMA MoveTidy ==
    ASSUME NEW d \in Desk, NEW v \in View, NEW r \in ViewState, ~Rearranges,
           Tidy(d, Nowhere)
    PROVE  Tidy([d EXCEPT !.view[v] = r], Nowhere \cup {r.output})
<1> DEFINE e == [d EXCEPT !.view[v] = r]
           X == Nowhere \cup {r.output}
<1>1. /\ e.out = d.out /\ e.view[v] = r
      /\ \A w \in View \ {v} : e.view[w] = d.view[w]
  BY DEF Desk
<1> HIDE DEF e
<1>2. ASSUME NEW w \in View, e.view[w].output \notin X PROVE ViewFresh(e, w)
  <2>1. w # v
    BY <1>1, <1>2
  <2>2. e.view[w] = d.view[w] /\ ViewFresh(d, w)
    BY <1>1, <1>2, <2>1 DEF Tidy, ViewsTidy
  <2>3. \A o : /\ w \in Showing(e, o) <=> w \in Showing(d, o)
               /\ w \in Tiled(e, o) <=> w \in Tiled(d, o)
    BY <1>1, <2>2 DEF Showing, Tiled, Mapped, OnShownTag
  <2> QED BY <2>2, <2>3 DEF ViewFresh, SlotAt, ShownAt, EnabledAt, Mapped
<1>3. Tidy(e, X)
  BY <1>2 DEF Tidy, SyncTidy, LaidTidy, ViewsTidy, Decides
<1> QED BY <1>3 DEF e

(* client:move_to_output arranges the output it moves a window to. *)
LEMMA MoveToOutputOrderly ==
    ASSUME TypeOK, TypeOK', Orderly(desk), NEW v \in View, NEW o \in Output,
           MoveToOutput(v, o)
    PROVE  Orderly(desk')
<1> DEFINE r == [view[v] EXCEPT !.floating = FALSE, !.output = o]
           d == [desk EXCEPT !.view[v] = r]
           tags == out[o].tagset
           e == SetTags(d, v, tags)
<1>1. desk \in Desk /\ desk.view = view /\ desk.seat = seat
  BY DeskType
<1>2. Commit(e) /\ ~Rearranges /\ ~Steady
  BY <1>1 DEF MoveToOutput, Issued, Rearranges, Steady
<1>3. /\ r \in ViewState /\ r.output = o /\ r.anim = view[v].anim
      /\ r.phase = view[v].phase
  <2>1. view[v] \in ViewState /\ o \in MaybeOutput
    BY DEF TypeOK, MaybeOutput
  <2> QED BY <2>1 DEF ViewState
<1>4. tags \in SUBSET Tag
  BY DEF TypeOK, OutputState, Tagset
<1> HIDE DEF r, tags
<1>5. /\ d \in Desk /\ d.view[v] = r /\ d.seat = seat
      /\ Tidy(d, Nowhere \cup {o}) /\ AnimKept(desk, d)
  <2>1. Tidy(d, Nowhere \cup {r.output})
    BY <1>1, <1>2, <1>3, MoveTidy DEF Orderly
  <2>2. d \in Desk /\ AnimKept(desk, d)
    BY <1>1, <1>2, <1>3, PutType, PutAnim
  <2>3. d.view[v] = r /\ d.seat = seat
    BY <1>1 DEF Desk
  <2> QED BY <1>3, <2>1, <2>2, <2>3
<1> HIDE DEF d
<1>6. /\ e \in Desk /\ Tidy(e, Nowhere) /\ AnimKept(d, e) /\ e.seat = seat
  <2>1. Tidy(d, Nowhere \cup {d.view[v].output})
    BY <1>3, <1>5
  <2>2. Tidy(e, Nowhere) /\ AnimKept(d, e)
    BY <1>2, <1>4, <1>5, <2>1, SetTagsTidy
  <2>3. e \in Desk /\ e.seat = seat
    BY <1>4, <1>5, SetTagsType, SetTagsKept DEF Kept
  <2> QED BY <2>2, <2>3
<1> HIDE DEF e
<1>7. Orderly(e)
  BY <1>1, <1>5, <1>6, AnimKeptTrans, KeptOrderly
<1> QED BY <1>2, <1>6, <1>7, CommitOrderly

(* Asking for a place for a window, by the mouse or from Lua. *)
LEMMA PlacingOrderly ==
    ASSUME TypeOK, TypeOK', Orderly(desk), NEW v \in View,
           Drag(v) \/ PlaceFloating(v)
    PROVE  Orderly(desk')
<1> DEFINE box == [kind |-> "float", on |-> view[v].output]
           e == [desk EXCEPT !.view[v].box = box]
<1>1. desk \in Desk /\ desk.view = view /\ desk.seat = seat /\ desk.out = out
  BY DeskType
<1>2. ~Ungrabbed
  <2>1. CASE Drag(v)
    BY <1>1, <2>1, DesktopConstants DEF Drag, Orderly, Free
  <2>2. CASE PlaceFloating(v)
    BY <2>2 DEF PlaceFloating, Issued, Ungrabbed
  <2> QED BY <2>1, <2>2
<1>3. box \in Box
  BY DEF TypeOK, ViewState, Box
<1>4. view' = [view EXCEPT ![v].box = box] /\ out' = out /\ seat' = seat
  BY DEF Drag, PlaceFloating
<1> HIDE DEF box
<1>5. Commit(e)
  BY <1>1, <1>4 DEF Commit, Desk
<1>6. e \in Desk /\ Tidy(e, Nowhere) /\ Even(desk, e)
  BY <1>1, <1>2, <1>3, BoxTidy DEF Orderly
<1>7. e.seat = desk.seat
  BY <1>1 DEF Desk
<1> HIDE DEF e
<1>8. Orderly(e)
  BY <1>1, <1>6, <1>7, EvenOrderly
<1> QED BY <1>5, <1>6, <1>8, CommitOrderly

(* Only the seat changes, and the focus stays where it is. *)
LEMMA SeatOrderly ==
    ASSUME TypeOK, TypeOK', Orderly(desk), UNCHANGED <<view, out>>,
           seat'.focused_view = seat.focused_view,
           ~Ungrabbed \/ seat'.grabbed \in {NoView, seat.grabbed}
    PROVE  Orderly(desk')
<1>1. desk'.view = desk.view /\ desk'.out = desk.out
  BY DeskType, DeskAfter
<1>2. Told(desk, desk')
  BY <1>1, SeatTold
<1> QED BY <1>2, ToldOrderly

(* A reload arranges everything, and tells every view its focus again. *)
LEMMA ReloadOrderly ==
    ASSUME TypeOK, TypeOK', Orderly(desk), Reload
    PROVE  Orderly(desk')
<1> DEFINE d == Arrange(desk, Connected(desk))
           views == [v \in View |->
                        IF Alive(d, v)
                        THEN [d.view[v] EXCEPT !.activated = seat.focused_view = v,
                                               !.faded = FALSE]
                        ELSE d.view[v]]
           e == [d EXCEPT !.view = views]
<1>1. desk \in Desk /\ desk' \in Desk
  BY DeskType, DeskAfter
<1>2. Commit(e)
  BY DEF Reload
<1>3. /\ d \in Desk /\ Orderly(d) /\ Even(desk, d) /\ d.seat = desk.seat
  BY <1>1, ArrangeOrderly
<1> HIDE DEF d
<1>4. \A v \in View : /\ SameRole(d.view[v], views[v])
                      /\ views[v].shown = d.view[v].shown
                      /\ views[v].box = d.view[v].box
                      /\ views[v].anim = d.view[v].anim
  <2>1. \A v \in View : d.view[v] \in ViewState
    BY <1>3 DEF Desk
  <2> QED BY <2>1 DEF ViewState, SameRole
<1> HIDE DEF views
<1>5. e.view = views /\ e.out = d.out /\ e.seat = d.seat
  BY <1>3 DEF Desk
<1>6. desk'.view = e.view /\ desk'.out = e.out /\ desk'.seat = e.seat
  BY <1>2 DEF Commit, desk
<1> HIDE DEF e
<1>7. Told(d, desk')
  BY <1>4, <1>5, <1>6 DEF Told
<1>8. Tidy(desk', Nowhere) /\ Even(d, desk')
  BY <1>1, <1>3, <1>5, <1>6, <1>7, SeatTidy DEF Orderly
<1> QED BY <1>1, <1>3, <1>5, <1>6, <1>8, EvenOrderly

(* What the user and Lua do leaves the desk orderly. *)
LEMMA UserStepOrderly ==
    ASSUME TypeOK, TypeOK', Orderly(desk), UserStep
    PROVE  Orderly(desk')
<1>0. desk \in Desk /\ desk.seat = seat /\ desk.view = view /\ desk.out = out
  BY DeskType
<1>1. ASSUME NEW v \in View, NEW b \in BOOLEAN, NEW next \in MaybeView,
             RequestMinimize(v, b, next)
      PROVE  Orderly(desk')
  BY <1>0, <1>1, SetMinimizedOrderly, CommitOrderly DEF RequestMinimize
<1>2. ASSUME NEW v \in View, NEW step, Focus(v) \/ FocusDirection(v, step)
      PROVE  Orderly(desk')
  <2>1. Commit(FocusView(desk, v))
    BY <1>2 DEF Focus, FocusDirection
  <2>2. FocusView(desk, v) \in Desk /\ Orderly(FocusView(desk, v))
    BY <1>0, FocusViewOrderly DEF MaybeView
  <2> QED BY <2>1, <2>2, CommitOrderly
<1>3. ASSUME NEW S, Commit(Close(desk, S)) PROVE Orderly(desk')
  <2> DEFINE e == Close(desk, S)
  <2>1. /\ e \in Desk /\ Tidy(e, Nowhere) /\ AnimKept(desk, e)
        /\ e.seat = desk.seat
    BY <1>0, CloseType, CloseTidy, CloseKept DEF Orderly, Kept
  <2>2. Commit(e)
    BY <1>3
  <2> HIDE DEF e
  <2>3. Orderly(e)
    BY <1>0, <2>1, KeptOrderly
  <2> QED BY <2>1, <2>2, <2>3, CommitOrderly
<1>4. ASSUME NEW v \in View, BeginGrab(v) PROVE Orderly(desk')
  <2>1. seat'.focused_view = seat.focused_view
    BY <1>4 DEF BeginGrab, TypeOK, SeatState
  <2> QED BY <1>4, <2>1, SeatOrderly DEF BeginGrab, Issued, Ungrabbed
<1>5. ASSUME NEW v \in View, NEW b \in BOOLEAN, RequestFloating(v, b)
      PROVE  Orderly(desk')
  <2> DEFINE e == SetFloating(desk, v, b)
  <2>1. /\ e \in Desk /\ Tidy(e, Nowhere) /\ AnimKept(desk, e)
        /\ e.seat = desk.seat
    BY <1>0, SetFloatingType, SetFloatingTidy, SetFloatingKept DEF Orderly, Kept
  <2>2. Commit(e)
    BY <1>5 DEF RequestFloating
  <2> HIDE DEF e
  <2>3. Orderly(e)
    BY <1>0, <2>1, KeptOrderly
  <2> QED BY <2>1, <2>2, <2>3, CommitOrderly
<1>6. ASSUME NEW v \in View, NEW tags \in SUBSET Tag, RequestTags(v, tags)
      PROVE  Orderly(desk')
  <2> DEFINE e == SetTags(desk, v, tags)
             X == Nowhere \cup {desk.view[v].output}
  <2>1. ~Steady /\ Commit(e)
    BY <1>6 DEF RequestTags, Issued, Steady
  <2>2. Tidy(desk, X)
    <3>1. Nowhere \subseteq X
      OBVIOUS
    <3> HIDE DEF X
    <3> QED BY <1>0, <3>1, Weaken DEF Orderly
  <2>3. /\ e \in Desk /\ Tidy(e, Nowhere) /\ AnimKept(desk, e)
        /\ e.seat = desk.seat
    BY <1>0, <2>1, <2>2, SetTagsType, SetTagsTidy, SetTagsKept DEF Kept
  <2> HIDE DEF e
  <2>4. Orderly(e)
    BY <1>0, <2>3, KeptOrderly
  <2> QED BY <2>1, <2>3, <2>4, CommitOrderly
<1>7. ASSUME NEW o \in Output, NEW tags \in SUBSET Tag, SwitchTagset(o, tags)
      PROVE  Orderly(desk')
  <2> DEFINE e == SetTagset(desk, o, tags)
  <2>1. /\ e \in Desk /\ Tidy(e, Nowhere) /\ AnimRight(e) /\ e.seat = desk.seat
    BY <1>0, SetTagsetType, SetTagsetTidy, SetTagsetKept DEF Orderly, Kept
  <2>2. Commit(e)
    BY <1>7 DEF SwitchTagset
  <2> HIDE DEF e
  <2>3. Orderly(e)
    BY <2>1 DEF Orderly, Free
  <2> QED BY <2>1, <2>2, <2>3, CommitOrderly
<1>8. ASSUME NEW o \in Output, NEW step, FocusMonitor(o, step)
      PROVE  Orderly(desk')
  <2>1. /\ seat'.focused_view = seat.focused_view /\ seat'.grabbed = seat.grabbed
        /\ UNCHANGED <<view, out>>
    BY <1>8 DEF FocusMonitor, TypeOK, SeatState
  <2> QED BY <2>1, SeatOrderly
<1>9. ASSUME EndGrab PROVE Orderly(desk')
  <2>1. /\ seat'.focused_view = seat.focused_view /\ seat'.grabbed = NoView
        /\ UNCHANGED <<view, out>>
    BY <1>9 DEF EndGrab, TypeOK, SeatState
  <2> QED BY <2>1, SeatOrderly
<1>10. ASSUME NEW v \in View, RequestClose(v) PROVE Orderly(desk')
  BY <1>3, <1>10 DEF RequestClose
<1>11. ASSUME NEW tags \in Tagset, CloseOnTag(tags) PROVE Orderly(desk')
  BY <1>3, <1>11 DEF CloseOnTag
<1> HIDE DEF Orderly
<1>12. CASE \E v \in View :
               \/ \E b \in BOOLEAN, next \in MaybeView : RequestMinimize(v, b, next)
               \/ Focus(v) \/ RequestClose(v)
               \/ BeginGrab(v) \/ Drag(v) \/ PlaceFloating(v)
               \/ \E step \in {older, Converse(older)} : FocusDirection(v, step)
               \/ \E b \in BOOLEAN : RequestFloating(v, b)
               \/ \E tags \in SUBSET Tag : RequestTags(v, tags)
               \/ \E o \in Output : MoveToOutput(v, o)
  BY <1>1, <1>2, <1>4, <1>5, <1>6, <1>10, <1>12, PlacingOrderly,
     MoveToOutputOrderly
<1>13. CASE \E o \in Output :
               \/ \E tags \in SUBSET Tag : SwitchTagset(o, tags)
               \/ \E step \in {older, Converse(older)} : FocusMonitor(o, step)
  BY <1>7, <1>8, <1>13
<1>14. CASE \E tags \in Tagset : CloseOnTag(tags)
  BY <1>11, <1>14
<1> QED BY <1>9, <1>12, <1>13, <1>14, ReloadOrderly DEF UserStep

-----------------------------------------------------------------------------
(* An output nobody is on, with no layout and no sync of a monitor rule, is as
   arrange() leaves it.                                                      *)
LEMMA VacantTidy ==
    ASSUME NEW d \in Desk, NEW o \in Output, Tidy(d, Nowhere \cup {o}),
           \A v \in View : d.view[v].output # o,
           d.out[o].laid = {}, Decides => ~d.out[o].sync
    PROVE  Tidy(d, Nowhere)
<1>1. Showing(d, o) = {} /\ Tiled(d, o) = {}
  BY DEF Showing, Tiled
<1>2. ASSUME NEW p \in Output \ Nowhere
      PROVE  (Decides => SyncAt(d, p)) /\ (Rearranges => LaidAt(d, p))
  <2>1. CASE p = o
    <3>1. \A v \in View : Showing(d, o) # {v}
      BY <1>1
    <3> QED BY <1>1, <2>1, <3>1 DEF SyncAt, LaidAt
  <2>2. CASE p # o
    BY <1>2, <2>2 DEF Tidy, SyncTidy, LaidTidy
  <2> QED BY <2>1, <2>2
<1>3. ViewsTidy(d, Nowhere)
  BY DEF Tidy, ViewsTidy
<1> QED BY <1>2, <1>3 DEF Tidy, SyncTidy, LaidTidy

(* arrange() does nothing to the records of other outputs. *)
LEMMA ArrangeElsewhere ==
    ASSUME NEW d \in Desk, NEW O, NEW o \in Output \ O
    PROVE  Arrange(d, O).out[o] = d.out[o]
<1> DEFINE p == [d EXCEPT !.view = Placed(d, O), !.out = Laid(d, O)]
           outs == [q \in Output |->
                       IF q \in O
                       THEN [p.out[q] EXCEPT !.sync =
                                \E v \in View : Showing(p, q) = {v}
                                                /\ p.seat.focused_view = v]
                       ELSE p.out[q]]
<1>1. p \in Desk /\ p.out = Laid(d, O)
  BY PlacedType, LaidType DEF Desk
<1>2. Arrange(d, O) = [p EXCEPT !.out = outs]
  BY DEF Arrange, UpdateSync
<1>3. outs[o] = p.out[o] /\ Laid(d, O)[o] = d.out[o]
  BY DEF Laid
<1> HIDE DEF p, outs
<1>4. [p EXCEPT !.out = outs].out = outs
  BY <1>1 DEF Desk
<1> QED BY <1>1, <1>2, <1>3, <1>4

(* A new output has no view, and the others are arranged before it joins. *)
LEMMA ConnectOutputOrderly ==
    ASSUME TypeOK, TypeOK', Sound(desk), Orderly(desk), NEW o \in Output,
           NEW sync \in BOOLEAN, ConnectOutput(o, sync)
    PROVE  Orderly(desk')
<1> DEFINE d == Arrange(desk, Connected(desk))
           s == [Disconnected EXCEPT !.connected = TRUE, !.sync = sync]
           c == [d EXCEPT !.out[o] = s]
<1>1. desk \in Desk /\ desk' \in Desk /\ desk.view = view /\ desk.out = out
  BY DeskType, DeskAfter
<1>2. /\ d \in Desk /\ Orderly(d) /\ Even(desk, d) /\ d.seat = desk.seat
  BY <1>1, ArrangeOrderly
<1>3. Commit([d EXCEPT !.out[o] = s,
                       !.seat.focused_output = IF @ = NoOutput THEN o ELSE @])
      /\ ~out[o].connected
  BY DEF ConnectOutput
<1>4. s \in OutputState /\ s.laid = {} /\ (Decides => ~s.sync)
  BY DesktopConstants
     DEF ConnectOutput, Issued, Decides, Disconnected, OutputState, Tagset
<1> HIDE DEF d, s
<1>5. /\ c \in Desk /\ Tidy(c, Nowhere \cup {o})
      /\ c.view = d.view /\ c.seat = d.seat /\ c.out[o] = s
      /\ \A p \in Output \ {o} : c.out[p] = d.out[p]
  BY <1>2, <1>4, PutOutTidy DEF Orderly
<1>6. \A v \in View : d.view[v].output # o
  <2>1. o \notin Connected(desk) \cup {NoOutput}
    BY <1>1, <1>3, DesktopConstants DEF Connected
  <2>2. \A v \in View : desk.view[v].output # o
    BY <2>1 DEF Sound, Linked
  <2> QED BY <1>2, <2>2 DEF Even, SameLayout, SameRole
<1>7. Tidy(c, Nowhere)
  BY <1>4, <1>5, <1>6, VacantTidy
<1>8. desk'.view = c.view /\ desk'.out = c.out
      /\ desk'.seat.focused_view = c.seat.focused_view
      /\ desk'.seat.grabbed = c.seat.grabbed
  BY <1>2, <1>3 DEF Commit, desk, Desk, SeatState
<1> HIDE DEF c
<1>9. Tidy(desk', Nowhere) /\ Even(c, desk')
  BY <1>1, <1>5, <1>7, <1>8, SeatTold, SeatTidy
<1>10. ASSUME NEW v \in View PROVE AnimAt(desk', v)
  <2>1. AnimAt(d, v)
    BY <1>2 DEF Orderly, AnimRight
  <2>2. d.view[v].output \in MaybeOutput /\ d.view[v].output # o
    BY <1>2, <1>6 DEF Desk, ViewState
  <2>3. desk'.view[v] = d.view[v]
    BY <1>5, <1>8
  <2>4. d.view[v].output \in Output
        => desk'.out[d.view[v].output] = d.out[d.view[v].output]
    BY <1>5, <1>8, <2>2
  <2> QED BY <2>1, <2>2, <2>3, <2>4
          DEF AnimAt, Mapped, OnShownTag, MaybeOutput
<1>11. Free(desk')
  BY <1>2, <1>5, <1>8 DEF Orderly, Free
<1> QED BY <1>9, <1>10, <1>11 DEF Orderly, AnimRight

(* What handleDestroy of an output leaves to be arranged: its views moved, and
   the focus of one that could not move given up.                            *)
Unplugging(d, o, to) ==
    /\ to # o
    /\ d.out[o] = Disconnected
    /\ \A p \in Output \ {o} : d.out[p] = out[p]
    /\ \A v \in View :
          d.view[v] = IF Alive(desk, v) /\ view[v].output = o
                      THEN Migrate(view[v], to) ELSE view[v]
    /\ d.seat.grabbed = seat.grabbed
    /\ \/ d.seat.focused_view = seat.focused_view
       \/ /\ d.seat.focused_view = NoView
          /\ d.view[seat.focused_view].output = NoOutput

(* A migrated view is a view. *)
LEMMA MigrateType ==
    ASSUME TypeOK, NEW v \in View, NEW to \in MaybeOutput
    PROVE  Migrate(view[v], to) \in ViewState
<1>1. view[v] \in ViewState
  BY DEF TypeOK
<1>2. \A t \in Tagset : [view[v] EXCEPT !.output = to, !.floating = FALSE,
                             !.tags = t, !.shown = TRUE] \in ViewState
  BY <1>1 DEF ViewState
<1>3. to # NoOutput => out[to].tagset \in Tagset
  BY DEF TypeOK, OutputState, MaybeOutput
<1>4. [view[v] EXCEPT !.output = NoOutput] \in ViewState
  BY <1>1 DEF ViewState, MaybeOutput
<1> QED BY <1>2, <1>3, <1>4 DEF Migrate

(* Unplugging is such a change, arranged where the views went. *)
LEMMA UnpluggedDesk ==
    ASSUME TypeOK, NEW o \in Output, NEW to \in MaybeOutput, DestroyOutput(o, to)
    PROVE  \E d \in Desk : Commit(Arrange(d, {to})) /\ Unplugging(d, o, to)
<1> DEFINE moved == {v \in View : Alive(desk, v) /\ view[v].output = o}
           views == [v \in View |-> IF v \in moved THEN Migrate(view[v], to)
                                                  ELSE view[v]]
           d1 == [desk EXCEPT !.view = views]
           f == seat.focused_view
           homeless == f # NoView /\ d1.view[f].output = NoOutput
           fv == IF homeless THEN NoView ELSE f
           fo == Replaced(seat.focused_output, o, to)
           d == [d1 EXCEPT !.out[o] = Disconnected,
                           !.seat.focused_output = fo, !.seat.focused_view = fv]
<1>1. views \in [View -> ViewState]
  BY MigrateType DEF TypeOK
<1>2. \A v \in View : views[v] = IF Alive(desk, v) /\ view[v].output = o
                                THEN Migrate(view[v], to) ELSE view[v]
  OBVIOUS
<1>3. /\ desk \in Desk /\ desk.out = out /\ desk.seat = seat
      /\ seat \in SeatState /\ seat.focused_output \in MaybeOutput
  BY DeskType DEF Desk, SeatState
<1> HIDE DEF views
<1>4. d1 \in Desk /\ d1.view = views /\ d1.out = out /\ d1.seat = seat
  BY <1>1, <1>3 DEF Desk
<1>5. Commit(Arrange(d, {to}))
  BY <1>3, <1>4 DEF DestroyOutput, views
<1>6. to # o
  BY DesktopConstants DEF DestroyOutput, FirstOf
<1> HIDE DEF d1
<1>7. fv = f \/ (fv = NoView /\ views[f].output = NoOutput)
  BY <1>4
<1>8. fv \in MaybeView /\ fo \in MaybeOutput
  BY <1>3 DEF SeatState, MaybeView, Replaced
<1>9. Disconnected \in OutputState
  BY DesktopConstants DEF Disconnected, OutputState, Tagset
<1> HIDE DEF fv, fo
<1>10. /\ d \in Desk /\ d.view = views /\ d.out[o] = Disconnected
       /\ \A p \in Output \ {o} : d.out[p] = out[p]
       /\ d.seat.focused_view = fv /\ d.seat.grabbed = seat.grabbed
  BY <1>3, <1>4, <1>8, <1>9 DEF Desk, SeatState
<1> HIDE DEF d, f
<1>11. Unplugging(d, o, to)
  BY <1>2, <1>6, <1>7, <1>10 DEF Unplugging, f
<1> QED BY <1>5, <1>10, <1>11

(* Unplugging an output arranges the one its views go to; the output that is
   gone has no view, no layout and no adaptive sync.                         *)
LEMMA DestroyOutputOrderly ==
    ASSUME TypeOK, TypeOK', Sound(desk), Orderly(desk), NEW o \in Output,
           NEW to \in MaybeOutput, DestroyOutput(o, to)
    PROVE  Orderly(desk')
<1>1. PICK d \in Desk : Commit(Arrange(d, {to})) /\ Unplugging(d, o, to)
  BY UnpluggedDesk
<1>2. desk \in Desk /\ desk.view = view /\ desk.out = out /\ desk.seat = seat
  BY DeskType
<1> DEFINE e == Arrange(d, {to})
           Y == Nowhere \cup {o}
           X == Y \cup {to}
<1>3. ASSUME NEW v \in View
      PROVE  /\ d.view[v].anim = view[v].anim
             /\ d.view[v].output # o
             /\ d.view[v] = view[v] \/ (view[v].output = o /\ d.view[v].output = to)
  <2>1. /\ view[v] \in ViewState
        /\ ~Alive(desk, v) => view[v].output = NoOutput
    BY <1>2 DEF TypeOK, Sound, Linked
  <2>2. CASE Alive(desk, v) /\ view[v].output = o
    <3>1. d.view[v] = Migrate(view[v], to) /\ to # o
      BY <1>1, <2>2 DEF Unplugging
    <3> QED BY <2>1, <2>2, <3>1 DEF Migrate, ViewState
  <2>3. CASE ~(Alive(desk, v) /\ view[v].output = o)
    <3>1. d.view[v] = view[v]
      BY <1>1, <2>3 DEF Unplugging
    <3> QED BY <2>1, <2>3, <3>1, DesktopConstants
  <2> QED BY <2>2, <2>3
<1>4. Within(desk, d, X)
  <2>1. ASSUME NEW v \in View
        PROVE  \/ /\ d.view[v] = desk.view[v]
                  /\ d.seat.focused_view = v <=> desk.seat.focused_view = v
               \/ /\ Mapped(desk, v) => desk.view[v].output \in X
                  /\ Mapped(d, v) => d.view[v].output \in X
    <3>1. CASE d.view[v] # view[v]
      BY <1>2, <1>3, <3>1
    <3>2. CASE d.view[v] = view[v] /\ d.seat.focused_view = seat.focused_view
      BY <1>2, <3>2
    <3>3. CASE /\ d.view[v] = view[v] /\ d.seat.focused_view = NoView
               /\ d.view[seat.focused_view].output = NoOutput
      BY <1>2, <3>3, DesktopConstants DEF Nowhere
    <3> QED BY <1>1, <3>1, <3>2, <3>3 DEF Unplugging
  <2>2. \A p \in Output \ X : d.out[p] = desk.out[p]
    BY <1>1, <1>2 DEF Unplugging
  <2> QED BY <2>1, <2>2 DEF Within
<1>5. Tidy(d, X)
  <2>1. Nowhere \subseteq X
    OBVIOUS
  <2> HIDE DEF X
  <2> QED BY <1>2, <1>4, <2>1, WithinTidy DEF Orderly
<1>6. e \in Desk /\ e.seat = d.seat /\ Even(d, e)
  BY ArrangeType, ArrangeKept, ArrangeEven DEF Kept
<1>7. Tidy(e, Y)
  <2> HIDE DEF Y
  <2> QED BY <1>5, ArrangeTidy
<1>8. e.out[o] = Disconnected
  BY <1>1, ArrangeElsewhere DEF Unplugging
<1> HIDE DEF e
<1>9. Tidy(e, Nowhere)
  <2>1. \A v \in View : e.view[v].output # o
    BY <1>3, <1>6 DEF Even, SameLayout, SameRole
  <2>2. e.out[o].laid = {} /\ ~e.out[o].sync
    BY <1>8 DEF Disconnected
  <2> QED BY <1>6, <1>7, <2>1, <2>2, VacantTidy
<1>10. AnimRight(e)
  <2>1. ~Steady
    BY DEF DestroyOutput, Issued, Steady
  <2>2. ASSUME NEW v \in View PROVE AnimEnabled \/ e.view[v].anim = "none"
    BY <1>2, <1>3, <1>6 DEF Even, Calm, Orderly, AnimRight, AnimAt
  <2> QED BY <2>1, <2>2 DEF AnimRight, AnimAt
<1>11. Free(e)
  BY <1>1, <1>2, <1>6 DEF Free, Orderly, Unplugging
<1>12. Commit(e)
  BY <1>1 DEF e
<1> QED BY <1>6, <1>9, <1>10, <1>11, <1>12, CommitOrderly DEF Orderly

(* The last frame of an animation disables a node only off the screen. *)
LEMMA FinishAnimOrderly ==
    ASSUME TypeOK, TypeOK', Orderly(desk), NEW v \in View, FinishAnim(v)
    PROVE  Orderly(desk')
<1>1. /\ desk \in Desk /\ desk.view = view /\ desk.out = out /\ desk.seat = seat
      /\ desk' \in Desk
      /\ desk'.view = view' /\ desk'.out = out' /\ desk'.seat = seat'
  BY DeskType, DeskAfter
<1>2. /\ out' = out /\ seat' = seat
      /\ SameRole(view[v], view'[v]) /\ view'[v].box = view[v].box
      /\ view'[v].anim = "none" /\ view[v].anim # "none"
      /\ view[v].anim # "disable" => view'[v].shown = view[v].shown
      /\ \A w \in View \ {v} : view'[w] = view[w]
  <2>1. view \in [View -> ViewState] /\ view[v] \in ViewState
    BY DEF TypeOK
  <2> DEFINE shown == view[v].shown /\ view[v].anim # "disable"
             faded == view[v].anim = "close"
             closing == view[v].closing /\ view[v].anim # "close"
             r == [view[v] EXCEPT !.anim = "none", !.shown = shown,
                                  !.faded = faded, !.closing = closing]
  <2>2. /\ view' = [view EXCEPT ![v] = r]
        /\ out' = out /\ seat' = seat /\ view[v].anim # "none"
    BY DEF FinishAnim
  <2>3. view[v].anim # "disable" => shown = view[v].shown
    BY <2>1 DEF ViewState
  <2> HIDE DEF shown, faded, closing
  <2>4. /\ SameRole(view[v], r) /\ r.box = view[v].box
        /\ r.anim = "none" /\ r.shown = shown
    BY <2>1 DEF ViewState, SameRole
  <2> HIDE DEF r
  <2>5. view'[v] = r /\ \A w \in View \ {v} : view'[w] = view[w]
    BY <2>1, <2>2
  <2> QED BY <2>2, <2>3, <2>4, <2>5
<1>3. SameLayout(desk, desk')
  BY <1>1, <1>2 DEF SameLayout, SameRole
<1>4. /\ \A w \in View : Mapped(desk', w) <=> Mapped(desk, w)
      /\ \A p : Showing(desk', p) = Showing(desk, p) /\ Tiled(desk', p) = Tiled(desk, p)
  BY <1>1, <1>3, SameSets
<1>5. AnimEnabled /\ (Steady /\ Mapped(desk, v) /\ view[v].anim = "disable"
                       => ~OnShownTag(desk, v))
  BY <1>1, <1>2 DEF Orderly, AnimRight, AnimAt
<1>6. SyncTidy(desk', Nowhere)
  BY <1>1, <1>2, <1>4 DEF Orderly, Tidy, SyncTidy, SyncAt
<1>7. LaidTidy(desk', Nowhere)
  <2> SUFFICES ASSUME Rearranges, NEW p \in Output \ Nowhere PROVE LaidAt(desk', p)
    BY DEF LaidTidy
  <2>1. LaidAt(desk, p) /\ desk'.out[p].laid = desk.out[p].laid
    BY <1>1, <1>2 DEF Orderly, Tidy, LaidTidy
  <2>2. desk.out[p].laid \subseteq View
    BY <1>1 DEF Desk, OutputState
  <2>3. \A w \in View : /\ desk'.view[w].fullscreen = desk.view[w].fullscreen
                        /\ desk'.view[w].floating = desk.view[w].floating
    BY <1>3 DEF SameLayout, SameRole
  <2> QED BY <1>4, <2>1, <2>2, <2>3 DEF LaidAt
<1>8. ViewsTidy(desk', Nowhere)
  <2> SUFFICES ASSUME NEW w \in View, desk'.view[w].output \notin Nowhere
               PROVE  ViewFresh(desk', w)
    BY DEF ViewsTidy
  <2>1. desk'.view[w].output = desk.view[w].output
    BY <1>3 DEF SameLayout, SameRole
  <2>2. ViewFresh(desk, w)
    BY <2>1 DEF Orderly, Tidy, ViewsTidy
  <2>3. desk'.view[w].box = desk.view[w].box
    BY <1>1, <1>2
  <2>4. Ungrabbed => SlotAt(desk', w)
    BY <1>4, <2>1, <2>2, <2>3 DEF ViewFresh, SlotAt
  <2>5. EnabledAt(desk', w) \/ ~Steady
    <3>1. CASE w = v /\ view[v].anim = "disable" /\ Steady
      <4>1. w \notin Showing(desk, desk.view[w].output)
        BY <1>5, <3>1 DEF Showing
      <4> QED BY <1>4, <2>1, <4>1 DEF EnabledAt
    <3>2. CASE ~(w = v /\ view[v].anim = "disable") /\ Steady
      <4>1. desk'.view[w].shown = desk.view[w].shown
        BY <1>1, <1>2, <3>2
      <4> QED BY <1>4, <2>1, <2>2, <3>2, <4>1 DEF EnabledAt, ViewFresh
    <3> QED BY <3>1, <3>2
  <2> QED BY <1>5, <2>4, <2>5 DEF ViewFresh
<1>9. AnimRight(desk')
  <2>1. \A w \in View : desk'.view[w].anim \in {"none", desk.view[w].anim}
    BY <1>1, <1>2
  <2> QED BY <1>1, <1>3, <2>1, EvenAnim, AnimKeptRight DEF Orderly
<1>10. Free(desk')
  BY <1>1, <1>2 DEF Orderly, Free
<1> QED BY <1>6, <1>7, <1>8, <1>9, <1>10 DEF Orderly, Tidy

(* Hotplug, mode changes and frames leave the desk orderly. *)
LEMMA OutputStepOrderly ==
    ASSUME TypeOK, TypeOK', Sound(desk), Orderly(desk), OutputStep
    PROVE  Orderly(desk')
<1>1. desk \in Desk
  BY DeskType
<1>2. ASSUME RequestState PROVE Orderly(desk')
  BY <1>1, <1>2, ArrangeOrderly, CommitOrderly DEF RequestState
<1>3. ASSUME NEW o \in Output, ArrangeOutput(o) PROVE Orderly(desk')
  BY <1>1, <1>3, ArrangeOrderly, CommitOrderly DEF ArrangeOutput
<1> HIDE DEF Orderly
<1> QED BY <1>2, <1>3, ConnectOutputOrderly, DestroyOutputOrderly,
           FinishAnimOrderly DEF OutputStep

(* The lock takes the keyboard; unlocking gives it back to the focused view. *)
LEMMA LockStepOrderly ==
    ASSUME TypeOK, TypeOK', Orderly(desk), LockStep
    PROVE  Orderly(desk')
<1>1. ASSUME Lock \/ MapLockSurface \/ DestroyLockSurface \/ CrashLock
      PROVE  Orderly(desk')
  <2>1. seat \in SeatState
    BY DEF TypeOK
  <2>2. /\ UNCHANGED <<view, out>>
        /\ seat'.focused_view = seat.focused_view
        /\ seat'.grabbed = seat.grabbed
    BY <1>1, <2>1 DEF Lock, MapLockSurface, DestroyLockSurface, CrashLock, SeatState
  <2> QED BY <2>2, SeatOrderly
<1>2. ASSUME Unlock PROVE Orderly(desk')
  <2> DEFINE f == seat.focused_view
             d == [desk EXCEPT !.seat.lock = "none"]
             s == SetFocused(d, f, TRUE)
             got == EnteredBy(d, f)
             e == IF f = NoView THEN d ELSE [s EXCEPT !.seat.kb = got]
  <2>1. /\ desk \in Desk /\ desk.seat = seat /\ f \in MaybeView /\ desk' \in Desk
    BY DeskType, DeskAfter DEF Desk, SeatState
  <2>2. Commit(e)
    BY <1>2 DEF Unlock
  <2>3. /\ d \in Desk /\ d.view = desk.view /\ d.out = desk.out
        /\ d.seat.focused_view = f /\ d.seat.grabbed = desk.seat.grabbed
    BY <2>1 DEF Desk, SeatState
  <2>k. f # NoView => got \in MaybeView \cup {LockSurface}
    <3> HIDE DEF d
    <3> QED BY <2>1, <2>3 DEF EnteredBy, Desk, SeatState, MaybeView
  <2> HIDE DEF d, f, got
  <2>4. Told(desk, d)
    BY <2>3, SeatTold
  <2>5. ASSUME f # NoView
        PROVE  s \in Desk /\ Told(d, s) /\ s.seat = d.seat
    <3>1. f \in View /\ TRUE \in BOOLEAN
      BY <2>1, <2>5 DEF MaybeView
    <3>2. s \in Desk
      BY <2>3, <3>1, SetFocusedType, Zenon
    <3>3. Told(d, s) /\ s.seat = d.seat
      BY <2>3, <3>1, SetFocusedTold, Zenon
    <3> QED BY <3>2, <3>3
  <2> HIDE DEF s
  <2>6. Told(desk, e) /\ e \in Desk
        /\ e.seat.focused_view = f /\ e.seat.grabbed = desk.seat.grabbed
    <3>1. CASE f = NoView
      BY <2>3, <2>4, <3>1
    <3>2. CASE f # NoView
      <4>1. /\ e.view = s.view /\ e.out = s.out /\ e \in Desk
            /\ e.seat.focused_view = s.seat.focused_view
            /\ e.seat.grabbed = s.seat.grabbed
        BY <2>1, <2>5, <2>k, <3>2 DEF Desk, SeatState
      <4> HIDE DEF e
      <4>2. Told(s, e)
        BY <4>1, SeatTold
      <4> QED BY <2>3, <2>4, <2>5, <3>2, <4>1, <4>2, ToldTrans
    <3> QED BY <3>1, <3>2
  <2>7. desk.seat.focused_view = f
    BY <2>1 DEF f
  <2> HIDE DEF e
  <2>8. Tidy(e, Nowhere) /\ Even(desk, e)
    BY <2>1, <2>6, <2>7, SeatTidy DEF Orderly
  <2> QED BY <2>1, <2>2, <2>6, <2>8, EvenOrderly, CommitOrderly
<1> QED BY <1>1, <1>2 DEF LockStep

(* The layout is orderly between any two handlers. *)
LEMMA StepOrderly ==
    ASSUME IInv, IInv', Orderly(desk), [Next]_vars
    PROVE  Orderly(desk')
<1>1. TypeOK /\ TypeOK' /\ Sound(desk)
  BY DEF IInv
<1>2. CASE UNCHANGED vars
  <2>1. desk' = desk
    BY <1>2 DEF vars, desk
  <2> QED BY <2>1
<1> QED BY <1>1, <1>2, ClientStepOrderly, UserStepOrderly, OutputStepOrderly,
           LockStepOrderly DEF Next

(* Nothing is mapped at the start. *)
LEMMA InitOrderly == Init => Orderly(desk)
<1> SUFFICES ASSUME Init PROVE Orderly(desk)
  OBVIOUS
<1>1. \A v \in View : /\ ~Mapped(desk, v) /\ desk.view[v].anim = "none"
  BY DEF Init, desk, Mapped, Absent
<1>2. \A o \in Output : ~desk.out[o].sync /\ desk.out[o].laid = {}
  BY DEF Init, desk, Disconnected
<1>3. \A o : Showing(desk, o) = {} /\ Tiled(desk, o) = {}
  BY <1>1 DEF Showing, Tiled
<1>4. SyncTidy(desk, Nowhere)
  BY <1>2, <1>3 DEF SyncTidy, SyncAt
<1>5. LaidTidy(desk, Nowhere)
  BY <1>2, <1>3 DEF LaidTidy, LaidAt
<1>6. ViewsTidy(desk, Nowhere)
  BY <1>1, UnshownFresh DEF ViewsTidy
<1>7. AnimRight(desk)
  BY <1>1 DEF AnimRight, AnimAt
<1>8. Free(desk)
  BY DEF Init, desk, Free
<1> QED BY <1>4, <1>5, <1>6, <1>7, <1>8 DEF Orderly, Tidy

(* The desk is orderly at all times. *)
LEMMA AlwaysOrderly == Spec => []Orderly(desk)
<1>1. IInv /\ IInv' /\ Orderly(desk) /\ [Next]_vars => Orderly(desk)'
  BY StepOrderly
<1> QED BY <1>1, InitOrderly, Inductive, PTL DEF Spec

-----------------------------------------------------------------------------
(* Theorems *)

(* No handler leaves adaptive sync on, or off, for an output against what its
   windows and the focus ask for: updateAdaptiveSync() is called wherever they
   change, except that client:move_to_output forgets the output left behind,
   and the constructor of an Output the rule it has just applied.            *)
THEOREM SyncAlwaysFresh ==
    ASSUME Decides
    PROVE  Spec => []SyncFresh
<1>1. Orderly(desk) => SyncFresh
  BY DesktopConstants
     DEF Orderly, Tidy, SyncTidy, SyncAt, SyncFresh, Connected, Nowhere, desk
<1> QED BY <1>1, AlwaysOrderly, PTL

(* The layout on screen is always the one of the windows now tiled, whatever
   moved, closed, floated or was unplugged: every setter ends in arrange(), but
   for client:move_to_output on the output left behind.                      *)
THEOREM LayoutAlwaysFresh ==
    ASSUME Rearranges
    PROVE  Spec => []LayoutFresh
<1>1. Orderly(desk) => LayoutFresh
  BY DesktopConstants
     DEF Orderly, Tidy, LaidTidy, LaidAt, LayoutFresh, Connected, Nowhere, desk
<1> QED BY <1>1, AlwaysOrderly, PTL

(* A tiled window that is visible is in the slot arrange() gave it on its own
   output, as long as no window is dragged: a drag may outlive the floating
   state it began with.                                                      *)
THEOREM TiledAlwaysInSlot ==
    ASSUME Ungrabbed
    PROVE  Spec => []TiledInSlot
<1>1. Orderly(desk) => TiledInSlot
  <2> SUFFICES ASSUME Orderly(desk), NEW o \in Connected(desk),
                      NEW v \in Tiled(desk, o)
               PROVE  view[v].box = [kind |-> "slot", on |-> o]
    BY DEF TiledInSlot
  <2>1. v \in View /\ desk.view[v].output = o /\ o \notin Nowhere
    BY DesktopConstants DEF Tiled, Showing, Connected, Nowhere
  <2>2. SlotAt(desk, v)
    BY <2>1 DEF Orderly, Tidy, ViewsTidy, ViewFresh
  <2> QED BY <2>1, <2>2 DEF SlotAt, desk
<1> QED BY <1>1, AlwaysOrderly, PTL

(* With animations off, what the scene shows is what tags, tagsets, outputs and
   minimizing select, after any sequence of handlers.                        *)
THEOREM ShownAlwaysVisible ==
    ASSUME ~AnimEnabled
    PROVE  Spec => []ShownIffVisible
<1>1. Orderly(desk) => ShownIffVisible
  BY DEF Orderly, Tidy, ViewsTidy, ViewFresh, ShownAt, ShownIffVisible, Nowhere,
         desk
<1> QED BY <1>1, AlwaysOrderly, PTL

(* No animation that ends leaves a visible window's node disabled, unless its
   tags or its output changed during a slide: setTags() does not stop one.   *)
THEOREM VisibleAlwaysEnabled ==
    ASSUME Steady
    PROVE  Spec => []VisibleStaysEnabled
<1>1. Orderly(desk) => VisibleStaysEnabled
  BY DEF Orderly, Tidy, ViewsTidy, ViewFresh, EnabledAt, VisibleStaysEnabled,
         Nowhere, desk
<1> QED BY <1>1, AlwaysOrderly, PTL

(* What arrange() lays out is what tiles. *)
LEMMA ArrangeLaid ==
    ASSUME NEW d \in Desk, NEW O, NEW o \in Output \cap O
    PROVE  Arrange(d, O).out[o].laid = Tiled(d, o)
<1> DEFINE p == [d EXCEPT !.view = Placed(d, O), !.out = Laid(d, O)]
<1>1. Placing(d, O, p)
  BY PlacedFresh
<1>2. Arrange(d, O) = UpdateSync(p, O)
  BY DEF Arrange
<1> HIDE DEF p
<1>3. p \in Desk /\ p.out[o].laid = Tiled(d, o)
  BY <1>1 DEF Placing
<1>4. SyncTidy(p, Output \cup O)
  BY DEF SyncTidy
<1> DEFINE X == Output
<1>5. SyncTidy(p, X \cup O)
  BY <1>4
<1> HIDE DEF X
<1>6. Light(p, UpdateSync(p, O))
  BY <1>3, <1>5, UpdateSyncTidy
<1> QED BY <1>2, <1>3, <1>6 DEF Light

(* An unplugged output's windows are on the first other one before the handler
   returns, on its tags and in its layout: neither the focus, the list order
   nor the tag a window was hidden on can lose one.                          *)
THEOREM UnpluggedKept == Spec => UnplugKeepsWindows
<1> DEFINE Safe(o, v) ==
              LET d == [view |-> view', out |-> out', seat |-> seat']
                  there == view'[v].output
              IN  /\ there \in Connected(d)
                  /\ view[v].minimized \/ v \in Showing(d, there)
                  /\ v \in Tiled(d, there) => v \in out'[there].laid
<1>1. ASSUME IInv, IInv', [Next]_vars,
             NEW o \in Connected(desk) \ Connected(desk)', NEW v \in View,
             Mapped(desk, v), view[v].output = o, Connected(desk)' # {}
      PROVE  Safe(o, v)
  <2>1. /\ desk \in Desk /\ desk.view = view /\ desk.out = out
        /\ desk' \in Desk /\ desk'.view = view' /\ desk'.out = out' /\ TypeOK
    BY <1>1, DeskType, DeskAfter DEF IInv
  <2>2. Connected(desk)' = Connected(desk')
    OBVIOUS
  <2>3. o \in Output /\ out[o].connected /\ ~out'[o].connected
    BY <1>1, <2>1, <2>2 DEF Connected
  <2>4. Unplug
    <3>1. ~Plugged(desk, desk')
      BY <2>1, <2>3 DEF Plugged
    <3> QED BY <1>1, <3>1, StepSound
  <2>5. PICK p \in Output, to \in MaybeOutput : DestroyOutput(p, to)
    BY <2>4 DEF Unplug
  <2>6. PICK d \in Desk : Commit(Arrange(d, {to})) /\ Unplugging(d, p, to)
    BY <2>1, <2>5, UnpluggedDesk
  <2> DEFINE e == Arrange(d, {to})
  <2>7. e \in Desk /\ Kept(d, e) /\ Even(d, e)
    BY ArrangeType, ArrangeKept, ArrangeEven
  <2>8. desk' = e
    BY <2>6, <2>7 DEF Commit, desk, Desk
  <2>9. to \in Output => e.out[to].laid = Tiled(d, to)
    BY ArrangeLaid
  <2> HIDE DEF e
  <2>10. \A q \in Output \ {p} : out'[q].connected = out[q].connected
    BY <2>1, <2>6, <2>7, <2>8 DEF Unplugging, Kept
  <2>11. o = p
    BY <2>3, <2>10
  <2>12. to \in Output /\ to # o /\ out[to].connected
    <3>1. FirstOf(to, Connected(desk) \ {p}, older, NoOutput)
      BY <2>5 DEF DestroyOutput
    <3>2. Connected(desk') \subseteq Connected(desk) \ {p}
      BY <2>1, <2>3, <2>10, <2>11 DEF Connected
    <3>3. to \in Connected(desk) \ {p}
      BY <1>1, <2>2, <3>1, <3>2 DEF FirstOf
    <3> QED BY <2>1, <2>11, <3>3 DEF Connected
  <2>13. /\ d.view[v].output = to /\ d.view[v].phase = "mapped"
         /\ d.view[v].minimized = view[v].minimized
         /\ d.view[v].tags = out[to].tagset
    <3>1. d.view[v] = Migrate(view[v], to)
      BY <1>1, <2>1, <2>6, <2>11 DEF Unplugging, Alive, Mapped
    <3>2. view[v] \in ViewState /\ view[v].phase = "mapped"
      BY <1>1, <2>1 DEF TypeOK, Mapped
    <3>3. to # NoOutput
      BY <2>12, DesktopConstants
    <3> QED BY <3>1, <3>2, <3>3 DEF Migrate, ViewState
  <2>14. d.out[to] = out[to] /\ out[to].tagset # {}
    BY <2>1, <2>6, <2>11, <2>12 DEF Unplugging, TypeOK, OutputState, Tagset
  <2>15. ~view[v].minimized => v \in Showing(d, to)
    BY <2>12, <2>13, <2>14, DesktopConstants DEF Showing, Mapped, OnShownTag
  <2>16. Showing(e, to) = Showing(d, to) /\ Tiled(e, to) = Tiled(d, to)
    BY <2>7, SameSets DEF Even
  <2>17. view'[v].output = to
    BY <2>1, <2>7, <2>8, <2>13 DEF Kept
  <2>18. to \in Connected(desk')
    BY <2>1, <2>10, <2>11, <2>12 DEF Connected
  <2>19. /\ view[v].minimized \/ v \in Showing(desk', to)
         /\ v \in Tiled(desk', to) => v \in out'[to].laid
    BY <2>1, <2>8, <2>9, <2>12, <2>15, <2>16
  <2> QED BY <2>17, <2>18, <2>19 DEF desk
<1>2. IInv /\ IInv' /\ [Next]_vars
        => [\A o \in Connected(desk) \ Connected(desk)' :
              \A v \in View :
                 Mapped(desk, v) /\ view[v].output = o /\ Connected(desk)' # {}
                 => Safe(o, v)]_vars
  BY <1>1
<1> QED BY <1>2, Inductive, PTL DEF Spec, UnplugKeepsWindows
=============================================================================
