-------------------------- MODULE Configure_proof --------------------------
(***************************************************************************)
(* The size negotiation keeps its bookkeeping, and no tiled client that    *)
(* draws the wrong width is left waiting, for any widths, minima and       *)
(* number of requests.                                                     *)
(***************************************************************************)
EXTENDS Configure, TLAPS

(* Of numbers, Max is one that is as large as each.                          *)
LEMMA MaxOfTwo ==
    ASSUME NEW a \in Int, NEW b \in Int
    PROVE  Max({a, b}) = IF a >= b THEN a ELSE b
<1>1. \E x \in {a, b} : \A y \in {a, b} : x >= y
  OBVIOUS
<1>2. Max({a, b}) \in {a, b} /\ \A y \in {a, b} : Max({a, b}) >= y
  BY <1>1 DEF Max
<1> QED
  BY <1>2

(* The same of three, one of which is not negative: the content's width.     *)
LEMMA MaxOfThree ==
    ASSUME NEW a \in Nat, NEW b \in Int, NEW c \in Int
    PROVE  Max({a, b, c}) \in Nat
<1>1. \E x \in {a, b, c} : \A y \in {a, b, c} : x >= y
  OBVIOUS
<1>2. Max({a, b, c}) \in {a, b, c} /\ \A y \in {a, b, c} : Max({a, b, c}) >= y
  BY <1>1 DEF Max
<1> QED
  BY <1>2

(* The greater of two widths is one, and no less than either.                *)
LEMMA GreaterWidth ==
    ASSUME NEW a \in Int, NEW b \in Int
    PROVE  Greater(a, b) = IF a >= b THEN a ELSE b
  BY MaxOfTwo DEF Greater

(* A width in steps is a width.                                              *)
LEMMA StepWidth ==
    ASSUME NEW n \in Nat
    PROVE  /\ InSteps(n) \in Nat \ {0}
           /\ Step = 1 /\ n > 0 => InSteps(n) = n
<1>1. Step \in Nat \ {0}
  BY ConfigureAssumption
<1>2. n % Step \in Int
  BY <1>1
<1>3. Step = 1 => n % Step = 0
  OBVIOUS
<1> QED
  BY <1>2, <1>3, GreaterWidth DEF InSteps

(* What TypeOK says of the window. *)
Shaped(w) ==
    /\ w \in Window
    /\ w.kind = "xdg" => ~ w.unmanaged /\ ~ w.pending_configure
    /\ w.kind = "x11" => ~ w.scheduled
    /\ w.mapped => w.ready /\ w.drawn > 0

(* Placing a window changes none of these. *)
Same(r, w) ==
    /\ r.kind = w.kind /\ r.parent = w.parent /\ r.unmanaged = w.unmanaged
    /\ r.ready = w.ready /\ r.mapped = w.mapped /\ r.output = w.output
    /\ r.min = w.min /\ r.drawn = w.drawn

(* The width it is to draw was the last one asked for. *)
LastAsked(w) ==
    w.asked # <<>> => w.asked[Len(w.asked)] = Expected(w)

(* A window the property speaks of: of an X11 client that draws in steps it is *)
(* asked once only.                                                            *)
Exact(w) == Tiled(w) /\ (w.kind = "x11" => Step = 1)

(* Where it draws another width it is asked, and where it is asked it is asked *)
(* for the right one at last: a client that takes no notice of its minimum     *)
(* draws that.                                                                 *)
Right(w) ==
    Exact(w) => /\ w.drawn # Expected(w) => InFlight(w)
                /\ w.kind = "x11" => LastAsked(w)

(* After a commit, before it is handled. *)
Unhandled(w) ==
    Exact(w) /\ w.kind = "x11"
        => /\ LastAsked(w)
           /\ w.drawn # Expected(w) /\ w.pending_configure => InFlight(w)

-----------------------------------------------------------------------------
(* What the handlers call *)

(* ApplyBox sets the clip, and nothing else. *)
LEMMA ApplyBoxClips ==
    ASSUME NEW w, Shaped(w), NEW box \in Nat
    PROVE  \E clip \in Nat : ApplyBox(w, box) = [w EXCEPT !.clip = clip]
<1>1. w \in Window /\ w.min \in Nat /\ w.drawn \in Nat /\ w.clip \in Nat /\ Border \in Nat
  BY ConfigureAssumption DEF Shaped, Window
<1>2. Content(w, box) \in Int
  BY <1>1 DEF Content
<1>3. ClipXdg(w, box) \in Nat
  BY <1>1, <1>2, MaxOfThree DEF ClipXdg
<1>4. ClipX11(w, box) \in Nat
  BY <1>1, <1>2, MaxOfThree, GreaterWidth DEF ClipX11
<1>5. w = [w EXCEPT !.clip = w.clip]
  BY <1>1 DEF Window
<1> QED
  BY <1>1, <1>3, <1>4, <1>5 DEF ApplyBox

(* So it leaves a window of its shape that is asked as before. *)
LEMMA ApplyBoxSame ==
    ASSUME NEW w, Shaped(w), NEW box \in Nat, NEW r, r = ApplyBox(w, box)
    PROVE  /\ Shaped(r) /\ Same(r, w)
           /\ r.floating = w.floating /\ r.fullscreen = w.fullscreen /\ r.geo = w.geo
           /\ r.asked = w.asked /\ r.scheduled = w.scheduled
           /\ r.pending_configure = w.pending_configure
           /\ r.size = w.size /\ r.floating_geo = w.floating_geo
           /\ Right(w) => Right(r)
<1>1. PICK clip \in Nat : r = [w EXCEPT !.clip = clip]
  BY ApplyBoxClips
<1>2. /\ Shaped(r) /\ Same(r, w)
      /\ r.floating = w.floating /\ r.fullscreen = w.fullscreen /\ r.geo = w.geo
      /\ r.asked = w.asked /\ r.scheduled = w.scheduled
      /\ r.pending_configure = w.pending_configure
      /\ r.size = w.size /\ r.floating_geo = w.floating_geo
  BY <1>1 DEF Shaped, Same, Window
<1> QED
  BY <1>2 DEF Right, Exact, Tiled, Expected, InFlight, LastAsked, Same

(* An xdg window that is asked has a configure event scheduled; an X11 window has *)
(* one that says so on its way.                                                   *)
Told(w) ==
    /\ w.kind = "xdg" => w.scheduled
    /\ w.kind = "x11" => w.asked # <<>> /\ LastAsked(w)

(* A window that was told its size is not left waiting, whatever it draws.    *)
LEMMA ToldIsRight ==
    ASSUME NEW w, Shaped(w), Told(w)
    PROVE  Right(w)
<1>1. w.kind = "xdg" \/ w.kind = "x11"
  BY ConfigureAssumption DEF Shaped, Window
<1> QED
  BY <1>1 DEF Told, Right, InFlight

(* wlr_xdg_toplevel_set_size *)
LEMMA ScheduleSame ==
    ASSUME NEW w, Shaped(w), w.kind = "xdg", NEW size \in Nat, NEW r, r = Schedule(w, size)
    PROVE  /\ Shaped(r) /\ Same(r, w) /\ Told(r)
           /\ r.floating = w.floating /\ r.fullscreen = w.fullscreen /\ r.geo = w.geo
           /\ r.floating_geo = w.floating_geo
  BY DEF Schedule, Shaped, Same, Window, Told

(* wlr_xwayland_surface_configure: the last width asked for is this one. *)
LEMMA NotifySame ==
    ASSUME NEW w, Shaped(w), w.kind = "x11", NEW width \in Nat,
           NEW r, r = Notify(w, width)
    PROVE  /\ Shaped(r) /\ Same(r, w)
           /\ r.floating = w.floating /\ r.fullscreen = w.fullscreen /\ r.geo = w.geo
           /\ r.floating_geo = w.floating_geo
           /\ r.asked # <<>> /\ r.asked[Len(r.asked)] = width
<1>1. w.asked \in Seq(Nat)
  BY DEF Shaped, Window
<1>2. r = [w EXCEPT !.size = width, !.asked = Append(w.asked, width)]
  BY DEF Notify
<1>3. /\ Append(w.asked, width) \in Seq(Nat) /\ Append(w.asked, width) # <<>>
      /\ Append(w.asked, width)[Len(Append(w.asked, width))] = width
  BY <1>1
<1>4. r.asked = Append(w.asked, width)
  BY <1>2 DEF Shaped, Window
<1>5. /\ Shaped(r) /\ Same(r, w)
      /\ r.floating = w.floating /\ r.fullscreen = w.fullscreen /\ r.geo = w.geo
      /\ r.floating_geo = w.floating_geo
  BY <1>2, <1>3, ZenonT(60) DEF Shaped, Same, Window
<1> QED
  BY <1>3, <1>4, <1>5

(* Noting whether a size was asked for changes no more. *)
LEMMA PendingSame ==
    ASSUME NEW w, Shaped(w), w.kind = "x11", NEW r,
           r = [w EXCEPT !.pending_configure = TRUE] \/ r = [w EXCEPT !.pending_configure = FALSE]
    PROVE  /\ Shaped(r) /\ Same(r, w)
           /\ r.floating = w.floating /\ r.fullscreen = w.fullscreen /\ r.geo = w.geo
           /\ r.floating_geo = w.floating_geo /\ r.asked = w.asked
           /\ r.scheduled = w.scheduled
  BY ZenonT(60) DEF Shaped, Same, Window

(* configureBackend with the box it has tells a window that is not fullscreen *)
(* the width it is to draw.                                                   *)
LEMMA ConfigureTells ==
    ASSUME NEW w, Shaped(w), NEW r, r = ConfigureBackend(w, w.geo)
    PROVE  /\ Shaped(r) /\ Same(r, w)
           /\ r.floating = w.floating /\ r.fullscreen = w.fullscreen /\ r.geo = w.geo
           /\ r.floating_geo = w.floating_geo
           /\ ~ w.fullscreen => Told(r)
<1>1. /\ w.geo \in Nat /\ w.min \in Nat /\ Border \in Nat /\ w.fullscreen \in BOOLEAN
      /\ w.kind = "xdg" \/ w.kind = "x11"
  BY ConfigureAssumption DEF Shaped, Window
<1>2. Content(w, w.geo) \in Int /\ (~ w.fullscreen => Content(w, w.geo) = w.geo - 2 * Border)
  BY <1>1 DEF Content
<1>3. CASE w.kind = "xdg"
  <2> DEFINE content == Content(w, w.geo)
             width == Max({1, content, w.min})
  <2>1. width \in Nat
    <3>1. 1 \in Nat /\ content \in Int /\ w.min \in Int
      BY <1>1, <1>2
    <3> HIDE DEF content
    <3> QED BY <3>1, MaxOfThree
  <2>2. r = Schedule(w, width)
    BY <1>3 DEF ConfigureBackend, ConfigureXdg
  <2> HIDE DEF content, width
  <2> QED BY <1>3, <2>1, <2>2, ScheduleSame
<1>4. CASE w.kind = "x11"
  <2> DEFINE width == Greater(1, Content(w, w.geo))
  <2>1. width \in Nat
    BY <1>2, GreaterWidth
  <2>2. r = [Notify(w, width) EXCEPT !.pending_configure = TRUE]
    BY <1>4 DEF ConfigureBackend, ConfigureX11, Greater
  <2>3. ~ w.fullscreen => width = Greater(1, w.geo - 2 * Border)
    BY <1>2
  <2> HIDE DEF width
  <2>4. /\ Shaped(r) /\ Same(r, w)
        /\ r.floating = w.floating /\ r.fullscreen = w.fullscreen /\ r.geo = w.geo
        /\ r.floating_geo = w.floating_geo
        /\ r.asked # <<>> /\ r.asked[Len(r.asked)] = width
    <3> DEFINE n == Notify(w, width)
    <3>1. /\ Shaped(n) /\ Same(n, w)
          /\ n.floating = w.floating /\ n.fullscreen = w.fullscreen /\ n.geo = w.geo
          /\ n.floating_geo = w.floating_geo
          /\ n.asked # <<>> /\ n.asked[Len(n.asked)] = width
      BY <1>4, <2>1, NotifySame
    <3> HIDE DEF n
    <3>2. n.kind = "x11" /\ r = [n EXCEPT !.pending_configure = TRUE]
      BY <1>4, <2>2, <3>1 DEF n, Same
    <3>3. /\ Shaped(r) /\ Same(r, n)
          /\ r.floating = n.floating /\ r.fullscreen = n.fullscreen /\ r.geo = n.geo
          /\ r.floating_geo = n.floating_geo /\ r.asked = n.asked
      BY <3>1, <3>2, PendingSame
    <3> QED BY <3>1, <3>3 DEF Same
  <2>5. ~ w.fullscreen => Told(r)
    BY <1>4, <2>3, <2>4 DEF Told, LastAsked, Expected, Same
  <2> QED BY <2>4, <2>5
<1> QED
  BY <1>1, <1>3, <1>4

(* View::setGeometry tells it too. *)
LEMMA SetGeometryTells ==
    ASSUME NEW w, Shaped(w), NEW box \in Nat, NEW r, r = SetGeometry(w, box)
    PROVE  /\ Shaped(r) /\ Same(r, w)
           /\ r.floating = w.floating /\ r.fullscreen = w.fullscreen
           /\ r.geo = box /\ r.floating_geo = w.floating_geo
           /\ ~ w.fullscreen => Right(r)
<1> DEFINE g == [w EXCEPT !.geo = box]
           c == ConfigureBackend(g, box)
<1>1. /\ Shaped(g) /\ Same(g, w) /\ g.floating = w.floating /\ g.fullscreen = w.fullscreen
      /\ g.geo = box /\ g.floating_geo = w.floating_geo
  BY DEF Shaped, Same, Window
<1>2. r = ApplyBox(c, box) /\ c = ConfigureBackend(g, g.geo)
  BY <1>1 DEF SetGeometry
<1> HIDE DEF g, c
<1>3. /\ Shaped(c) /\ Same(c, g) /\ c.floating = g.floating /\ c.fullscreen = g.fullscreen
      /\ c.geo = g.geo /\ c.floating_geo = g.floating_geo /\ (~ g.fullscreen => Told(c))
  BY <1>1, <1>2, ConfigureTells
<1>4. /\ Shaped(r) /\ Same(r, c)
      /\ r.floating = c.floating /\ r.fullscreen = c.fullscreen
      /\ r.geo = c.geo /\ r.floating_geo = c.floating_geo
      /\ Right(c) => Right(r)
  BY <1>2, <1>3, ApplyBoxSame
<1>5. ~ w.fullscreen => Right(r)
  BY <1>1, <1>3, <1>4, ToldIsRight
<1> QED
  BY <1>1, <1>3, <1>4, <1>5 DEF Same

(* A window that is not tiled the property does not speak of. *)
LEMMA UntiledIsRight ==
    ASSUME NEW w, ~ Tiled(w)
    PROVE  Right(w)
  BY DEF Right, Exact

(* arrange() tells a tiled window its tile. *)
LEMMA ArrangeTells ==
    ASSUME NEW w, Shaped(w), NEW slot \in Nat, NEW r, r = Arrange(w, slot)
    PROVE  /\ Shaped(r) /\ Same(r, w) /\ Right(r)
           /\ r.floating = w.floating /\ r.fullscreen = w.fullscreen
           /\ r.floating_geo = w.floating_geo
<1>1. CASE Tiled(w)
  <2>1. r = SetGeometry(w, slot) /\ ~ w.fullscreen
    BY <1>1 DEF Arrange, Tiled
  <2> QED BY <2>1, SetGeometryTells
<1>2. CASE ~ Tiled(w)
  <2>1. r = w
    BY <1>2 DEF Arrange
  <2> QED BY <1>2, <2>1, UntiledIsRight DEF Same
<1> QED
  BY <1>1, <1>2

(* A floating window is placed anywhere. *)
LEMMA FloatAtSame ==
    ASSUME NEW w, Shaped(w), NEW box \in Nat, NEW r, r = FloatAt(w, box)
    PROVE  /\ Shaped(r) /\ Same(r, w)
           /\ r.floating = w.floating /\ r.fullscreen = w.fullscreen
<1> DEFINE t == [w EXCEPT !.floating_geo = box]
<1>1. /\ Shaped(t) /\ Same(t, w)
      /\ t.floating = w.floating /\ t.fullscreen = w.fullscreen
  BY DEF Shaped, Same, Window
<1>2. r = SetGeometry(t, box)
  BY DEF FloatAt
<1> HIDE DEF t
<1>3. /\ Shaped(r) /\ Same(r, t)
      /\ r.floating = t.floating /\ r.fullscreen = t.fullscreen
  BY <1>1, <1>2, SetGeometryTells
<1> QED
  BY <1>1, <1>3 DEF Same

(* The box of a floating window's content has a width (centeredFloatBox).     *)
LEMMA FloatBox ==
    ASSUME NEW content \in Nat
    PROVE  CenteredFloatBox(content) \in Nat
<1>1. Border \in Nat /\ Natural \in Nat
  BY ConfigureAssumption
<1> QED
  BY <1>1 DEF CenteredFloatBox

(* Making a window float, or not. *)
LEMMA FloatingSame ==
    ASSUME NEW w, Shaped(w), NEW on \in BOOLEAN, NEW r, r = [w EXCEPT !.floating = on]
    PROVE  Shaped(r) /\ Same(r, w) /\ r.floating = on /\ r.fullscreen = w.fullscreen
  BY DEF Shaped, Same, Window

(* Making it fullscreen, or not, before anything is told of it. *)
LEMMA FullscreenSame ==
    ASSUME NEW w, Shaped(w), NEW on \in BOOLEAN, NEW r, r = [w EXCEPT !.fullscreen = on]
    PROVE  Shaped(r) /\ Same(r, w) /\ r.floating = w.floating /\ r.fullscreen = on
           /\ r.floating_geo = w.floating_geo
  BY DEF Shaped, Same, Window

(* setFullscreenBackend() *)
LEMMA BackendSame ==
    ASSUME NEW w, Shaped(w), NEW on \in BOOLEAN, NEW r, r = SetFullscreenBackend(w, on)
    PROVE  /\ Shaped(r) /\ Same(r, w)
           /\ r.floating = w.floating /\ r.fullscreen = w.fullscreen
<1>1. CASE w.kind = "xdg"
  <2>1. w.size \in Nat /\ r = Schedule(w, w.size)
    BY <1>1 DEF SetFullscreenBackend, Shaped, Window
  <2> QED BY <1>1, <2>1, ScheduleSame
<1>2. CASE w.kind # "xdg"
  <2>1. r = [w EXCEPT !.wants_fullscreen = on]
    BY <1>2 DEF SetFullscreenBackend
  <2> QED BY <2>1 DEF Shaped, Same, Window
<1> QED
  BY <1>1, <1>2

(* Fullscreen on or off: a window that is tiled then is told its tile. *)
LEMMA PlaceFullscreenTells ==
    ASSUME NEW w, Shaped(w), NEW on \in BOOLEAN, NEW slot \in Nat,
           NEW r, r = PlaceFullscreen(w, on, slot)
    PROVE  Shaped(r) /\ Same(r, w) /\ Right(r) /\ r.floating = w.floating /\ r.fullscreen = on
<1> DEFINE f == [w EXCEPT !.fullscreen = on]
           t == SetFullscreenBackend(f, on)
           s == [t EXCEPT !.floating_geo = t.geo]
<1>1. Shaped(f) /\ Same(f, w) /\ f.floating = w.floating /\ f.fullscreen = on
  BY FullscreenSame
<1>2. r = IF on THEN SetGeometry(s, OutputWidth)
          ELSE IF t.floating THEN SetGeometry(t, t.floating_geo) ELSE Arrange(t, slot)
  BY DEF PlaceFullscreen
<1> HIDE DEF f
<1>3. Shaped(t) /\ Same(t, f) /\ t.floating = f.floating /\ t.fullscreen = f.fullscreen
  BY <1>1, BackendSame
<1> HIDE DEF t
<1>4. t.geo \in Nat /\ t.floating_geo \in Nat /\ OutputWidth \in Nat
  BY <1>3, ConfigureAssumption DEF Shaped, Window
<1>5. Shaped(s) /\ Same(s, t) /\ s.floating = t.floating /\ s.fullscreen = t.fullscreen
  BY <1>3, <1>4 DEF Shaped, Same, Window
<1> HIDE DEF s
<1>6. CASE on
  <2>1. /\ Shaped(r) /\ Same(r, s)
        /\ r.floating = s.floating /\ r.fullscreen = s.fullscreen
    <3>1. PICK box \in Nat : r = SetGeometry(s, box)
      BY <1>2, <1>4, <1>6
    <3> QED BY <1>5, <3>1, SetGeometryTells
  <2>2. Right(r)
    BY <1>1, <1>3, <1>5, <1>6, <2>1, UntiledIsRight DEF Tiled
  <2> QED BY <1>1, <1>3, <1>5, <1>6, <2>1, <2>2, ZenonT(60) DEF Same
<1>7. CASE ~ on /\ t.floating
  <2>1. /\ Shaped(r) /\ Same(r, t)
        /\ r.floating = t.floating /\ r.fullscreen = t.fullscreen
    <3>1. PICK box \in Nat : r = SetGeometry(t, box)
      BY <1>2, <1>4, <1>7
    <3> QED BY <1>3, <3>1, SetGeometryTells
  <2>2. Right(r)
    BY <1>7, <2>1, UntiledIsRight DEF Tiled
  <2> QED BY <1>1, <1>3, <1>7, <2>1, <2>2 DEF Same
<1>8. CASE ~ on /\ ~ t.floating
  <2>1. /\ Shaped(r) /\ Same(r, t) /\ Right(r)
        /\ r.floating = t.floating /\ r.fullscreen = t.fullscreen
    BY <1>2, <1>3, <1>8, ArrangeTells
  <2> QED BY <1>1, <1>3, <1>8, <2>1 DEF Same
<1> QED
  BY <1>6, <1>7, <1>8

(* Fullscreen on or off (View::setFullscreen): a change leaves the window
   told or not tiled, no change leaves it as it was.                          *)
LEMMA SetFullscreenTells ==
    ASSUME NEW w, Shaped(w), NEW on \in BOOLEAN, NEW slot \in Nat,
           NEW r, r = SetFullscreen(w, on, slot)
    PROVE  /\ Shaped(r) /\ Same(r, w) /\ r.floating = w.floating /\ r.fullscreen = on
           /\ w.fullscreen # on \/ Right(w) => Right(r)
<1>1. CASE w.fullscreen = on
  <2>1. r = w
    BY <1>1 DEF SetFullscreen
  <2> QED BY <1>1, <2>1 DEF Same
<1>2. CASE w.fullscreen # on /\ ~ w.output
  <2>1. r = [w EXCEPT !.fullscreen = on]
    BY <1>2 DEF SetFullscreen
  <2>2. Shaped(r) /\ Same(r, w) /\ r.floating = w.floating /\ r.fullscreen = on
    BY <2>1, FullscreenSame
  <2>3. Right(r)
    BY <1>2, <2>2, UntiledIsRight DEF Tiled, Same
  <2> QED BY <2>2, <2>3
<1>3. CASE w.fullscreen # on /\ w.output
  <2>1. r = PlaceFullscreen(w, on, slot)
    BY <1>3 DEF SetFullscreen
  <2> QED BY <2>1, PlaceFullscreenTells
<1> QED
  BY <1>1, <1>2, <1>3

(* Floating on or off: a window that is tiled then is told its tile. *)
LEMMA SetFloatingTells ==
    ASSUME NEW w, Shaped(w), Right(w), NEW on \in BOOLEAN, NEW slot \in Nat,
           NEW r, r = SetFloating(w, on, slot)
    PROVE  Shaped(r) /\ Same(r, w) /\ Right(r)
<1> DEFINE t == [w EXCEPT !.floating = on]
           content == Greater(0, w.geo - 2 * Border)
           box == CenteredFloatBox(Greater(1, (3 * content) \div 5))
<1>1. Shaped(t) /\ Same(t, w) /\ t.floating = on
  BY FloatingSame
<1>2. r = IF w.fullscreen \/ w.floating = on THEN w
          ELSE IF ~ on THEN Arrange(t, slot)
          ELSE IF ~ w.output THEN t ELSE FloatAt(t, box)
  BY DEF SetFloating
<1>3. box \in Nat
  <2>1. w.geo \in Nat /\ Border \in Nat
    BY ConfigureAssumption DEF Shaped, Window
  <2>2. content \in Nat
    BY <2>1, GreaterWidth
  <2> HIDE DEF content
  <2>3. (3 * content) \div 5 \in Int
    BY <2>2
  <2>4. Greater(1, (3 * content) \div 5) \in Nat
    BY <2>3, GreaterWidth
  <2> QED BY <2>4, FloatBox
<1> HIDE DEF t, box
<1>4. CASE w.fullscreen \/ w.floating = on
  <2>1. r = w
    BY <1>2, <1>4
  <2> QED BY <2>1 DEF Same
<1>5. CASE ~ (w.fullscreen \/ w.floating = on) /\ ~ on
  <2>1. r = Arrange(t, slot)
    BY <1>2, <1>5
  <2>2. Shaped(r) /\ Same(r, t) /\ Right(r)
    BY <1>1, <2>1, ArrangeTells
  <2> QED BY <1>1, <2>2 DEF Same
<1>6. CASE ~ (w.fullscreen \/ w.floating = on) /\ on /\ ~ w.output
  <2>1. r = t
    BY <1>2, <1>6
  <2> QED BY <1>1, <1>6, <2>1, UntiledIsRight DEF Tiled
<1>7. CASE ~ (w.fullscreen \/ w.floating = on) /\ on /\ w.output
  <2>1. r = FloatAt(t, box)
    BY <1>2, <1>7
  <2>2. Shaped(r) /\ Same(r, t) /\ r.floating = t.floating
    BY <1>1, <1>3, <2>1, FloatAtSame
  <2> QED BY <1>1, <1>7, <2>2, UntiledIsRight DEF Tiled, Same
<1> QED
  BY <1>4, <1>5, <1>6, <1>7

-----------------------------------------------------------------------------
(* Commits *)

(* handleCommit's record of the geometry. *)
LEMMA RecordedSame ==
    ASSUME NEW w, Shaped(w), NEW r, r = Recorded(w)
    PROVE  /\ Shaped(r) /\ Same(r, w)
           /\ r.floating = w.floating /\ r.fullscreen = w.fullscreen /\ r.geo = w.geo
           /\ r.asked = w.asked /\ r.scheduled = w.scheduled
<1>1. CASE w.drawn = w.recorded
  <2>1. r = w
    BY <1>1 DEF Recorded
  <2> QED BY <2>1 DEF Same
<1>2. CASE w.drawn # w.recorded
  <2> DEFINE t == [w EXCEPT !.recorded = w.drawn]
  <2>1. /\ Shaped(t) /\ Same(t, w) /\ w.geo \in Nat
        /\ t.floating = w.floating /\ t.fullscreen = w.fullscreen /\ t.geo = w.geo
        /\ t.asked = w.asked /\ t.scheduled = w.scheduled
    BY DEF Shaped, Same, Window
  <2>2. r = ApplyBox(t, w.geo)
    BY <1>2 DEF Recorded
  <2> HIDE DEF t
  <2>3. /\ Shaped(r) /\ Same(r, t)
        /\ r.floating = t.floating /\ r.fullscreen = t.fullscreen /\ r.geo = t.geo
        /\ r.asked = t.asked /\ r.scheduled = t.scheduled
    BY <2>1, <2>2, ApplyBoxSame
  <2> QED BY <2>1, <2>3 DEF Same
<1> QED
  BY <1>1, <1>2

(* After handleCommit an xdg window that draws the wrong width is asked, *)
(* whatever was on its way before.                                       *)
LEMMA HandleCommitAsks ==
    ASSUME NEW w, Shaped(w), w.kind = "xdg", NEW r, r = HandleCommit(w)
    PROVE  Shaped(r) /\ Right(r)
<1> DEFINE t == Recorded(w)
           wrong == w.mapped /\ ~ w.floating /\ w.drawn # Expected(w) /\ ~ InFlight(w)
<1>1. r = IF wrong THEN ConfigureXdg(t, w.geo) ELSE t
  BY DEF HandleCommit
<1>2. /\ Shaped(t) /\ Same(t, w)
      /\ t.floating = w.floating /\ t.fullscreen = w.fullscreen /\ t.geo = w.geo
      /\ t.asked = w.asked /\ t.scheduled = w.scheduled
  BY RecordedSame
<1> HIDE DEF t
<1>3. CASE wrong
  <2>1. r = ConfigureBackend(t, t.geo) /\ t.kind = "xdg"
    BY <1>1, <1>2, <1>3 DEF ConfigureBackend, Same
  <2>2. /\ Shaped(r) /\ r.fullscreen = t.fullscreen
        /\ ~ t.fullscreen => Told(r)
    BY <1>2, <2>1, ConfigureTells
  <2>3. CASE t.fullscreen
    BY <2>2, <2>3, UntiledIsRight DEF Tiled
  <2>4. CASE ~ t.fullscreen
    BY <2>2, <2>4, ToldIsRight
  <2> QED BY <2>2, <2>3, <2>4
<1>4. CASE ~ wrong
  <2>1. r = t
    BY <1>1, <1>4
  <2>2. Tiled(t) => w.mapped /\ ~ w.floating
    BY <1>2 DEF Tiled, Same
  <2>3. (InFlight(t) <=> InFlight(w)) /\ Expected(t) = Expected(w) /\ t.drawn = w.drawn
    BY <1>2 DEF InFlight, Expected, Same
  <2>4. t.kind = "xdg"
    BY <1>2 DEF Same
  <2> QED BY <1>2, <1>4, <2>1, <2>2, <2>3, <2>4 DEF Right, Exact
<1> QED
  BY <1>3, <1>4

(* A tile that is below the minimum is given up. *)
LEMMA FloatForMinFloats ==
    ASSUME NEW w, Shaped(w), w.kind = "x11", NEW r, r = FloatForMin(w)
    PROVE  Shaped(r) /\ r.floating = TRUE
<1> DEFINE f == [w EXCEPT !.floating = TRUE]
           box == CenteredFloatBox(w.min)
           t == FloatAt(f, box)
<1>1. Shaped(f) /\ Same(f, w) /\ f.floating = TRUE
  BY DEF Shaped, Same, Window
<1>2. box \in Nat
  <2>1. w.min \in Nat
    BY ConfigureAssumption DEF Shaped, Window
  <2> QED BY <2>1, FloatBox
<1>3. r = [t EXCEPT !.pending_configure = FALSE]
  BY DEF FloatForMin
<1> HIDE DEF f, box
<1>4. Shaped(t) /\ Same(t, f) /\ t.floating = f.floating
  BY <1>1, <1>2, FloatAtSame
<1> HIDE DEF t
<1>5. t.kind = "x11"
  BY <1>1, <1>4 DEF Same
<1>6. Shaped(r) /\ r.floating = t.floating
  BY <1>3, <1>4, <1>5, PendingSame
<1> QED
  BY <1>1, <1>4, <1>6

(* After handleSurfaceCommit so is an X11 window, if what was noted of the *)
(* requests before was so.                                                 *)
LEMMA HandleSurfaceCommitAsks ==
    ASSUME NEW w, Shaped(w), w.kind = "x11", Unhandled(w), NEW r, r = HandleSurfaceCommit(w)
    PROVE  Shaped(r) /\ Right(r)
<1> DEFINE t == ApplyBox(w, w.geo)
<1>1. r = IF ~ w.mapped \/ w.unmanaged THEN w
          ELSE IF w.floating THEN t
          ELSE IF TooNarrow(w) THEN FloatForMin(t)
          ELSE IF w.drawn = Expected(w) THEN [t EXCEPT !.pending_configure = FALSE]
          ELSE IF w.pending_configure THEN t ELSE ConfigureX11(t, w.geo)
  BY DEF HandleSurfaceCommit
<1>2. /\ Shaped(t) /\ Same(t, w)
      /\ t.floating = w.floating /\ t.fullscreen = w.fullscreen /\ t.geo = w.geo
      /\ t.asked = w.asked /\ t.scheduled = w.scheduled
      /\ t.pending_configure = w.pending_configure
  <2>1. w.geo \in Nat
    BY DEF Shaped, Window
  <2> QED BY <2>1, ApplyBoxSame
<1> HIDE DEF t
<1>3. /\ t.kind = "x11" /\ Expected(t) = Expected(w) /\ t.drawn = w.drawn
      /\ (InFlight(t) <=> InFlight(w)) /\ (LastAsked(t) <=> LastAsked(w))
      /\ (Exact(t) <=> Exact(w))
  BY <1>2 DEF Same, Expected, InFlight, LastAsked, Exact, Tiled
<1>4. CASE ~ w.mapped \/ w.unmanaged
  BY <1>1, <1>4, UntiledIsRight DEF Tiled
<1>5. CASE ~ (~ w.mapped \/ w.unmanaged) /\ w.floating
  BY <1>1, <1>2, <1>5, UntiledIsRight DEF Tiled
<1>6. CASE ~ (~ w.mapped \/ w.unmanaged) /\ ~ w.floating /\ TooNarrow(w)
  <2>1. Shaped(r) /\ r.floating = TRUE
    BY <1>1, <1>2, <1>3, <1>6, FloatForMinFloats
  <2> QED BY <2>1, UntiledIsRight DEF Tiled
<1>7. CASE ~ (~ w.mapped \/ w.unmanaged) /\ ~ w.floating /\ ~ TooNarrow(w) /\ w.drawn = Expected(w)
  <2>1. r = [t EXCEPT !.pending_configure = FALSE]
    BY <1>1, <1>7
  <2>2. /\ Shaped(r) /\ Same(r, t)
        /\ r.floating = t.floating /\ r.fullscreen = t.fullscreen /\ r.geo = t.geo
        /\ r.asked = t.asked /\ r.scheduled = t.scheduled
    BY <1>2, <1>3, <2>1, PendingSame
  <2>3. /\ Expected(r) = Expected(t) /\ r.drawn = t.drawn
        /\ (LastAsked(r) <=> LastAsked(t)) /\ (Exact(r) <=> Exact(t))
    BY <2>2 DEF Same, Expected, LastAsked, Exact, Tiled
  <2> QED BY <1>3, <1>7, <2>2, <2>3 DEF Right, Unhandled
<1>8. CASE /\ ~ (~ w.mapped \/ w.unmanaged) /\ ~ w.floating /\ ~ TooNarrow(w)
           /\ w.drawn # Expected(w) /\ w.pending_configure
  <2>1. r = t
    BY <1>1, <1>8
  <2> QED BY <1>2, <1>3, <1>8, <2>1 DEF Right, Unhandled
<1>9. CASE /\ ~ (~ w.mapped \/ w.unmanaged) /\ ~ w.floating /\ ~ TooNarrow(w)
           /\ w.drawn # Expected(w) /\ ~ w.pending_configure
  <2>1. r = ConfigureX11(t, w.geo)
    BY <1>1, <1>9
  <2>2. r = ConfigureBackend(t, t.geo)
    BY <1>2, <1>3, <2>1 DEF ConfigureBackend
  <2>3. Shaped(r) /\ r.fullscreen = t.fullscreen /\ (~ t.fullscreen => Told(r))
    BY <1>2, <2>2, ConfigureTells
  <2>4. CASE t.fullscreen
    BY <2>3, <2>4, UntiledIsRight DEF Tiled
  <2>5. CASE ~ t.fullscreen
    BY <2>3, <2>5, ToldIsRight
  <2> QED BY <2>3, <2>4, <2>5
<1> QED
  BY <1>4, <1>5, <1>6, <1>7, <1>8, <1>9

(* Where a window is put as it is mapped. *)
LEMMA PlacedTells ==
    ASSUME NEW w, Shaped(w), w.ready, w.drawn > 0, NEW output \in BOOLEAN,
           NEW dialog \in BOOLEAN, NEW slot \in Nat, NEW r, r = Placed(w, output, dialog, slot)
    PROVE  Shaped(r) /\ Right(r) /\ r.kind = w.kind
<1> DEFINE t == [w EXCEPT !.mapped = TRUE, !.output = output, !.floating = w.parent \/ dialog]
<1>1. Shaped(t) /\ t.kind = w.kind
  BY DEF Shaped, Window
<1>2. r = Arrange(t, slot)
  BY DEF Placed
<1> HIDE DEF t
<1> QED
  BY <1>1, <1>2, ArrangeTells DEF Same

(* What the client wished before it was mapped is done to it, and it is not
   left waiting after (XdgToplevel::handleMap).                               *)
LEMMA ApplyIntentTells ==
    ASSUME NEW w, Shaped(w), Right(w), NEW slot \in Nat, NEW r, r = ApplyIntent(w, slot)
    PROVE  Shaped(r) /\ Right(r) /\ r.kind = w.kind
<1>1. CASE w.wants_fullscreen
  <2> DEFINE f == [w EXCEPT !.fullscreen = FALSE]
  <2>1. Shaped(f) /\ f.kind = w.kind /\ f.fullscreen = FALSE
    BY DEF Shaped, Window
  <2>2. r = SetFullscreen(f, TRUE, slot)
    BY <1>1 DEF ApplyIntent
  <2> HIDE DEF f
  <2>3. \A on \in BOOLEAN : f.fullscreen # on /\ r = SetFullscreen(f, on, slot)
            => Shaped(r) /\ Same(r, f) /\ Right(r)
    BY <2>1, SetFullscreenTells
  <2>4. TRUE \in BOOLEAN /\ f.fullscreen # TRUE
    BY <2>1
  <2>5. Shaped(r) /\ Same(r, f) /\ Right(r)
    BY <2>2, <2>3, <2>4, Zenon
  <2> QED BY <2>1, <2>5 DEF Same
<1>2. CASE ~ w.wants_fullscreen
  BY <1>2 DEF ApplyIntent
<1> QED
  BY <1>1, <1>2

(* A floating window is placed at its own size: it is not tiled
   (XdgToplevel::handleMap).                                                  *)
LEMMA FloatIfWindowSame ==
    ASSUME NEW w, Shaped(w), Right(w), NEW content \in Nat, NEW r, r = FloatIfWindow(w, content)
    PROVE  Shaped(r) /\ Right(r) /\ r.kind = w.kind
<1>1. CASE w.floating /\ ~ w.fullscreen /\ w.output
  <2>1. PICK box \in Nat : r = FloatAt(w, box)
    BY <1>1, FloatBox DEF FloatIfWindow
  <2>2. Shaped(r) /\ Same(r, w) /\ r.floating = w.floating
    BY <2>1, FloatAtSame
  <2> QED BY <1>1, <2>2, UntiledIsRight DEF Tiled, Same
<1>2. CASE ~ (w.floating /\ ~ w.fullscreen /\ w.output)
  BY <1>2 DEF FloatIfWindow
<1> QED
  BY <1>1, <1>2

(* A window that is mapped as a tile is told it. *)
LEMMA MapXdgTells ==
    ASSUME NEW w, Shaped(w), w.ready, w.drawn > 0, NEW output \in BOOLEAN,
           NEW dialog \in BOOLEAN, NEW slot \in Nat,
           NEW r, r = HandleMapXdg(w, output, dialog, slot)
    PROVE  Shaped(r) /\ Right(r) /\ r.kind = w.kind
<1> DEFINE p == Placed(w, output, dialog, slot)
           t == ApplyIntent(p, slot)
<1>1. Shaped(p) /\ Right(p) /\ p.kind = w.kind
  BY PlacedTells
<1>2. r = FloatIfWindow(t, w.drawn) /\ w.drawn \in Nat
  BY DEF HandleMapXdg, Shaped, Window
<1> HIDE DEF p
<1>3. Shaped(t) /\ Right(t) /\ t.kind = p.kind
  BY <1>1, ApplyIntentTells
<1> HIDE DEF t
<1>4. \A content \in Nat : r = FloatIfWindow(t, content) => Shaped(r) /\ Right(r) /\ r.kind = t.kind
  BY <1>3, FloatIfWindowSame
<1> QED
  BY <1>1, <1>2, <1>3, <1>4

(* An X11 window that maps, managed or not, is not left waiting
   (XWaylandView::handleMap).                                                 *)
LEMMA MapX11Tells ==
    ASSUME NEW w, Shaped(w), w.kind = "x11", w.ready, w.drawn > 0, NEW output \in BOOLEAN,
           NEW dialog \in BOOLEAN, NEW slot \in Nat,
           NEW r, r = HandleMapX11(w, output, dialog, slot)
    PROVE  Shaped(r) /\ Right(r) /\ r.kind = "x11"
<1>1. CASE w.unmanaged
  <2>1. r = [w EXCEPT !.mapped = TRUE, !.geo = w.size]
    BY <1>1 DEF HandleMapX11
  <2>2. Shaped(r) /\ r.kind = "x11" /\ r.unmanaged = w.unmanaged
    BY <2>1 DEF Shaped, Window
  <2> QED BY <1>1, <2>2, UntiledIsRight DEF Tiled
<1>2. CASE ~ w.unmanaged
  <2> DEFINE p == Placed(w, output, dialog, slot)
             t == ApplyIntent(p, slot)
             narrow == ~ t.floating /\ t.output /\ TooNarrow(t)
             f == [t EXCEPT !.floating = t.floating \/ narrow]
             content == IF narrow THEN t.min ELSE t.size
  <2>1. Shaped(p) /\ Right(p) /\ p.kind = "x11"
    BY PlacedTells
  <2>2. r = FloatIfWindow(f, content)
    BY <1>2 DEF HandleMapX11
  <2> HIDE DEF p
  <2>3. Shaped(t) /\ Right(t) /\ t.kind = "x11"
    BY <2>1, ApplyIntentTells
  <2> HIDE DEF t
  <2>4. t.min \in Nat /\ t.size \in Nat /\ t.floating \in BOOLEAN
    BY <2>3, ConfigureAssumption DEF Shaped, Window
  <2>5. content \in Nat
    BY <2>4
  <2>6. Shaped(f) /\ Right(f) /\ f.kind = "x11"
    <3>1. CASE narrow
      <4>1. Shaped(f) /\ f.kind = "x11" /\ f.floating
        BY <2>3, <3>1 DEF Shaped, Window
      <4> QED BY <4>1, UntiledIsRight DEF Tiled
    <3>2. CASE ~ narrow
      <4>1. f = t
        <5>1. (t.floating \/ narrow) = t.floating
          BY <2>4, <3>2
        <5> HIDE DEF narrow
        <5>2. f = [t EXCEPT !.floating = t.floating]
          BY <5>1
        <5> QED BY <2>3, <5>2 DEF Shaped, Window
      <4> QED BY <2>3, <4>1
    <3> QED BY <3>1, <3>2
  <2> HIDE DEF f, content
  <2> QED BY <2>2, <2>5, <2>6, FloatIfWindowSame
<1> QED
  BY <1>1, <1>2

(* What an X11 window was told before it was handled. *)
LEMMA RightIsUnhandled ==
    ASSUME NEW w, Shaped(w), Right(w)
    PROVE  Unhandled(w)
  BY DEF Right, Unhandled

(* However a commit comes about, after it a tiled client that draws the wrong *)
(* width is asked.                                                            *)
LEMMA CommitAsks ==
    ASSUME NEW w, Shaped(w), w.ready, w.drawn > 0, w.mapped => Unhandled(w),
           NEW output \in BOOLEAN, NEW dialog \in BOOLEAN, NEW slot \in Nat,
           NEW r, r = Commit(w, output, dialog, slot)
    PROVE  Shaped(r) /\ Right(r)
<1> DEFINE x == HandleMapXdg(w, output, dialog, slot)
           y == HandleMapX11(w, output, dialog, slot)
<1>1. CASE w.kind = "xdg"
  <2> DEFINE m == IF w.mapped THEN w ELSE x
  <2>1. Shaped(m) /\ m.kind = "xdg"
    <3>1. Shaped(x) /\ x.kind = "xdg"
      BY <1>1, MapXdgTells
    <3> HIDE DEF x
    <3> QED BY <1>1, <3>1
  <2>2. r = HandleCommit(m)
    BY <1>1 DEF Commit
  <2> HIDE DEF m
  <2> QED BY <2>1, <2>2, HandleCommitAsks
<1>2. CASE w.kind # "xdg"
  <2>1. w.kind = "x11"
    BY <1>2, ConfigureAssumption DEF Shaped, Window
  <2> DEFINE m == IF w.mapped THEN w ELSE y
  <2>2. Shaped(m) /\ m.kind = "x11" /\ Unhandled(m)
    <3>1. Shaped(y) /\ y.kind = "x11" /\ Unhandled(y)
      BY <2>1, MapX11Tells, RightIsUnhandled
    <3> HIDE DEF y
    <3> QED BY <2>1, <3>1
  <2>3. r = HandleSurfaceCommit(m)
    BY <1>2 DEF Commit
  <2> HIDE DEF m
  <2> QED BY <2>2, <2>3, HandleSurfaceCommitAsks
<1> QED
  BY <1>1, <1>2

(* The client draws something, and an X11 client that draws any width draws the *)
(* one it is asked for.                                                         *)
LEMMA DrawnWidth ==
    ASSUME NEW w, Shaped(w), NEW width \in Nat
    PROVE  /\ Drawn(w, width) \in Nat /\ Drawn(w, width) > 0
           /\ w.kind = "x11" /\ Step = 1 /\ width > 0 => Drawn(w, width) = width
<1>1. CASE w.kind = "x11"
  BY <1>1, StepWidth DEF Drawn
<1>2. CASE w.kind # "x11"
  <2> DEFINE asked == IF width = 0 THEN Natural ELSE width
             most == Greater(asked, w.min)
  <2>1. asked \in Nat /\ w.min \in Nat
    BY ConfigureAssumption DEF Shaped, Window
  <2> HIDE DEF asked
  <2>2. most \in Nat
    BY <2>1, GreaterWidth
  <2>3. Drawn(w, width) = InSteps(most)
    BY <1>2 DEF Drawn, asked
  <2> HIDE DEF most
  <2> QED BY <1>2, <2>2, <2>3, StepWidth
<1> QED
  BY <1>1, <1>2

-----------------------------------------------------------------------------
(* The steps *)

IInv == TypeOK /\ Right(win)

(* The invariant says of the window what the lemmas do. *)
LEMMA InvOfWindow == IInv <=> Shaped(win) /\ Right(win) /\ requests \in 0..MaxRequests
  BY DEF IInv, TypeOK, Shaped

(* A step that counts keeps the count, and one that does not leaves it. *)
LEMMA CountKept ==
    ASSUME requests \in 0..MaxRequests, CountRequest \/ UNCHANGED requests
    PROVE  requests' \in 0..MaxRequests
<1>1. MaxRequests \in Nat
  BY ConfigureAssumption
<1> QED
  BY <1>1 DEF CountRequest

(* So what a step leaves is to be looked at in the window alone. *)
LEMMA WindowInv ==
    ASSUME IInv, CountRequest \/ UNCHANGED requests, Shaped(win'), Right(win')
    PROVE  IInv'
<1>1. requests' \in 0..MaxRequests
  BY InvOfWindow, CountKept
<1> QED
  BY <1>1 DEF IInv, TypeOK, Shaped

(* The window that is only created is not mapped.                             *)
LEMMA InitInv == Init => IInv
<1> SUFFICES ASSUME Init PROVE IInv
  OBVIOUS
<1>1. Natural \in Nat /\ MaxRequests \in Nat
  BY ConfigureAssumption
<1>2. requests \in 0..MaxRequests
  BY <1>1 DEF Init
<1>3. /\ win.kind \in Kind /\ win.mapped = FALSE
      /\ win.kind = "xdg" => ~ win.unmanaged
      /\ win.pending_configure = FALSE /\ win.scheduled = FALSE
  BY DEF Init
<1>4. win \in Window
  <2>1. 0 \in MinWidth /\ 0 \in Nat /\ <<>> \in Seq(Nat)
    BY ConfigureAssumption
  <2> QED BY <1>1, <2>1 DEF Init, Window
<1>5. Shaped(win)
  BY <1>3, <1>4 DEF Shaped
<1>6. Right(win)
  BY <1>3, UntiledIsRight DEF Tiled
<1> QED
  BY <1>2, <1>5, <1>6, InvOfWindow

(* The handlers of a commit. *)
LEMMA CommittedInv ==
    ASSUME IInv, UNCHANGED requests, NEW w, Shaped(w), w.ready, w.drawn > 0,
           w.mapped => Unhandled(w), Committed(w)
    PROVE  IInv'
<1>1. PICK output \in BOOLEAN, dialog \in BOOLEAN, slot \in Slot :
          win' = Commit(w, output, dialog, slot)
  BY DEF Committed
<1>2. slot \in Nat
  BY ConfigureAssumption
<1>3. Shaped(win') /\ Right(win')
  BY <1>1, <1>2, CommitAsks
<1> QED
  BY <1>3, WindowInv

(* What is left of the requests once the n-th is answered ends as they did. *)
LEMMA RestOf ==
    ASSUME NEW q \in Seq(Nat), NEW n \in 1..Len(q), NEW rest, rest = SubSeq(q, n + 1, Len(q))
    PROVE  /\ rest \in Seq(Nat)
           /\ n < Len(q) => /\ Len(rest) = Len(q) - n /\ rest # <<>>
                            /\ rest[Len(rest)] = q[Len(q)]
           /\ n = Len(q) => rest = <<>>
<1>1. Len(q) \in Nat /\ n \in Nat
  OBVIOUS
<1>2. rest \in Seq(Nat) /\ Len(rest) = Len(q) - n
  BY <1>1
<1>3. \A i \in 1..Len(q) - n : rest[i] = q[n + i]
  BY <1>1
<1>4. ASSUME n < Len(q) PROVE rest # <<>> /\ rest[Len(rest)] = q[Len(q)]
  <2>1. Len(q) - n \in 1..Len(q) - n /\ n + (Len(q) - n) = Len(q)
    BY <1>1, <1>4
  <2>2. rest[Len(q) - n] = q[Len(q)]
    BY <1>3, <2>1
  <2>3. rest # <<>>
    <3>1. Len(rest) # 0
      BY <1>1, <1>2, <1>4
    <3>2. Len(<<>>) = 0
      OBVIOUS
    <3> QED BY <3>1, <3>2, Zenon
  <2> QED BY <1>2, <2>2, <2>3
<1>5. ASSUME n = Len(q) PROVE rest = <<>>
  BY <1>1, <1>2, <1>5
<1> QED
  BY <1>2, <1>4, <1>5

(* The client draws what a configure event says. *)
LEMMA DrawInv ==
    ASSUME IInv, NEW n \in DOMAIN win.asked, Draw(n)
    PROVE  IInv'
<1> DEFINE rest == SubSeq(win.asked, n + 1, Len(win.asked))
           drawn == Drawn(win, win.asked[n])
           w == [win EXCEPT !.asked = rest, !.drawn = drawn]
<1>1. /\ Shaped(win) /\ Right(win) /\ win.asked \in Seq(Nat) /\ win.ready
      /\ win.kind = "xdg" \/ win.kind = "x11"
  BY InvOfWindow, ConfigureAssumption DEF Shaped, Window, Draw
<1>2. n \in 1..Len(win.asked) /\ win.asked[n] \in Nat /\ Len(win.asked) \in Nat
  BY <1>1
<1>3. /\ rest \in Seq(Nat)
      /\ n < Len(win.asked) => /\ Len(rest) = Len(win.asked) - n /\ rest # <<>>
                               /\ rest[Len(rest)] = win.asked[Len(win.asked)]
      /\ n = Len(win.asked) => rest = <<>>
  BY <1>1, <1>2, RestOf, ZenonT(60)
<1>4. /\ drawn \in Nat /\ drawn > 0
      /\ win.kind = "x11" /\ Step = 1 /\ win.asked[n] > 0 => drawn = win.asked[n]
  BY <1>1, <1>2, DrawnWidth
<1>5. Committed(w) /\ UNCHANGED requests
  BY DEF Draw
<1> HIDE DEF rest, drawn
<1>6. /\ Shaped(w) /\ w.ready = win.ready /\ w.drawn = drawn /\ w.asked = rest
      /\ w.kind = win.kind /\ w.geo = win.geo /\ w.min = win.min
      /\ w.pending_configure = win.pending_configure
      /\ Tiled(w) <=> Tiled(win)
  BY <1>1, <1>3, <1>4 DEF Shaped, Window, Tiled
<1> HIDE DEF w
<1>7. Unhandled(w)
  <2> SUFFICES ASSUME Tiled(w), w.kind = "x11", Step = 1
               PROVE  /\ LastAsked(w)
                      /\ w.drawn # Expected(w) /\ w.pending_configure => InFlight(w)
    BY DEF Unhandled, Exact
  <2>1. LastAsked(win) /\ win.asked # <<>>
    BY <1>1, <1>2, <1>6 DEF Right, Exact
  <2>2. Expected(w) = Expected(win) /\ Expected(win) > 0
    <3>1. win.geo \in Nat /\ Border \in Nat
      BY <1>1, ConfigureAssumption DEF Shaped, Window
    <3>2. win.kind = "x11" /\ w.kind = "x11"
      BY <1>6
    <3> QED BY <1>6, <3>1, <3>2, GreaterWidth DEF Expected
  <2>3. CASE n < Len(win.asked)
    BY <1>3, <1>6, <2>1, <2>2, <2>3 DEF LastAsked, InFlight
  <2>4. CASE n = Len(win.asked)
    <3>1. win.asked[n] = Expected(win)
      BY <2>1, <2>4 DEF LastAsked
    <3>2. w.drawn = Expected(w) /\ w.asked = <<>>
      BY <1>3, <1>4, <1>6, <2>2, <2>4, <3>1
    <3> QED BY <3>2 DEF LastAsked
  <2> QED BY <1>2, <2>3, <2>4
<1> QED
  BY <1>1, <1>4, <1>5, <1>6, <1>7, CommittedInv

(* A commit that answers no configure event: the handler of the commit sees
   the width that was there, or a first one.                                  *)
LEMMA FrameInv ==
    ASSUME IInv, Frame
    PROVE  IInv'
<1> DEFINE drawn == IF win.drawn = 0 THEN Drawn(win, win.size) ELSE win.drawn
           w == [win EXCEPT !.drawn = drawn]
<1>1. /\ Shaped(win) /\ Right(win) /\ win.ready
      /\ win.size \in Nat /\ win.drawn \in Nat
  BY InvOfWindow DEF Shaped, Window, Frame
<1>2. drawn \in Nat /\ drawn > 0
  BY <1>1, DrawnWidth
<1>3. Committed(w) /\ UNCHANGED requests
  BY DEF Frame
<1>4. win.mapped => drawn = win.drawn
  BY <1>1 DEF Shaped
<1> HIDE DEF drawn
<1>5. /\ Shaped(w) /\ w.ready = win.ready /\ w.drawn = drawn /\ w.mapped = win.mapped
  BY <1>1, <1>2 DEF Shaped, Window
<1>6. ASSUME win.mapped PROVE w = win
  BY <1>1, <1>4, <1>6 DEF Shaped, Window
<1> HIDE DEF w
<1>7. w.mapped => Unhandled(w)
  BY <1>1, <1>5, <1>6, RightIsUnhandled
<1> QED
  BY <1>1, <1>2, <1>3, <1>5, <1>7, CommittedInv

(* A new minimum changes the expected width: of an xdg window the commit that
   brings it is handled in the same step; an X11 window's
   expected width is its tile's, whatever its minimum.                        *)
LEMMA SetMinInv ==
    ASSUME IInv, NEW m \in MinWidth, SetMin(m)
    PROVE  IInv'
<1> DEFINE w == [win EXCEPT !.min = m]
<1>1. Shaped(win) /\ Right(win) /\ (win.kind = "xdg" \/ win.kind = "x11")
  BY InvOfWindow, ConfigureAssumption DEF Shaped, Window
<1>2. /\ Shaped(w) /\ w.kind = win.kind /\ w.geo = win.geo /\ w.drawn = win.drawn
      /\ w.asked = win.asked /\ w.scheduled = win.scheduled /\ (Tiled(w) <=> Tiled(win))
  BY <1>1 DEF Shaped, Window, Tiled
<1>3. CountRequest /\ win' = IF win.kind = "xdg" THEN HandleCommit(w) ELSE w
  BY DEF SetMin
<1> HIDE DEF w
<1>4. CASE win.kind = "xdg"
  BY <1>2, <1>3, <1>4, HandleCommitAsks, WindowInv
<1>5. CASE win.kind = "x11"
  <2>1. Expected(w) = Expected(win)
    BY <1>2, <1>5 DEF Expected
  <2>2. Right(w)
    BY <1>1, <1>2, <2>1 DEF Right, Exact, InFlight, LastAsked
  <2> QED BY <1>2, <1>3, <1>5, <2>2, WindowInv
<1> QED
  BY <1>1, <1>4, <1>5

(* An X11 window that asks for a size is asked for its tile's instead if it is
   managed, mapped and tiled (handleRequestConfigure).                        *)
LEMMA RequestConfigureInv ==
    ASSUME IInv, NEW width \in Slot, RequestConfigure(width)
    PROVE  IInv'
<1> DEFINE n == Notify(win, width)
           box == width + 2 * Border
           t == [n EXCEPT !.geo = box]
<1>1. /\ Shaped(win) /\ win.kind = "x11" /\ CountRequest
      /\ width \in Nat /\ box \in Nat
  BY InvOfWindow, ConfigureAssumption DEF RequestConfigure
<1>2. win' = IF win.mapped /\ ~ win.unmanaged /\ ~ win.floating
             THEN ConfigureX11(win, win.geo)
             ELSE IF win.mapped /\ ~ win.unmanaged THEN ApplyBox(t, box) ELSE n
  BY DEF RequestConfigure
<1> HIDE DEF box
<1>3. Shaped(n) /\ Same(n, win) /\ n.floating = win.floating
  BY <1>1, NotifySame
<1> HIDE DEF n
<1>4. Shaped(t) /\ Same(t, n) /\ t.floating = n.floating
  BY <1>1, <1>3 DEF Shaped, Same, Window
<1> HIDE DEF t
<1>5. CASE win.mapped /\ ~ win.unmanaged /\ ~ win.floating
  <2>1. win' = ConfigureBackend(win, win.geo)
    BY <1>1, <1>2, <1>5 DEF ConfigureBackend
  <2>2. /\ Shaped(win') /\ win'.fullscreen = win.fullscreen
        /\ ~ win.fullscreen => Told(win')
    BY <1>1, <2>1, ConfigureTells
  <2>3. Right(win')
    <3>1. CASE win.fullscreen
      BY <2>2, <3>1, UntiledIsRight DEF Tiled
    <3>2. CASE ~ win.fullscreen
      BY <2>2, <3>2, ToldIsRight
    <3> QED BY <3>1, <3>2
  <2> QED BY <1>1, <2>2, <2>3, WindowInv
<1>6. CASE win.mapped /\ ~ win.unmanaged /\ win.floating
  <2>1. win' = ApplyBox(t, box)
    BY <1>2, <1>6
  <2>2. Shaped(win') /\ Same(win', t) /\ win'.floating = t.floating
    BY <1>1, <1>4, <2>1, ApplyBoxSame
  <2>3. Right(win')
    BY <1>3, <1>4, <1>6, <2>2, UntiledIsRight DEF Tiled
  <2> QED BY <1>1, <2>2, <2>3, WindowInv
<1>7. CASE ~ (win.mapped /\ ~ win.unmanaged)
  <2>1. win' = n
    BY <1>2, <1>7
  <2>2. Right(n)
    BY <1>3, <1>7, UntiledIsRight DEF Tiled, Same
  <2> QED BY <1>1, <1>3, <2>1, <2>2, WindowInv
<1> QED
  BY <1>5, <1>6, <1>7

(* A configure event that is sent carries the scheduled size: the window stays
   in flight.                                                                 *)
LEMMA SendConfigureInv ==
    ASSUME IInv, SendConfigure
    PROVE  IInv'
<1>1. /\ Shaped(win) /\ win.scheduled /\ win.asked \in Seq(Nat) /\ win.size \in Nat
      /\ win.kind = "xdg" \/ win.kind = "x11"
  BY InvOfWindow, ConfigureAssumption DEF Shaped, Window, SendConfigure
<1>2. win.kind = "xdg"
  BY <1>1 DEF Shaped
<1>3. win' = [win EXCEPT !.scheduled = FALSE, !.asked = Append(win.asked, win.size)]
  BY DEF SendConfigure
<1>4. Append(win.asked, win.size) \in Seq(Nat) /\ Append(win.asked, win.size) # <<>>
  BY <1>1
<1>5. Shaped(win') /\ win'.kind = "xdg" /\ win'.asked # <<>>
  BY <1>1, <1>2, <1>3, <1>4 DEF Shaped, Window
<1>6. Right(win')
  BY <1>5 DEF Right, InFlight
<1> QED
  BY <1>5, <1>6, WindowInv DEF SendConfigure

(* A window whose first commit, association or unmapping it is, is not tiled. *)
LEMMA UnmappedInv ==
    ASSUME IInv, InitialCommit \/ Associate \/ Dissociate \/ Unmap
    PROVE  IInv'
<1>1. /\ Shaped(win) /\ Border \in Nat /\ (win.kind = "xdg" \/ win.kind = "x11")
      /\ <<>> \in Seq(Nat)
  <2>1. Shaped(win) /\ Border \in Nat
    BY InvOfWindow, ConfigureAssumption
  <2>2. win.kind = "xdg" \/ win.kind = "x11"
    BY <2>1, ConfigureAssumption DEF Shaped, Window
  <2>3. <<>> \in Seq(Nat)
    OBVIOUS
  <2> QED BY <2>1, <2>2, <2>3
<1>2. CASE InitialCommit
  <2> DEFINE t == [win EXCEPT !.ready = TRUE]
  <2>1. Shaped(t) /\ t.kind = "xdg" /\ t.mapped = win.mapped /\ ~ win.mapped
    BY <1>1, <1>2 DEF InitialCommit, Shaped, Window
  <2>2. \/ \E preview \in Slot : win' = Schedule(t, Greater(0, preview - 2 * Border))
        \/ win' = Recorded(Schedule(t, 0))
    BY <1>2 DEF InitialCommit
  <2> HIDE DEF t
  <2>3. CASE \E preview \in Slot : win' = Schedule(t, Greater(0, preview - 2 * Border))
    <3>1. PICK size \in Nat : win' = Schedule(t, size)
      <4>1. PICK preview \in Slot : win' = Schedule(t, Greater(0, preview - 2 * Border))
        BY <2>3
      <4>2. preview \in Nat
        BY ConfigureAssumption
      <4>3. Greater(0, preview - 2 * Border) \in Nat
        BY <1>1, <4>2, GreaterWidth
      <4> QED BY <4>1, <4>3
    <3>2. Shaped(win') /\ Same(win', t)
      BY <2>1, <3>1, ScheduleSame
    <3>3. Right(win')
      BY <2>1, <3>2, UntiledIsRight DEF Tiled, Same
    <3> QED BY <1>2, <3>2, <3>3, WindowInv DEF InitialCommit
  <2>4. CASE win' = Recorded(Schedule(t, 0))
    <3> DEFINE s == Schedule(t, 0)
    <3>1. Shaped(s) /\ Same(s, t)
      BY <2>1, ScheduleSame
    <3>2. win' = Recorded(s)
      BY <2>4
    <3> HIDE DEF s
    <3>3. Shaped(win') /\ Same(win', s)
      BY <3>1, <3>2, RecordedSame
    <3>4. Right(win')
      BY <2>1, <3>1, <3>3, UntiledIsRight DEF Tiled, Same
    <3> QED BY <1>2, <3>3, <3>4, WindowInv DEF InitialCommit
  <2> QED BY <2>2, <2>3, <2>4
<1>3. CASE Associate
  <2>1. Shaped(win') /\ win'.mapped = win.mapped /\ ~ win.mapped
    BY <1>1, <1>3 DEF Associate, Shaped, Window
  <2>2. Right(win')
    BY <2>1, UntiledIsRight DEF Tiled
  <2> QED BY <1>3, <2>1, <2>2, WindowInv DEF Associate
<1>4. CASE Dissociate
  <2>1. Shaped(win') /\ win'.mapped = win.mapped /\ ~ win.mapped
    BY <1>1, <1>4 DEF Dissociate, Shaped, Window
  <2>2. Right(win')
    BY <2>1, UntiledIsRight DEF Tiled
  <2> QED BY <1>4, <2>1, <2>2, WindowInv DEF Dissociate
<1>5. CASE Unmap
  <2>1. CASE win.kind = "xdg"
    <3>1. win' = [win EXCEPT !.mapped = FALSE, !.ready = FALSE, !.scheduled = FALSE,
                             !.asked = <<>>, !.drawn = 0, !.wants_fullscreen = FALSE]
      BY <1>5, <2>1 DEF Unmap
    <3>2. Shaped(win') /\ ~ win'.mapped
      BY <1>1, <3>1 DEF Shaped, Window
    <3>3. Right(win')
      BY <3>2, UntiledIsRight DEF Tiled
    <3> QED BY <1>5, <3>2, <3>3, WindowInv DEF Unmap
  <2>2. CASE win.kind = "x11"
    <3>1. win' = [win EXCEPT !.mapped = FALSE]
      BY <1>5, <2>2 DEF Unmap
    <3>2. Shaped(win') /\ ~ win'.mapped
      BY <1>1, <3>1 DEF Shaped, Window
    <3>3. Right(win')
      BY <3>2, UntiledIsRight DEF Tiled
    <3> QED BY <1>5, <3>2, <3>3, WindowInv DEF Unmap
  <2> QED BY <1>1, <2>1, <2>2
<1> QED
  BY <1>2, <1>3, <1>4, <1>5

(* Requests to be maximized or fullscreen.                                    *)
LEMMA RequestsInv ==
    ASSUME IInv, RequestMaximize \/ \E on \in BOOLEAN : RequestFullscreen(on)
    PROVE  IInv'
<1>1. Shaped(win) /\ Right(win) /\ win.size \in Nat
  BY InvOfWindow DEF Shaped, Window
<1>2. CASE RequestMaximize
  <2>1. win.kind = "xdg" /\ CountRequest /\ (win' = win \/ win' = Schedule(win, win.size))
    BY <1>2 DEF RequestMaximize
  <2>2. CASE win' = win
    BY <1>1, <2>1, <2>2, WindowInv
  <2>3. CASE win' = Schedule(win, win.size)
    BY <1>1, <2>1, <2>3, ScheduleSame, ToldIsRight, WindowInv
  <2> QED BY <2>1, <2>2, <2>3
<1>3. CASE \E on \in BOOLEAN : RequestFullscreen(on)
  <2>1. PICK on \in BOOLEAN : RequestFullscreen(on)
    BY <1>3
  <2> DEFINE w == [win EXCEPT !.wants_fullscreen = on]
  <2>2. PICK slot \in Slot : win' = SetFullscreen(w, on, slot)
    BY <2>1 DEF RequestFullscreen
  <2>3. slot \in Nat
    BY ConfigureAssumption
  <2>4. /\ Shaped(w) /\ w.kind = win.kind /\ w.geo = win.geo /\ w.drawn = win.drawn
        /\ w.asked = win.asked /\ w.scheduled = win.scheduled /\ w.min = win.min
        /\ Tiled(w) <=> Tiled(win)
    BY <1>1 DEF Shaped, Window, Tiled
  <2> HIDE DEF w
  <2>5. Right(w)
    BY <1>1, <2>4 DEF Right, Exact, Expected, InFlight, LastAsked
  <2>6. Shaped(win') /\ Right(win')
    BY <2>2, <2>3, <2>4, <2>5, SetFullscreenTells
  <2> QED BY <2>1, <2>6, WindowInv DEF RequestFullscreen
<1> QED
  BY <1>2, <1>3

(* The compositor's own changes: a new slot, floating and fullscreen.         *)
LEMMA DesktopInv ==
    ASSUME IInv, Relayout \/ ToggleFloating \/ ToggleFullscreen
    PROVE  IInv'
<1>1. Shaped(win) /\ Right(win) /\ win.floating \in BOOLEAN /\ win.fullscreen \in BOOLEAN
  BY InvOfWindow DEF Shaped, Window
<1>2. \A slot \in Slot : slot \in Nat
  BY ConfigureAssumption
<1>3. CASE Relayout
  BY <1>1, <1>2, <1>3, ArrangeTells, WindowInv DEF Relayout
<1>4. CASE ToggleFloating
  <2>1. PICK slot \in Slot : win' = SetFloating(win, ~ win.floating, slot)
    BY <1>4 DEF ToggleFloating
  <2>2. (~ win.floating) \in BOOLEAN
    OBVIOUS
  <2>3. \A on \in BOOLEAN : win' = SetFloating(win, on, slot) => Shaped(win') /\ Right(win')
    BY <1>1, <1>2, SetFloatingTells
  <2>4. Shaped(win') /\ Right(win')
    BY <2>1, <2>2, <2>3, Zenon
  <2> QED BY <1>4, <2>4, WindowInv DEF ToggleFloating
<1>5. CASE ToggleFullscreen
  <2>1. PICK slot \in Slot : win' = SetFullscreen(win, ~ win.fullscreen, slot)
    BY <1>5 DEF ToggleFullscreen
  <2>2. (~ win.fullscreen) \in BOOLEAN
    OBVIOUS
  <2>3. \A on \in BOOLEAN : win' = SetFullscreen(win, on, slot) => Shaped(win') /\ Right(win')
    BY <1>1, <1>2, SetFullscreenTells
  <2>4. Shaped(win') /\ Right(win')
    BY <2>1, <2>2, <2>3, Zenon
  <2> QED BY <1>5, <2>4, WindowInv DEF ToggleFullscreen
<1> QED
  BY <1>3, <1>4, <1>5

(* Every step keeps it, and so it always holds. *)
LEMMA NextInv == IInv /\ [Next]_vars => IInv'
<1> SUFFICES ASSUME IInv, [Next]_vars PROVE IInv'
  OBVIOUS
<1>1. CASE UNCHANGED vars
  BY <1>1 DEF vars, IInv, TypeOK
<1>2. CASE Next
  <2>1. ASSUME NEW n \in DOMAIN win.asked, Draw(n) PROVE IInv'
    BY <2>1, DrawInv
  <2>2. ASSUME NEW m \in MinWidth, SetMin(m) PROVE IInv'
    BY <2>2, SetMinInv
  <2>3. ASSUME NEW width \in Slot, RequestConfigure(width) PROVE IInv'
    BY <2>3, RequestConfigureInv
  <2> QED BY <1>2, <2>1, <2>2, <2>3, SendConfigureInv, UnmappedInv, FrameInv,
             RequestsInv, DesktopInv DEF Next
<1> QED
  BY <1>1, <1>2

(* The inductive invariant holds of every behaviour.                          *)
LEMMA Invariant == Spec => []IInv
<1>1. Init => IInv
  BY InitInv
<1>2. IInv /\ [Next]_vars => IInv'
  BY NextInv
<1> QED
  BY <1>1, <1>2, PTL DEF Spec

(* The bookkeeping of a window's size keeps its shape through every request,  *)
(* answer and unmapping, and a window that is mapped has drawn something      *)
(* (XdgToplevel and XWaylandView).                                            *)
THEOREM TypeCorrect == Spec => []TypeOK
<1>1. IInv => TypeOK
  BY DEF IInv
<1> QED
  BY <1>1, Invariant, PTL

(* A tiled client that draws the wrong width has a configure event scheduled  *)
(* or on its way: neither handler believes wrongly that it was asked. An X11  *)
(* client that keeps to steps of its own is left out, since it is asked once  *)
(* and then left alone (handleCommit, handleSurfaceCommit).                   *)
THEOREM AlwaysAsked ==
    ASSUME "x11" \in Kind => Step = 1
    PROVE  Spec => []AskedWhileWrong
<1>1. IInv => AskedWhileWrong
  <2>1. ASSUME IInv PROVE win.kind = "x11" => Step = 1
    BY <2>1 DEF IInv, TypeOK, Window
  <2> QED BY <2>1 DEF IInv, Right, Exact, AskedWhileWrong
<1> QED
  BY <1>1, Invariant, PTL
=============================================================================
