------------------------- MODULE SessionLock_proof -------------------------
(***************************************************************************)
(* Proofs about the session lock: the shape of its state, and that a held  *)
(* lock covers every output.                                               *)
(***************************************************************************)
EXTENDS SessionLock, TLAPS

(* The part of the state that LockCovers reads. *)
Held ==
    /\ place \in [Output -> Box \cup {NoBox}]
    /\ layout_box \in [Output -> Box \cup {NoBox}]
    /\ session_locked \in BOOLEAN
    /\ session_lock \in Lock \cup {NoLock}
    /\ rect \in [Lock -> [Output -> Box \cup {NoBox}]]
    /\ lock_backdrop \in [Output -> Lock \cup {NoLock}]

(* An output with a position of its own is where it was when it last looked. *)
Settled == \A o \in Pinned : place[o] = layout_box[o]

(* A connected output alone points to a rectangle, and that has the box the
   output read last.                                                         *)
Backed ==
    \A o \in Output :
        lock_backdrop[o] # NoLock =>
            layout_box[o] # NoBox /\ rect[lock_backdrop[o]][o] = layout_box[o]

(* While a lock is held, every connected output points to its rectangle. *)
Behind ==
    session_lock # NoLock =>
        session_locked /\ \A o \in Connected : lock_backdrop[o] = session_lock

(* LockCovers is what these say of a held lock; they are inductive, for an
   output's own pointer says which rectangle updateLayoutBox and ~Output
   change, and only an output without a position of its own is moved with
   another.                                                                  *)
CoverInv == Held /\ Settled /\ Backed /\ Behind

LEMMA CoverMeans == CoverInv => LockCovers
  BY LockAssumption DEF CoverInv, Held, Settled, Backed, Behind, LockCovers, Connected

(* Nothing is connected and nothing locked at the start. *)
LEMMA CoverInit == Init => CoverInv
  <1> SUFFICES ASSUME Init PROVE CoverInv
    OBVIOUS
  <1>1. Held
    BY DEF Init, Held
  <1>2. Settled
    BY LockAssumption DEF Init, Settled
  <1>3. Backed /\ Behind
    BY LockAssumption DEF Init, Backed, Behind
  <1> QED BY <1>1, <1>2, <1>3 DEF CoverInv

(* wlr_output_layout gives an output its box and leaves those be that have a
   position of their own.                                                    *)
LEMMA ArrangedPlaces ==
  ASSUME CoverInv, NEW o \in Output, NEW b \in Box \cup {NoBox}, Arranged(o, b),
         layout_box' = [layout_box EXCEPT ![o] = b]
  PROVE  /\ place' \in [Output -> Box \cup {NoBox}]
         /\ layout_box' \in [Output -> Box \cup {NoBox}]
         /\ place'[o] = b
         /\ \A p \in Pinned \ {o} : place'[p] = place[p]
         /\ Settled'
  <1>1. /\ place' \in [Output -> Box \cup {NoBox}]
        /\ place'[o] = b
        /\ \A p \in Pinned \ {o} : place'[p] = place[p]
    BY LockAssumption DEF Arranged
  <1>2. layout_box \in [Output -> Box \cup {NoBox}]
    BY DEF CoverInv, Held
  <1>3. Settled'
    BY <1>1, <1>2, LockAssumption DEF CoverInv, Settled
  <1> QED BY <1>1, <1>2, <1>3

(* An output plugged in while locked is covered, *)
LEMMA PlugCovers == ASSUME NEW o \in Output, CoverInv, Plug(o) PROVE CoverInv'
  <1>1. PICK b \in Box :
          /\ Arranged(o, b)
          /\ layout_box' = [layout_box EXCEPT ![o] = b]
          /\ IF session_locked /\ session_lock # NoLock
             THEN /\ rect' = [rect EXCEPT ![session_lock][o] = b]
                  /\ lock_backdrop' = [lock_backdrop EXCEPT ![o] = session_lock]
             ELSE UNCHANGED <<rect, lock_backdrop>>
    BY DEF Plug
  <1>2. layout_box[o] = NoBox /\ UNCHANGED <<session_locked, session_lock>>
    BY DEF Plug, Connected
  <1>3. /\ place' \in [Output -> Box \cup {NoBox}]
        /\ layout_box' \in [Output -> Box \cup {NoBox}]
        /\ Settled'
    BY <1>1, ArrangedPlaces
  <1> USE LockAssumption DEF CoverInv, Held, Backed, Behind, Connected
  <1>4. CASE session_locked /\ session_lock # NoLock
    <2>1. session_lock \in Lock
      BY <1>4
    <2>2. Held'
      <3>1. rect' \in [Lock -> [Output -> Box \cup {NoBox}]]
        BY <1>1, <1>4, <2>1
      <3>2. lock_backdrop' \in [Output -> Lock \cup {NoLock}]
        BY <1>1, <1>4, <2>1
      <3> QED BY <1>2, <1>3, <3>1, <3>2
    <2>3. ASSUME NEW p \in Output, lock_backdrop'[p] # NoLock
          PROVE  layout_box'[p] # NoBox /\ rect'[lock_backdrop'[p]][p] = layout_box'[p]
      BY <1>1, <1>4, <2>1, <2>3
    <2>4. Behind'
      BY <1>1, <1>2, <1>4
    <2> QED BY <1>3, <2>2, <2>3, <2>4
  <1>5. CASE ~ (session_locked /\ session_lock # NoLock)
    <2>1. session_lock = NoLock
      BY <1>5
    <2>2. lock_backdrop[o] = NoLock
      BY <1>2
    <2> QED BY <1>1, <1>2, <1>3, <1>5, <2>1, <2>2
  <1> QED BY <1>4, <1>5

(* one unplugged takes its cover along, *)
LEMMA UnplugCovers == ASSUME NEW o \in Output, CoverInv, Unplug(o) PROVE CoverInv'
  <1>1. /\ layout_box' = [layout_box EXCEPT ![o] = NoBox]
        /\ lock_backdrop' = [lock_backdrop EXCEPT ![o] = NoLock]
        /\ UNCHANGED <<session_locked, session_lock>>
    BY DEF Unplug
  <1>2. place' \in [Output -> Box \cup {NoBox}] /\ Settled'
    BY <1>1, ArrangedPlaces DEF Unplug
  <1> USE LockAssumption DEF CoverInv, Held, Backed, Behind, Connected
  <1>3. /\ rect' \in [Lock -> [Output -> Box \cup {NoBox}]]
        /\ \A l \in Lock, p \in Output \ {o} : rect'[l][p] = rect[l][p]
    <2>1. CASE lock_backdrop[o] = NoLock
      BY <2>1 DEF Unplug
    <2>2. CASE lock_backdrop[o] # NoLock
      <3>1. lock_backdrop[o] \in Lock
        BY <2>2
      <3> QED BY <2>2, <3>1 DEF Unplug
    <2> QED BY <2>1, <2>2
  <1>4. Held'
    BY <1>1, <1>2, <1>3
  <1>5. Backed'
    BY <1>1, <1>3
  <1>6. Behind'
    BY <1>1
  <1> QED BY <1>2, <1>4, <1>5, <1>6

(* and another mode or position moves the cover along. *)
LEMMA SetModeCovers ==
  ASSUME NEW o \in Output, NEW b \in Box, CoverInv, SetMode(o, b) PROVE CoverInv'
  <1>1. /\ layout_box[o] # NoBox
        /\ layout_box' = [layout_box EXCEPT ![o] = b]
        /\ UNCHANGED <<session_locked, session_lock, lock_backdrop>>
    BY DEF SetMode, Connected
  <1>2. place' \in [Output -> Box \cup {NoBox}] /\ Settled'
    BY <1>1, ArrangedPlaces DEF SetMode
  <1> USE LockAssumption DEF CoverInv, Held, Backed, Behind, Connected
  <1>3. /\ rect' \in [Lock -> [Output -> Box \cup {NoBox}]]
        /\ \A l \in Lock, p \in Output \ {o} : rect'[l][p] = rect[l][p]
        /\ lock_backdrop[o] # NoLock => rect'[lock_backdrop[o]][o] = b
    <2>1. CASE lock_backdrop[o] = NoLock
      BY <2>1 DEF SetMode
    <2>2. CASE lock_backdrop[o] # NoLock
      <3>1. lock_backdrop[o] \in Lock
        BY <2>2
      <3> QED BY <2>2, <3>1 DEF SetMode
    <2> QED BY <2>1, <2>2
  <1>4. Held'
    BY <1>1, <1>2, <1>3
  <1>5. Backed'
    BY <1>1, <1>3
  <1>6. Behind'
    BY <1>1
  <1> QED BY <1>2, <1>4, <1>5, <1>6

(* A lock covers every output. *)
LEMMA NewLockCovers == ASSUME NEW l \in Lock, CoverInv, NewLock(l) PROVE CoverInv'
  BY LockAssumption DEF NewLock, CoverInv, Held, Settled, Backed, Behind, Connected

(* Unlocking takes the covers away. *)
LEMMA UnlockCovers == ASSUME CoverInv, Unlock PROVE CoverInv'
  <1>1. session_lock \in Lock
    BY DEF CoverInv, Held, Unlock
  <1> QED BY <1>1, LockAssumption
          DEF Unlock, CoverInv, Held, Settled, Backed, Behind, Connected

(* What no other step touches. *)
LEMMA CoverStutter ==
  ASSUME CoverInv, UNCHANGED screen, session_locked' = session_locked,
         session_lock' \in {session_lock, NoLock}
  PROVE  CoverInv'
  BY DEF CoverInv, Held, Settled, Backed, Behind, Connected, screen

(* Every step keeps the outputs covered. *)
LEMMA CoverStep == CoverInv /\ [Next]_vars => CoverInv'
  <1> SUFFICES ASSUME CoverInv, [Next]_vars PROVE CoverInv'
    OBVIOUS
  <1>1. CASE OutputStep
    BY <1>1, PlugCovers, UnplugCovers, SetModeCovers DEF OutputStep
  <1>2. CASE ViewStep
    BY <1>2, CoverStutter DEF ViewStep, FocusView, LoseView
  <1>3. CASE LockStep
    <2>1. PICK l \in Lock : NewLock(l) \/ RefuseLock(l)
      BY <1>3 DEF LockStep
    <2>2. CASE NewLock(l)
      BY <2>2, NewLockCovers
    <2>3. CASE RefuseLock(l)
      BY <2>3, CoverStutter DEF RefuseLock
    <2> QED BY <2>1, <2>2, <2>3
  <1>4. CASE SurfaceStep
    <2>1. PICK s \in Surface : \/ MapSurface(s) \/ DestroySurface(s)
                               \/ \E o \in Output : NewSurface(s, o)
      BY <1>4 DEF SurfaceStep
    <2> QED BY <2>1, CoverStutter DEF MapSurface, DestroySurface, NewSurface
  <1>5. CASE Unlock
    BY <1>5, UnlockCovers
  <1>6. CASE LockDies
    BY <1>6, CoverStutter DEF LockDies
  <1>7. CASE UNCHANGED vars
    BY <1>7, CoverStutter DEF vars
  <1> QED BY <1>1, <1>2, <1>3, <1>4, <1>5, <1>6, <1>7 DEF Next

(* While a lock is held every connected output is behind that lock's own
   rectangle, which has the box the output read last, and the output's own box
   where the layout does not place it by itself: for any number of outputs,
   boxes and lock clients and whatever crashed before (SessionLock, addOutput,
   updateLayoutBox).                                                         *)
THEOREM LockAlwaysCovers == Spec => []LockCovers
  <1>1. Init => CoverInv
    BY CoverInit
  <1>2. CoverInv /\ [Next]_vars => CoverInv'
    BY CoverStep
  <1>3. CoverInv => LockCovers
    BY CoverMeans
  <1> QED BY <1>1, <1>2, <1>3, PTL DEF Spec

-----------------------------------------------------------------------------
(* StaysCovered: the rectangle an output points to is replaced, moved with it
   or left alone, and only an unlock takes it away.  What it is then compared
   with is the box the output has read, which is its own.                    *)
LEMMA StepKeepsCover ==
  ASSUME CoverInv, [Next]_vars, NEW o \in Output, o \in Connected, o \in Connected',
         session_locked', lock_backdrop[o] # NoLock,
         o \in Pinned \/ place'[o] = layout_box'[o]
  PROVE  Covered(o)'
  <1> DEFINE b == lock_backdrop[o]
  <1>1. b \in Lock /\ rect[b][o] = layout_box[o] /\ layout_box \in [Output -> Box \cup {NoBox}]
    BY DEF CoverInv, Held, Backed
  <1>2. CoverInv'
    BY CoverStep
  <1>3. place'[o] = layout_box'[o]
    BY <1>2 DEF CoverInv, Settled
  <1> SUFFICES \E l \in Lock : rect'[l][o] = layout_box'[o]
    BY <1>3 DEF Covered
  <1>4. CASE UNCHANGED <<rect, layout_box>>
    BY <1>1, <1>4
  <1>5. CASE lock_backdrop'[o] # NoLock
    BY <1>2, <1>5, LockAssumption DEF CoverInv, Held, Backed
  <1>6. ASSUME NEW p \in Output, Plug(p) PROVE lock_backdrop'[o] # NoLock
    <2>1. o # p /\ lock_backdrop \in [Output -> Lock \cup {NoLock}]
      BY <1>6 DEF Plug, CoverInv, Held
    <2> QED BY <1>6, <2>1 DEF Plug
  <1>7. ASSUME NEW p \in Output, Unplug(p) PROVE lock_backdrop'[o] # NoLock
    <2>1. o # p
      BY <1>1, <1>7 DEF Unplug, Connected
    <2> QED BY <1>7, <2>1 DEF Unplug, CoverInv, Held
  <1>8. ASSUME NEW p \in Output, NEW m \in Box, SetMode(p, m) PROVE lock_backdrop'[o] # NoLock
    BY <1>8 DEF SetMode
  <1>9. ASSUME NEW l \in Lock, NewLock(l) PROVE lock_backdrop'[o] # NoLock
    BY <1>9, LockAssumption DEF NewLock
  <1>10. ~ Unlock
    BY DEF Unlock
  <1>11. CASE OutputStep
    BY <1>5, <1>6, <1>7, <1>8, <1>11 DEF OutputStep
  <1>12. CASE LockStep
    <2>1. PICK l \in Lock : NewLock(l) \/ RefuseLock(l)
      BY <1>12 DEF LockStep
    <2> QED BY <1>4, <1>5, <1>9, <2>1 DEF RefuseLock, screen
  <1>13. CASE ViewStep \/ SurfaceStep \/ LockDies \/ UNCHANGED vars
    <2>1. UNCHANGED screen
      BY <1>13 DEF ViewStep, SurfaceStep, LockDies, vars, FocusView, LoseView,
                   MapSurface, DestroySurface, NewSurface
    <2> QED BY <1>4, <2>1 DEF screen
  <1> QED BY <1>10, <1>11, <1>12, <1>13 DEF Next

(* No crash, no new lock, no mode change and no surface that goes shows what
   is under a covered output before the session is unlocked; the move of an
   output that the layout places by itself may, and is the exception.        *)
THEOREM CoverIsKept == Spec => StaysCovered
  <1>1. Init => CoverInv
    BY CoverInit
  <1>2. CoverInv /\ [Next]_vars => CoverInv'
    BY CoverStep
  <1>3. CoverInv /\ [Next]_vars =>
          [\A o \in Connected \cap Connected' :
             /\ session_locked /\ session_locked'
             /\ lock_backdrop[o] # NoLock /\ rect[lock_backdrop[o]][o] = place[o]
             /\ o \in Pinned \/ place'[o] = layout_box'[o]
             => Covered(o)']_vars
    BY StepKeepsCover DEF Connected
  <1> QED BY <1>1, <1>2, <1>3, PTL DEF Spec, StaysCovered

-----------------------------------------------------------------------------
(* A surface with a SessionLockSurface is of the lock that is held: an unlock
   destroys those of its lock, and a client takes all of its own with it.    *)
SurfacesOfHeld ==
    /\ surf \in [Surface -> SurfaceState]
    /\ keyboard \in Surface \cup {KView, NoSurface}
    /\ \A s \in Surface : surf[s].state \in {"live", "mapped"} =>
           session_lock # NoLock /\ surf[s].lock = session_lock

PromptInv == CoverInv /\ SurfacesOfHeld /\ KeyboardOnPrompt

(* Every step keeps the keyboard on the lock client's prompt. *)
LEMMA PromptStep == PromptInv /\ [Next]_vars => SurfacesOfHeld' /\ KeyboardOnPrompt'
  <1> SUFFICES ASSUME PromptInv, [Next]_vars PROVE SurfacesOfHeld' /\ KeyboardOnPrompt'
    OBVIOUS
  <1> USE LockAssumption DEF PromptInv, CoverInv, Held, SurfacesOfHeld, KeyboardOnPrompt,
          Behind, SurfaceState
  <1>1. ASSUME NEW o \in Output, Plug(o) PROVE SurfacesOfHeld' /\ KeyboardOnPrompt'
    BY <1>1 DEF Plug, prompt
  <1>2. ASSUME NEW o \in Output, Unplug(o) PROVE SurfacesOfHeld' /\ KeyboardOnPrompt'
    <2>1. \A s \in Surface : /\ surf'[s] \in SurfaceState
                             /\ surf'[s].state = surf[s].state /\ surf'[s].lock = surf[s].lock
      BY <1>2 DEF Unplug
    <2>2. surf' \in [Surface -> SurfaceState]
      BY <1>2, <2>1 DEF Unplug
    <2> QED BY <1>2, <2>1, <2>2 DEF Unplug
  <1>3. ASSUME NEW o \in Output, NEW m \in Box, SetMode(o, m)
        PROVE  SurfacesOfHeld' /\ KeyboardOnPrompt'
    BY <1>3 DEF SetMode, prompt
  <1>4. CASE ViewStep
    BY <1>4 DEF ViewStep, FocusView, LoseView, prompt
  <1>5. ASSUME NEW l \in Lock, NewLock(l) PROVE SurfacesOfHeld' /\ KeyboardOnPrompt'
    BY <1>5 DEF NewLock, prompt
  <1>6. ASSUME NEW l \in Lock, RefuseLock(l) PROVE SurfacesOfHeld' /\ KeyboardOnPrompt'
    BY <1>6 DEF RefuseLock, prompt
  <1>7. ASSUME NEW s \in Surface, MapSurface(s) PROVE SurfacesOfHeld' /\ KeyboardOnPrompt'
    <2>1. surf' = [surf EXCEPT ![s].state = "mapped"] /\ surf[s].state = "live"
      BY <1>7 DEF MapSurface
    <2>2. \A t \in Surface : /\ surf'[t] \in SurfaceState
                             /\ surf'[t].lock = surf[t].lock
                             /\ t # s => surf'[t] = surf[t]
                             /\ t = s => surf'[t].state = "mapped"
      BY <2>1
    <2>3. surf' \in [Surface -> SurfaceState]
      BY <2>1, <2>2
    <2> QED BY <1>7, <2>1, <2>2, <2>3 DEF MapSurface
  <1>8. ASSUME NEW s \in Surface, DestroySurface(s) PROVE SurfacesOfHeld' /\ KeyboardOnPrompt'
    <2>1. surf' = [surf EXCEPT ![s] = Gone("dead")]
      BY <1>8 DEF DestroySurface
    <2>2. \A t \in Surface : /\ surf'[t] \in SurfaceState
                             /\ t # s => surf'[t] = surf[t]
                             /\ t = s => surf'[t].state = "dead"
      BY <2>1 DEF Gone
    <2>3. surf' \in [Surface -> SurfaceState]
      BY <2>1, <2>2
    <2>4. keyboard' \in {keyboard, NoSurface} /\ keyboard' # s
      BY <1>8 DEF DestroySurface, KeyboardWithout
    <2> QED BY <1>8, <2>1, <2>2, <2>3, <2>4 DEF DestroySurface
  <1>9. ASSUME NEW s \in Surface, NEW o \in Output, NewSurface(s, o)
        PROVE  SurfacesOfHeld' /\ KeyboardOnPrompt'
    BY <1>9 DEF NewSurface
  <1>10. CASE Unlock
    <2>1. \A s \in Surface : /\ surf'[s] \in SurfaceState
                             /\ surf'[s].state \notin {"live", "mapped"}
      BY <1>10 DEF Unlock, Gone
    <2>2. surf' \in [Surface -> SurfaceState]
      BY <1>10, <2>1 DEF Unlock
    <2> QED BY <1>10, <2>1, <2>2 DEF Unlock
  <1>11. CASE LockDies
    <2>1. \A s \in Surface : /\ surf'[s] \in SurfaceState
                             /\ surf'[s].state \notin {"live", "mapped"}
      BY <1>11 DEF LockDies, Dead, Gone
    <2>2. surf' \in [Surface -> SurfaceState]
      BY <1>11, <2>1 DEF LockDies
    <2>3. session_locked /\ keyboard' = KeyboardWithout(Dead)
      BY <1>11 DEF LockDies
    <2>4. keyboard' = NoSurface
      BY <2>3 DEF KeyboardWithout, Dead
    <2> QED BY <1>11, <2>1, <2>2, <2>4 DEF LockDies
  <1>12. CASE UNCHANGED vars
    BY <1>12 DEF vars, prompt
  <1> QED BY <1>1, <1>2, <1>3, <1>4, <1>5, <1>6, <1>7, <1>8, <1>9, <1>10, <1>11, <1>12
        DEF Next, OutputStep, LockStep, SurfaceStep

(* No lock surface at the start. *)
LEMMA PromptInit == Init => PromptInv
  BY CoverInit DEF Init, PromptInv, SurfacesOfHeld, KeyboardOnPrompt, SurfaceState, Gone

(* Behind the lock the keyboard is on a prompt of the lock that is held or
   nowhere, also after crashes and with surfaces an earlier lock left.       *)
THEOREM LockHoldsTheKeyboard == Spec => []KeyboardOnPrompt
  <1>1. Init => PromptInv
    BY PromptInit
  <1>2. PromptInv /\ [Next]_vars => PromptInv'
    BY CoverStep, PromptStep DEF PromptInv
  <1>3. PromptInv => KeyboardOnPrompt
    BY DEF PromptInv
  <1> QED BY <1>1, <1>2, <1>3, PTL DEF Spec

-----------------------------------------------------------------------------
(* The clients: the lock that is held is the only one whose client holds it. *)
ClientOfHeld ==
    /\ running \in BOOLEAN
    /\ focused_view \in BOOLEAN
    /\ client \in [Lock -> {"unborn", "held", "crashed", "done", "refused"}]
    /\ \A l \in Lock : client[l] = "held" <=> session_lock = l

(* Every step keeps the lock to the client that holds it. *)
LEMMA ClientStep == CoverInv /\ ClientOfHeld /\ [Next]_vars => ClientOfHeld'
  <1> SUFFICES ASSUME CoverInv, ClientOfHeld, [Next]_vars PROVE ClientOfHeld'
    OBVIOUS
  <1> USE LockAssumption DEF ClientOfHeld
  <1>0. running' \in BOOLEAN
    <2>1. \A gone : Destroys(gone) => running' \in BOOLEAN
      BY DEF Destroys
    <2> QED BY <2>1 DEF Next, OutputStep, ViewStep, LockStep, SurfaceStep, Plug, Unplug,
                SetMode, FocusView, LoseView, NewLock, RefuseLock, MapSurface,
                DestroySurface, NewSurface, Unlock, LockDies, Runs, vars
  <1>1. CASE UNCHANGED <<client, session_lock, focused_view>>
    BY <1>0, <1>1
  <1>2. CASE OutputStep
    BY <1>1, <1>2 DEF OutputStep, Plug, Unplug, SetMode
  <1>3. CASE ViewStep
    BY <1>0, <1>3 DEF ViewStep, FocusView, LoseView
  <1>4. ASSUME NEW l \in Lock, NewLock(l) PROVE ClientOfHeld'
    BY <1>0, <1>4 DEF NewLock
  <1>5. ASSUME NEW l \in Lock, RefuseLock(l) PROVE ClientOfHeld'
    BY <1>0, <1>5 DEF RefuseLock
  <1>6. CASE SurfaceStep
    BY <1>1, <1>6 DEF SurfaceStep, MapSurface, DestroySurface, NewSurface
  <1>7. CASE Unlock \/ LockDies
    <2>1. session_lock \in Lock /\ session_lock' = NoLock
      BY <1>7 DEF Unlock, LockDies, CoverInv, Held
    <2> QED BY <1>0, <1>7, <2>1 DEF Unlock, LockDies
  <1>8. CASE UNCHANGED vars
    BY <1>1, <1>8 DEF vars
  <1> QED BY <1>2, <1>3, <1>4, <1>5, <1>6, <1>7, <1>8 DEF Next, LockStep

(* PointersLive is inductive with what the other invariants know: a surface
   that an output points to has its own output, so ~Output of another output
   does not move it, and an unborn surface is not pointed to.                *)
PointersInv ==
    /\ PromptInv
    /\ ClientOfHeld
    /\ lock_surface \in [Output -> Surface \cup {NoSurface}]
    /\ PointersLive

(* Every step keeps an output's pointer to a surface that lives. *)
LEMMA PointersStep ==
  PointersInv /\ [Next]_vars =>
      lock_surface' \in [Output -> Surface \cup {NoSurface}] /\ PointersLive'
  <1> DEFINE Goal == lock_surface' \in [Output -> Surface \cup {NoSurface}] /\ PointersLive'
  <1> SUFFICES ASSUME PointersInv, [Next]_vars PROVE Goal
    OBVIOUS
  <1> USE LockAssumption DEF PointersInv, PromptInv, CoverInv, Held, SurfacesOfHeld,
          SurfaceState, PointersLive, Connected
  <1>1. ASSUME NEW o \in Output, Plug(o) PROVE Goal
    <2>1. \A p \in Output : layout_box[p] # NoBox => layout_box'[p] = layout_box[p]
      BY <1>1 DEF Plug
    <2>2. UNCHANGED <<lock_surface, surf>>
      BY <1>1 DEF Plug, prompt
    <2>3. ASSUME NEW p \in Output, lock_backdrop'[p] # NoLock
          PROVE  layout_box'[p] # NoBox /\ rect'[lock_backdrop'[p]][p] # NoBox
      <3>1. CASE p = o
        BY <1>1, <2>3, <3>1 DEF Plug
      <3>2. CASE p # o
        BY <1>1, <2>1, <2>3, <3>2 DEF Plug
      <3> QED BY <3>1, <3>2
    <2> QED BY <2>2, <2>3
  <1>2. ASSUME NEW o \in Output, Unplug(o) PROVE Goal
    <2>1. \A s \in Surface : surf[s].output # o => surf'[s] = surf[s]
      BY <1>2 DEF Unplug
    <2>2. lock_backdrop' = [lock_backdrop EXCEPT ![o] = NoLock]
          /\ lock_surface' = [lock_surface EXCEPT ![o] = NoSurface]
      BY <1>2 DEF Unplug
    <2>3. ASSUME NEW p \in Output, p # o, lock_backdrop[p] # NoLock
          PROVE  layout_box'[p] # NoBox /\ rect'[lock_backdrop[p]][p] # NoBox
      BY <1>2, <2>3 DEF Unplug
    <2>4. ASSUME NEW p \in Output, lock_surface'[p] # NoSurface
          PROVE  /\ surf'[lock_surface'[p]].state \in {"live", "mapped"}
                 /\ surf'[lock_surface'[p]].output = p
      BY <2>1, <2>2, <2>4
    <2> QED BY <2>2, <2>3, <2>4
  <1>3. ASSUME NEW o \in Output, NEW m \in Box, SetMode(o, m) PROVE Goal
    BY <1>3 DEF SetMode, prompt
  <1>4. CASE ViewStep
    BY <1>4 DEF ViewStep, FocusView, LoseView, screen, prompt
  <1>5. ASSUME NEW l \in Lock, NewLock(l) PROVE Goal
    BY <1>5 DEF NewLock, prompt
  <1>6. ASSUME NEW l \in Lock, RefuseLock(l) PROVE Goal
    BY <1>6 DEF RefuseLock, screen, prompt
  <1>7. ASSUME NEW s \in Surface, MapSurface(s) PROVE Goal
    <2>1. \A t \in Surface : /\ surf'[t].output = surf[t].output
                             /\ surf'[t].state = surf[t].state \/ surf'[t].state = "mapped"
      BY <1>7 DEF MapSurface
    <2> QED BY <1>7, <2>1 DEF MapSurface, screen
  <1>8. ASSUME NEW s \in Surface, DestroySurface(s) PROVE Goal
    <2>1. \A t \in Surface : t # s => surf'[t] = surf[t]
      BY <1>8 DEF DestroySurface
    <2> QED BY <1>8, <2>1 DEF DestroySurface, screen
  <1>9. ASSUME NEW s \in Surface, NEW o \in Output, NewSurface(s, o) PROVE Goal
    <2>1. \A p \in Output : lock_surface[p] # s
      BY <1>9 DEF NewSurface
    <2>2. UNCHANGED screen
      BY <1>9 DEF NewSurface
    <2>3. \A p \in Output : p # o => lock_surface'[p] = lock_surface[p]
      BY <1>9 DEF NewSurface
    <2>4. \A t \in Surface : t # s => surf'[t] = surf[t]
      BY <1>9 DEF NewSurface
    <2>5. lock_surface'[o] = s /\ surf'[s].state = "live" /\ surf'[s].output = o
      BY <1>9 DEF NewSurface
    <2>6. lock_surface' \in [Output -> Surface \cup {NoSurface}]
      BY <1>9 DEF NewSurface
    <2>7. \A p \in Output : lock_surface'[p] # NoSurface =>
              /\ surf'[lock_surface'[p]].state \in {"live", "mapped"}
              /\ surf'[lock_surface'[p]].output = p
      BY <2>1, <2>3, <2>4, <2>5, <2>6
    <2>8. \A p \in Output : lock_backdrop'[p] # NoLock =>
              layout_box'[p] # NoBox /\ rect'[lock_backdrop'[p]][p] # NoBox
      BY <2>2 DEF screen
    <2> QED BY <2>6, <2>7, <2>8
  <1>10. CASE Unlock
    BY <1>10 DEF Unlock
  <1>11. CASE LockDies
    <2>1. lock_surface' = [o \in Output |-> IF lock_surface[o] \in Dead THEN NoSurface
                                            ELSE lock_surface[o]]
      BY <1>11 DEF LockDies
    <2>2. surf' = [s \in Surface |-> IF s \in Dead THEN Gone("dead") ELSE surf[s]]
      BY <1>11 DEF LockDies
    <2>3. lock_surface' \in [Output -> Surface \cup {NoSurface}]
      BY <2>1
    <2>4. ASSUME NEW p \in Output, lock_surface'[p] # NoSurface
          PROVE  /\ surf'[lock_surface'[p]].state \in {"live", "mapped"}
                 /\ surf'[lock_surface'[p]].output = p
      <3>1. lock_surface'[p] = lock_surface[p] /\ lock_surface[p] \in Surface \ Dead
        BY <2>1, <2>4
      <3>2. surf'[lock_surface[p]] = surf[lock_surface[p]]
        BY <2>2, <3>1
      <3> QED BY <3>1, <3>2
    <2>5. \A p \in Output : lock_backdrop'[p] # NoLock =>
              layout_box'[p] # NoBox /\ rect'[lock_backdrop'[p]][p] # NoBox
      BY <1>11 DEF LockDies, screen
    <2> QED BY <2>3, <2>4, <2>5
  <1>12. CASE UNCHANGED vars
    BY <1>12 DEF vars, screen, prompt
  <1> QED BY <1>1, <1>2, <1>3, <1>4, <1>5, <1>6, <1>7, <1>8, <1>9, <1>10, <1>11, <1>12
        DEF Next, OutputStep, LockStep, SurfaceStep

(* The pointers are live at all times. *)
LEMMA PointersAlways == Spec => []PointersInv
  <1>1. Init => PointersInv
    <2>1. Init => PromptInv
      BY PromptInit
    <2>2. Init => ClientOfHeld
      BY LockAssumption, ZenonT(30) DEF Init, ClientOfHeld
    <2>3. Init => lock_surface \in [Output -> Surface \cup {NoSurface}] /\ PointersLive
      BY DEF Init, PointersLive
    <2> QED BY <2>1, <2>2, <2>3 DEF PointersInv
  <1>2. PointersInv /\ [Next]_vars => PointersInv'
    BY CoverStep, PromptStep, ClientStep, PointersStep DEF PointersInv, PromptInv
  <1> QED BY <1>1, <1>2, PTL DEF Spec

(* What an output points to is there for ~Output and updateLayoutBox to
   follow: the rectangle of a lock that has one on this connected output, a
   surface that is on it and not yet destroyed, whatever crashed before.     *)
THEOREM OutputsPointToLive == Spec => []PointersLive
  <1>1. PointersInv => PointersLive
    BY DEF PointersInv
  <1> QED BY <1>1, PointersAlways, PTL

(* The state has its shape, and session_lock is exactly the lock whose client
   was told "locked" and has neither unlocked nor died.                      *)
THEOREM LockShape == Spec => []TypeOK
  <1>1. PointersInv => TypeOK
    BY DEF PointersInv, PromptInv, CoverInv, Held, SurfacesOfHeld, ClientOfHeld, TypeOK
  <1> QED BY <1>1, PointersAlways, PTL
=============================================================================
