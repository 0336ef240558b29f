--------------------------- MODULE LuaHost_proof ---------------------------
(***************************************************************************)
(* Proofs about the Lua host, for any keys, hooks, timers and bounds: the  *)
(* stack of calls has one of few forms, a reload happens whole or not at   *)
(* all, timers are armed and fire before they go, monitor rules are in     *)
(* force, registry slots hold what was registered, and a dispatch reaches  *)
(* every hook.                                                             *)
(***************************************************************************)
EXTENDS LuaHost, TLAPS, SequenceTheorems, FiniteSetTheorems

(* What the registry holds in a slot.                                        *)
Owner == ({"key", "button", "hook", "timer", "free"} \X Nat) \cup ({"panel"} \X Panel)

Registry == [slots : Seq(Owner), free : Seq(Nat)]

HookRecord == [id : Nat, event : Event, ref : Nat]
TimerRecord == [id : Nat \ {0}, ref : Nat, interval : {0, 1}, armed : BOOLEAN, fired : BOOLEAN]
PanelRecord ==
    [life : {"not yet", "alive", "gone"}, ref : Nat \cup {NoRef},
     output : Monitor \cup {"none"}, visible : BOOLEAN]
Rules == [Monitor \cup {"*"} -> Mode \cup {"keep", "none"}]

Tables ==
    [keybinds : Seq([key : Key, ref : Nat]), mousebinds : Seq([button : Button, ref : Nat]),
     hooks : SUBSET HookRecord, timers : SUBSET TimerRecord, next_hook_id : Nat,
     settings : SUBSET (Visual \cup Behavior), rules : Rules]

LoadFrame == [at : {"load"}, ops : Nat]
CallFrame == [at : {"call"}, ops : Nat, who : Owner]
FireFrame ==
    [at : {"fire"}, refs : SUBSET [id : Nat, ref : Nat], due : SUBSET Nat, told : SUBSET Nat]
TimerFrame == [at : {"invoke", "tramp"}, timer : Nat, ref : Nat \cup {NoRef}, interval : {0, 1}]
Frame == LoadFrame \cup CallFrame \cup FireFrame \cup TimerFrame

-----------------------------------------------------------------------------
(* Sequences of frames: the innermost replaced, one more, one less.          *)
LEMMA Edited ==
    ASSUME NEW S, NEW f \in Seq(S), f # <<>>, NEW x \in S, NEW g, g = <<x>> \o Tail(f)
    PROVE  /\ g \in Seq(S) /\ Len(g) = Len(f) /\ g # <<>> /\ Head(g) = x
           /\ g[1] = x /\ \A n \in 2..Len(g) : g[n] = f[n]
<1>1. /\ Tail(f) \in Seq(S) /\ Len(f) \in Nat /\ Len(f) >= 1 /\ Len(Tail(f)) = Len(f) - 1
      /\ \A n \in 1..Len(Tail(f)) : Tail(f)[n] = f[n + 1]
  BY EmptySeq, HeadTailProperties, LenProperties
<1>2. <<x>> \in Seq(S) /\ Len(<<x>>) = 1 /\ <<x>>[1] = x
  OBVIOUS
<1> DEFINE t == Tail(f)
<1>3. t \in Seq(S) /\ Len(t) = Len(f) - 1 /\ g = <<x>> \o t
  BY <1>1
<1>4. \A n \in 1..Len(t) : t[n] = f[n + 1]
  BY <1>1
<1> HIDE DEF t
<1>5. g \in Seq(S) /\ Len(g) = 1 + Len(t)
  BY <1>2, <1>3, ConcatProperties
<1>6. ASSUME NEW n \in 1..Len(g) PROVE g[n] = IF n <= 1 THEN <<x>>[n] ELSE t[n - 1]
  BY <1>2, <1>3, <1>5, <1>6, ConcatProperties
<1>7. ASSUME NEW n \in 2..Len(g) PROVE g[n] = f[n]
  <2>1. n \in Nat /\ ~ (n <= 1) /\ n - 1 \in 1..Len(t) /\ (n - 1) + 1 = n /\ n \in 1..Len(g)
    BY <1>1, <1>3, <1>5
  <2>2. g[n] = t[n - 1]
    BY <1>6, <2>1
  <2> QED BY <1>4, <2>1, <2>2
<1>8. g[1] = x
  BY <1>1, <1>2, <1>3, <1>5, <1>6
<1> QED BY <1>1, <1>3, <1>5, <1>7, <1>8

(* One more... *)
LEMMA Pushed ==
    ASSUME NEW S, NEW f \in Seq(S), NEW x \in S, NEW g, g = <<x>> \o f
    PROVE  /\ g \in Seq(S) /\ Len(g) = Len(f) + 1 /\ g # <<>> /\ Head(g) = x
           /\ g[1] = x /\ \A n \in 2..Len(g) : n - 1 \in 1..Len(f) /\ g[n] = f[n - 1]
<1>1. <<x>> \in Seq(S) /\ Len(<<x>>) = 1 /\ <<x>>[1] = x /\ Len(f) \in Nat
  BY LenProperties
<1>2. g \in Seq(S) /\ Len(g) = 1 + Len(f)
  BY <1>1, ConcatProperties
<1>3. ASSUME NEW n \in 1..Len(g) PROVE g[n] = IF n <= 1 THEN <<x>>[n] ELSE f[n - 1]
  BY <1>1, <1>2, <1>3, ConcatProperties
<1>4. ASSUME NEW n \in 2..Len(g) PROVE n - 1 \in 1..Len(f) /\ g[n] = f[n - 1]
  BY <1>1, <1>2, <1>3
<1>5. g[1] = x
  BY <1>1, <1>2, <1>3
<1> QED BY <1>1, <1>2, <1>4, <1>5

(* ... and one less. *)
LEMMA Popped ==
    ASSUME NEW S, NEW f \in Seq(S), f # <<>>, NEW g, g = Tail(f)
    PROVE  /\ g \in Seq(S) /\ Len(g) = Len(f) - 1 /\ Len(f) \in Nat \ {0}
           /\ \A n \in 1..Len(g) : n + 1 \in 2..Len(f) /\ g[n] = f[n + 1]
BY HeadTailProperties, LenProperties, EmptySeq

-----------------------------------------------------------------------------
(* The shape of the state.                                                   *)
TypeInv ==
    /\ registry \in Registry /\ tables \in Tables
    /\ saved \in {NoConfig} \cup [registry : Registry, tables : Tables]
    /\ mode \in [Monitor -> Mode \cup {"none"}]
    /\ panels \in [Panel -> PanelRecord]
    /\ frames \in Seq(Frame)
    /\ reload_pending \in BOOLEAN /\ watched \in BOOLEAN
    /\ next_timer_id \in Nat \ {0}
    /\ session \in Sessions

(* luaL_ref picks a slot... *)
LEMMA SlotShape == ASSUME NEW r \in Registry PROVE Slot(r) \in Nat
<1>1. r.slots \in Seq(Owner) /\ r.free \in Seq(Nat)
  BY DEF Registry
<1> DEFINE f == r.free
<1>2. f # <<>> => Head(f) \in Nat
  BY <1>1, HeadTailProperties
<1>3. Len(r.slots) \in Nat
  BY <1>1, LenProperties
<1> QED BY <1>2, <1>3 DEF Slot

(* ... and fills it, ... *)
LEMMA RefShape == ASSUME NEW r \in Registry, NEW o \in Owner PROVE Ref(r, o) \in Registry
<1> DEFINE f == r.free
           s == r.slots
           put == [s EXCEPT ![Head(f)] = o]
           more == Append(s, o)
           left == Tail(f)
<1>1. s \in Seq(Owner) /\ f \in Seq(Nat)
  BY DEF Registry
<1>2. more \in Seq(Owner)
  BY <1>1, AppendProperties
<1>3. put \in Seq(Owner)
  <2>1. CASE Head(f) \in 1..Len(s)
    BY <1>1, <2>1, ExceptSeq
  <2>2. CASE Head(f) \notin 1..Len(s)
    <3>1. /\ DOMAIN s = 1..Len(s) /\ Len(s) \in Nat
          /\ \A i \in 1..Len(s) : s[i] \in Owner
      BY <1>1, LenProperties, ElementOfSeq
    <3> HIDE DEF s, f
    <3>2. put \in [1..Len(s) -> Owner]
      BY <2>2, <3>1
    <3> QED BY <3>1, <3>2
  <2> QED BY <2>1, <2>2
<1>4. f # <<>> => left \in Seq(Nat)
  BY <1>1, HeadTailProperties
<1>5. /\ f # <<>> => Ref(r, o) = [slots |-> put, free |-> left]
      /\ f = <<>> => Ref(r, o) = [r EXCEPT !.slots = more]
  BY DEF Ref
<1> HIDE DEF f, put, more, left
<1>6. [r EXCEPT !.slots = more] \in Registry
  BY <1>2 DEF Registry
<1>7. f # <<>> => [slots |-> put, free |-> left] \in Registry
  BY <1>3, <1>4 DEF Registry
<1> QED BY <1>5, <1>6, <1>7

(* ... luaL_unref frees it, ... *)
LEMMA UnrefShape == ASSUME NEW r \in Registry, NEW n \in Nat PROVE Unref(r, n) \in Registry
<1> DEFINE f == r.free
           s == r.slots
           left == [i \in DOMAIN s |-> IF i = n THEN Free ELSE s[i]]
           more == <<n>> \o f
<1>1. s \in Seq(Owner) /\ f \in Seq(Nat)
  BY DEF Registry
<1>2. Free \in Owner
  BY DEF Free, Owner
<1>3. left \in Seq(Owner)
  <2>1. DOMAIN s = 1..Len(s) /\ Len(s) \in Nat /\ \A i \in 1..Len(s) : s[i] \in Owner
    BY <1>1, LenProperties, ElementOfSeq
  <2>2. left \in [1..Len(s) -> Owner]
    BY <1>2, <2>1
  <2> QED BY <2>1, <2>2
<1>4. more \in Seq(Nat)
  BY <1>1, Pushed
<1>5. Unref(r, n) = [slots |-> left, free |-> more]
  BY DEF Unref
<1> HIDE DEF left, more
<1> QED BY <1>3, <1>4, <1>5 DEF Registry

(* ... and what is in a slot is an owner. *)
LEMMA AtShape == ASSUME NEW r \in Registry, NEW n PROVE At(r, n) \in Owner
<1>1. r.slots \in Seq(Owner)
  BY DEF Registry
<1>2. Free \in Owner
  BY DEF Free, Owner
<1> QED BY <1>1, <1>2, ElementOfSeq, LenProperties DEF At

(* One more uwu.* call of the innermost function.                            *)
LEMMA CountedShape ==
    ASSUME TypeInv, InLua
    PROVE  /\ Counted \in Seq(Frame) /\ Len(Counted) = Len(frames) /\ Counted # <<>>
           /\ frames # <<>>
           /\ Head(Counted).at = Top.at /\ Counted[1].at = frames[1].at
           /\ Top = frames[1] /\ Head(Counted) \in LoadFrame \cup CallFrame
           /\ \A n \in 2..Len(Counted) : Counted[n] = frames[n]
<1> DEFINE x == [Top EXCEPT !.ops = @ + 1]
<1>1. frames \in Seq(Frame) /\ frames # <<>> /\ Top = frames[1] /\ Top \in Frame
  BY HeadTailProperties DEF TypeInv, InLua, Idle, Top
<1>2. Top \in LoadFrame \cup CallFrame
  BY <1>1 DEF InLua, Frame, LoadFrame, CallFrame, FireFrame, TimerFrame
<1>3. x \in LoadFrame \cup CallFrame /\ x.at = Top.at
  BY <1>2 DEF LoadFrame, CallFrame
<1>4. x \in Frame
  BY <1>3 DEF Frame
<1>5. Counted = <<x>> \o Tail(frames)
  BY DEF Counted
<1> HIDE DEF x
<1> QED BY <1>1, <1>3, <1>4, <1>5, Edited

(* Tables with one part replaced.                                            *)
LEMMA TablesWith ==
    ASSUME NEW t \in Tables
    PROVE  /\ \A kb \in Seq([key : Key, ref : Nat]) : [t EXCEPT !.keybinds = kb] \in Tables
           /\ \A mb \in Seq([button : Button, ref : Nat]) :
                 [t EXCEPT !.mousebinds = mb] \in Tables
           /\ \A hs \in SUBSET HookRecord : [t EXCEPT !.hooks = hs] \in Tables
           /\ \A hs \in SUBSET HookRecord, i \in Nat :
                 [t EXCEPT !.hooks = hs, !.next_hook_id = i] \in Tables
           /\ \A ts \in SUBSET TimerRecord : [t EXCEPT !.timers = ts] \in Tables
           /\ \A ss \in SUBSET (Visual \cup Behavior) : [t EXCEPT !.settings = ss] \in Tables
           /\ \A rs \in Rules : [t EXCEPT !.rules = rs] \in Tables
BY DEF Tables

(* A fresh Lua state and fresh tables have their shape. *)
LEMMA EmptyShape == EmptyRegistry \in Registry /\ EmptyTables \in Tables
<1>1. /\ <<>> \in Seq(Owner) /\ <<>> \in Seq(Nat)
      /\ <<>> \in Seq([key : Key, ref : Nat]) /\ <<>> \in Seq([button : Button, ref : Nat])
  BY EmptySeq
<1>2. [m \in Monitor \cup {"*"} |-> "none"] \in Rules
  BY DEF Rules
<1> QED BY <1>1, <1>2 DEF EmptyRegistry, EmptyTables, Registry, Tables

(* The three outcomes of guardedCall: refused, over at once, running.        *)
LEMMA GuardedIs ==
    ASSUME TypeInv, NEW n, NEW below \in Seq(Frame), GuardedCall(n, below)
    PROVE  /\ frames' \in Seq(Frame) /\ watched' \in BOOLEAN
           /\ \/ frames' = below /\ (watched' = watched \/ watched' = FALSE)
              \/ /\ ~ (Depth >= MaxDepth) /\ watched' = TRUE
                 /\ \E c \in CallFrame : frames' = <<c>> \o below
<1> DEFINE o == At(registry, n)
           c == Call(o)
<1>1. o \in Owner
  BY AtShape DEF TypeInv
<1>2. c \in CallFrame /\ c \in Frame
  BY <1>1 DEF Call, CallFrame, Frame
<1>3. \/ frames' = below /\ (watched' = watched \/ watched' = FALSE)
      \/ ~ (Depth >= MaxDepth) /\ watched' = TRUE /\ frames' = <<c>> \o below
  BY DEF GuardedCall
<1> HIDE DEF c
<1>4. <<c>> \o below \in Seq(Frame)
  BY <1>2, Pushed
<1> QED BY <1>2, <1>3, <1>4 DEF TypeInv

(* A call from Lua that takes a reference. *)
LEMMA RefCall ==
    ASSUME TypeInv, NEW o \in Owner, registry' = Ref(registry, o), tables' \in Tables, InLua,
           frames' = Counted, next_timer_id' \in Nat \ {0}, panels' \in [Panel -> PanelRecord],
           UNCHANGED <<saved, reload_pending, watched, world>>
    PROVE  TypeInv'
BY RefShape, CountedShape DEF TypeInv, world

(* uwu.key and uwu.mouse *)
LEMMA BindShape ==
    ASSUME TypeInv, \/ \E k \in Key : LBind(k)
                    \/ \E b \in Button : LMousebind(b)
    PROVE  TypeInv'
<1>0. Slot(registry) \in Nat
  BY SlotShape DEF TypeInv
<1>1. ASSUME NEW k \in Key, LBind(k) PROVE TypeInv'
  <2> DEFINE kb == Append(tables.keybinds, [key |-> k, ref |-> Slot(registry)])
             o == <<"key", Len(tables.keybinds) + 1>>
  <2>1. tables.keybinds \in Seq([key : Key, ref : Nat])
    BY DEF TypeInv, Tables
  <2>2. kb \in Seq([key : Key, ref : Nat])
    BY <1>0, <2>1, AppendProperties
  <2>3. o \in Owner
    BY <2>1, LenProperties DEF Owner
  <2>4. /\ tables' = [tables EXCEPT !.keybinds = kb] /\ registry' = Ref(registry, o)
        /\ InLua /\ frames' = Counted
        /\ UNCHANGED <<saved, panels, reload_pending, next_timer_id, watched, world>>
    BY <1>1 DEF LBind, May
  <2> HIDE DEF kb, o
  <2>5. tables' \in Tables
    BY <2>2, <2>4, TablesWith DEF TypeInv
  <2> QED BY <2>3, <2>4, <2>5, RefCall DEF TypeInv
<1>2. ASSUME NEW b \in Button, LMousebind(b) PROVE TypeInv'
  <2> DEFINE mb == Append(tables.mousebinds, [button |-> b, ref |-> Slot(registry)])
             o == <<"button", Len(tables.mousebinds) + 1>>
  <2>1. tables.mousebinds \in Seq([button : Button, ref : Nat])
    BY DEF TypeInv, Tables
  <2>2. mb \in Seq([button : Button, ref : Nat])
    BY <1>0, <2>1, AppendProperties
  <2>3. o \in Owner
    BY <2>1, LenProperties DEF Owner
  <2>4. /\ tables' = [tables EXCEPT !.mousebinds = mb] /\ registry' = Ref(registry, o)
        /\ InLua /\ frames' = Counted
        /\ UNCHANGED <<saved, panels, reload_pending, next_timer_id, watched, world>>
    BY <1>2 DEF LMousebind, May
  <2> HIDE DEF mb, o
  <2>5. tables' \in Tables
    BY <2>2, <2>4, TablesWith DEF TypeInv
  <2> QED BY <2>3, <2>4, <2>5, RefCall DEF TypeInv
<1> QED BY <1>1, <1>2

(* uwu.hook and uwu.rule *)
LEMMA HookShape ==
    ASSUME TypeInv, \/ LRule \/ \E e \in Event : LHook(e)
    PROVE  TypeInv'
<1>1. PICK e \in Event : LHook(e)
  BY DEF LRule
<1> DEFINE h == [id |-> tables.next_hook_id, event |-> e, ref |-> Slot(registry)]
           hs == tables.hooks \cup {h}
           i == tables.next_hook_id + 1
           o == <<"hook", tables.next_hook_id>>
<1>2. /\ tables.hooks \in SUBSET HookRecord /\ tables.next_hook_id \in Nat
      /\ Slot(registry) \in Nat
  BY SlotShape DEF TypeInv, Tables
<1>3. hs \in SUBSET HookRecord /\ i \in Nat /\ o \in Owner
  BY <1>2 DEF HookRecord, Owner
<1>4. /\ tables' = [tables EXCEPT !.hooks = hs, !.next_hook_id = i]
      /\ registry' = Ref(registry, o) /\ InLua /\ frames' = Counted
      /\ UNCHANGED <<saved, panels, reload_pending, next_timer_id, watched, world>>
  BY <1>1 DEF LHook, AddHook, May
<1> HIDE DEF hs, i, o
<1>5. tables' \in Tables
  BY <1>3, <1>4, TablesWith DEF TypeInv
<1> QED BY <1>3, <1>4, <1>5, RefCall DEF TypeInv

(* uwu.timer and uwu.after *)
LEMMA TimerShape ==
    ASSUME TypeInv, NEW interval \in {0, 1}, NewTimer(interval) PROVE TypeInv'
<1> DEFINE x == [id |-> next_timer_id, ref |-> Slot(registry), interval |-> interval,
                 armed |-> TRUE, fired |-> FALSE]
           ts == tables.timers \cup {x}
           o == <<"timer", next_timer_id>>
<1>1. /\ tables.timers \in SUBSET TimerRecord /\ next_timer_id \in Nat \ {0}
      /\ Slot(registry) \in Nat
  BY SlotShape DEF TypeInv, Tables
<1>2. x \in TimerRecord /\ o \in Owner
  BY <1>1 DEF TimerRecord, Owner
<1>3. /\ tables' = [tables EXCEPT !.timers = ts]
      /\ registry' = Ref(registry, o) /\ InLua /\ frames' = Counted
      /\ next_timer_id' = next_timer_id + 1
      /\ UNCHANGED <<saved, panels, reload_pending, watched, world>>
  BY DEF NewTimer, AddTimer, May
<1> HIDE DEF x, o
<1>4. tables' \in Tables
  BY <1>1, <1>2, <1>3, TablesWith DEF TypeInv
<1>5. next_timer_id' \in Nat \ {0} /\ panels' \in [Panel -> PanelRecord]
  BY <1>1, <1>3 DEF TypeInv
<1> QED BY <1>2, <1>3, <1>4, <1>5, RefCall

(* A call from Lua that may give a reference back. *)
LEMMA UnrefCall ==
    ASSUME TypeInv, NEW n \in Nat, registry' \in {registry, Unref(registry, n)},
           tables' \in Tables, InLua, frames' = Counted, panels' \in [Panel -> PanelRecord],
           mode' \in [Monitor -> Mode \cup {"none"}], reload_pending' \in BOOLEAN,
           UNCHANGED <<saved, watched, next_timer_id, session>>
    PROVE  TypeInv'
BY UnrefShape, CountedShape DEF TypeInv

(* uwu.unhook and the cancelling of a timer *)
LEMMA UnhookShape ==
    ASSUME TypeInv, \/ \E h \in tables.hooks : LUnhook(h)
                    \/ \E x \in tables.timers : LCancel(x)
    PROVE  TypeInv'
<1>0. tables.hooks \in SUBSET HookRecord /\ tables.timers \in SUBSET TimerRecord
  BY DEF TypeInv, Tables
<1>1. ASSUME NEW h \in tables.hooks, LUnhook(h) PROVE TypeInv'
  <2>1. h.ref \in Nat /\ tables.hooks \ {h} \in SUBSET HookRecord
    BY <1>0 DEF HookRecord
  <2>2. tables' \in Tables
    BY <1>1, <2>1, TablesWith DEF LUnhook, RemoveHook, TypeInv
  <2> QED BY <1>1, <2>1, <2>2, UnrefCall DEF LUnhook, May, TypeInv, world
<1>2. ASSUME NEW x \in tables.timers, LCancel(x) PROVE TypeInv'
  <2>1. x.ref \in Nat /\ tables.timers \ {x} \in SUBSET TimerRecord
    BY <1>0 DEF TimerRecord
  <2>2. tables' \in Tables
    BY <1>2, <2>1, TablesWith DEF LCancel, TypeInv
  <2> QED BY <1>2, <2>1, <2>2, UnrefCall DEF LCancel, May, TypeInv, world
<1> QED BY <1>1, <1>2

(* What rc.lua does with a bar or a widget window.                           *)
Painted(b) ==
    \/ \E m \in Monitor, visible \in BOOLEAN : Create(b, m, visible)
    \/ OnClick(b) \/ Destroy(b)
    \/ \E visible \in BOOLEAN : LShow(b, visible)

(* A bar that is made, painted, moved to an output or destroyed. *)
LEMMA PanelShape ==
    ASSUME TypeInv, NEW b \in Panel, Painted(b)
    PROVE  TypeInv'
<1>0. /\ panels \in [Panel -> PanelRecord] /\ panels[b] \in PanelRecord /\ InLua
      /\ frames' = Counted
      /\ UNCHANGED <<tables, saved, reload_pending, next_timer_id, watched, world>>
  BY DEF Painted, TypeInv, Create, OnClick, Destroy, LShow, May
<1>1. Released(b) = registry \/ \E n \in Nat : Released(b) = Unref(registry, n)
  BY <1>0 DEF Released, PanelRecord
<1>2. Released(b) \in Registry
  BY <1>1, UnrefShape DEF TypeInv
<1>3. CASE OnClick(b)
  <2> DEFINE s == Slot(Released(b))
             o == <<"panel", b>>
  <2>1. s \in Nat /\ o \in Owner
    BY <1>2, SlotShape DEF Owner
  <2>2. registry' = Ref(Released(b), o) /\ panels' = [panels EXCEPT ![b].ref = s]
    BY <1>3 DEF OnClick
  <2> HIDE DEF s, o
  <2>3. registry' \in Registry
    BY <1>2, <2>1, <2>2, RefShape
  <2>4. panels' \in [Panel -> PanelRecord]
    BY <1>0, <2>1, <2>2 DEF PanelRecord
  <2> QED BY <1>0, <2>3, <2>4, CountedShape DEF TypeInv, world
<1>4. CASE Destroy(b)
  <2>1. Gone \in PanelRecord
    BY DEF Gone, NotYet, PanelRecord
  <2>2. registry' \in Registry /\ panels' \in [Panel -> PanelRecord]
    BY <1>0, <1>2, <1>4, <2>1 DEF Destroy
  <2> QED BY <1>0, <2>2, CountedShape DEF TypeInv, world
<1>5. ASSUME NEW m \in Monitor, NEW visible \in BOOLEAN, Create(b, m, visible) PROVE TypeInv'
  <2>1. [life |-> "alive", ref |-> NoRef, output |-> m, visible |-> visible] \in PanelRecord
    BY DEF PanelRecord
  <2>2. registry' = registry /\ panels' \in [Panel -> PanelRecord]
    BY <1>0, <1>5, <2>1 DEF Create
  <2> QED BY <1>0, <2>2, CountedShape DEF TypeInv, world
<1>6. ASSUME NEW visible \in BOOLEAN, LShow(b, visible) PROVE TypeInv'
  <2>1. registry' = registry /\ panels' \in [Panel -> PanelRecord]
    BY <1>0, <1>6 DEF LShow, PanelRecord
  <2> QED BY <1>0, <2>1, CountedShape DEF TypeInv, world
<1> QED BY <1>3, <1>4, <1>5, <1>6 DEF Painted

(* uwu.set, uwu.monitor.set and uwu.reload *)
LEMMA SettingShape ==
    ASSUME TypeInv,
           \/ \E name \in Visual \cup Behavior, wanted \in SUBSET {"visual", "behavior"} :
                 DispatchSet(wanted, name)
           \/ \E name \in Monitor \cup {"*"}, rule \in Mode \cup {"keep"} :
                 LMonitorSet(name, rule)
           \/ LReload
    PROVE  TypeInv'
<1>1. ASSUME NEW name \in Visual \cup Behavior, NEW wanted, DispatchSet(wanted, name)
      PROVE  TypeInv'
  <2> DEFINE ss == tables.settings \cup {name}
  <2>1. ss \in SUBSET (Visual \cup Behavior)
    BY DEF TypeInv, Tables
  <2>2. tables' = tables \/ tables' = [tables EXCEPT !.settings = ss]
    BY <1>1 DEF DispatchSet, Setter
  <2> HIDE DEF ss
  <2>0. tables \in Tables
    BY DEF TypeInv
  <2>3. tables' \in Tables
    BY <2>0, <2>1, <2>2, TablesWith
  <2> QED BY <1>1, <2>3, CountedShape DEF DispatchSet, May, TypeInv, world
<1>2. ASSUME NEW name \in Monitor \cup {"*"}, NEW rule \in Mode \cup {"keep"},
             LMonitorSet(name, rule)
      PROVE  TypeInv'
  <2> DEFINE rs == [tables.rules EXCEPT ![name] = rule]
  <2>1. rs \in Rules
    BY DEF TypeInv, Tables, Rules
  <2>2. tables' = [tables EXCEPT !.rules = rs]
    BY <1>2 DEF LMonitorSet
  <2> HIDE DEF rs
  <2>3. tables' \in Tables
    BY <2>1, <2>2, TablesWith DEF TypeInv
  <2>4. mode' \in [Monitor -> Mode \cup {"none"}]
    BY <1>2 DEF LMonitorSet, Applied, TypeInv
  <2> QED BY <1>2, <2>3, <2>4, CountedShape DEF LMonitorSet, May, TypeInv
<1>3. CASE LReload
  BY <1>3, CountedShape DEF LReload, May, TypeInv, world
<1> QED BY <1>1, <1>2, <1>3

(* A dispatch starts with all hooks of its event due. *)
LEMMA FireIs == ASSUME TypeInv, NEW e PROVE Fire(e) \in FireFrame /\ Fire(e) \in Frame
<1>1. HooksOn(tables, e) \in SUBSET HookRecord
  BY DEF HooksOn, TypeInv, Tables
<1> DEFINE hs == HooksOn(tables, e)
           rs == {[id |-> h.id, ref |-> h.ref] : h \in hs}
           ds == {h.id : h \in hs}
<1>2. rs \in SUBSET [id : Nat, ref : Nat] /\ ds \in SUBSET Nat
  BY <1>1 DEF HookRecord
<1>3. Fire(e) = [at |-> "fire", refs |-> rs, due |-> ds, told |-> {}]
  BY DEF Fire
<1> HIDE DEF rs, ds
<1> QED BY <1>2, <1>3 DEF FireFrame, Frame

(* Events that Lua or the compositor fires. *)
LEMMA FiresShape ==
    ASSUME TypeInv, NEW e \in Event, LFire(e) \/ Happens(e) PROVE TypeInv'
<1>1. CASE LFire(e)
  <2>1. frames' = <<Fire(e)>> \o Counted /\ InLua
    BY <1>1 DEF LFire, May
  <2>2. frames' \in Seq(Frame)
    BY <2>1, CountedShape, FireIs, Pushed
  <2> QED BY <1>1, <2>2 DEF LFire, TypeInv, world
<1>2. CASE Happens(e)
  <2>1. frames' \in Seq(Frame)
    BY <1>2, FireIs DEF Happens
  <2> QED BY <1>2, <2>1 DEF Happens, TypeInv, world
<1> QED BY <1>1, <1>2

(* What the dispatch makes of its frame for the next hook.                   *)
Reached(n) == IF At(registry, n)[1] = "hook" THEN {At(registry, n)[2]} ELSE {}
After(h) == [Top EXCEPT !.refs = @ \ {h}, !.told = @ \cup Reached(h.ref)]

(* The next hook of a dispatch is one it took along. *)
LEMMA NextIs ==
    ASSUME TypeInv, FireNext
    PROVE  /\ frames # <<>> /\ Top = frames[1] /\ Top \in FireFrame
           /\ \E h \in Top.refs :
                 /\ h \in [id : Nat, ref : Nat]
                 /\ After(h) \in FireFrame /\ After(h) \in Frame
                 /\ GuardedCall(h.ref, <<After(h)>> \o Tail(frames))
<1>1. frames \in Seq(Frame) /\ frames # <<>> /\ Top = frames[1] /\ Top \in Frame
  BY HeadTailProperties DEF TypeInv, FireNext, Idle, Top
<1>2. Top \in FireFrame
  BY <1>1 DEF FireNext, Frame, LoadFrame, CallFrame, FireFrame, TimerFrame
<1>3. PICK h \in Top.refs : GuardedCall(h.ref, <<After(h)>> \o Tail(frames))
  BY DEF FireNext, After, Reached
<1>4. h \in [id : Nat, ref : Nat]
  BY <1>2 DEF FireFrame
<1>5. Reached(h.ref) \in SUBSET Nat
  <2>1. At(registry, h.ref) \in Owner
    BY AtShape DEF TypeInv
  <2> QED BY <2>1 DEF Reached, Owner
<1>6. After(h) \in FireFrame
  BY <1>2, <1>5 DEF After, FireFrame
<1> QED BY <1>1, <1>2, <1>3, <1>4, <1>6 DEF Frame

(* The steps of a dispatch, and the return of a call. *)
LEMMA CallsShape ==
    ASSUME TypeInv, FireNext \/ FireEnd \/ CallEnd PROVE TypeInv'
<1>1. CASE FireNext
  <2>1. PICK h \in Top.refs : /\ After(h) \in Frame /\ frames # <<>>
                              /\ GuardedCall(h.ref, <<After(h)>> \o Tail(frames))
    BY <1>1, NextIs
  <2>2. <<After(h)>> \o Tail(frames) \in Seq(Frame)
    BY <2>1, Edited DEF TypeInv
  <2>3. frames' \in Seq(Frame) /\ watched' \in BOOLEAN
    BY <2>1, <2>2, GuardedIs
  <2> QED BY <1>1, <2>3 DEF FireNext, TypeInv, world
<1>2. CASE FireEnd
  BY <1>2, Popped DEF FireEnd, Idle, TypeInv, world
<1>3. CASE CallEnd
  BY <1>3, Popped DEF CallEnd, Idle, TypeInv, world
<1> QED BY <1>1, <1>2, <1>3

(* A call that the event loop begins.                                        *)
LEMMA BeginIs ==
    ASSUME NEW id \in Nat, NEW n \in Nat \cup {NoRef}, NEW i \in {0, 1}
    PROVE  Invoke(id, n, i) \in TimerFrame /\ <<Invoke(id, n, i)>> \in Seq(Frame)
<1>1. Invoke(id, n, i) \in TimerFrame
  BY DEF Invoke, TimerFrame
<1> HIDE DEF Invoke
<1> QED BY <1>1 DEF Frame

(* What the event loop starts. *)
LEMMA EventShape ==
    ASSUME TypeInv, \/ \E k \in Key : Press(k)
                    \/ \E b \in Button : PressButton(b)
                    \/ \E b \in Panel : Click(b)
                    \/ \E x \in tables.timers : TimerFires(x)
    PROVE  TypeInv'
<1>1. CASE \/ \E k \in Key : Press(k)
           \/ \E b \in Button : PressButton(b)
           \/ \E b \in Panel : Click(b)
  <2>1. <<Invoke(0, NoRef, 0)>> \in Seq(Frame)
    BY BeginIs
  <2>2. \E n : GuardedCall(n, <<Invoke(0, NoRef, 0)>>)
    BY <1>1 DEF Press, PressButton, Click
  <2>3. frames' \in Seq(Frame) /\ watched' \in BOOLEAN
    BY <2>1, <2>2, GuardedIs
  <2> QED BY <1>1, <2>3 DEF Press, PressButton, Click, TypeInv, world
<1>2. ASSUME NEW x \in tables.timers, TimerFires(x) PROVE TypeInv'
  <2> DEFINE y == Fired(x)
             ts == (tables.timers \ {x}) \cup {y}
  <2>1. tables.timers \in SUBSET TimerRecord
    BY DEF TypeInv, Tables
  <2>2. x \in TimerRecord /\ y \in TimerRecord
    BY <2>1 DEF Fired, TimerRecord
  <2>3. <<Invoke(x.id, x.ref, x.interval)>> \in Seq(Frame)
    BY <2>2, BeginIs DEF TimerRecord
  <2>4. /\ tables' = [tables EXCEPT !.timers = ts]
        /\ GuardedCall(x.ref, <<Invoke(x.id, x.ref, x.interval)>>)
    BY <1>2 DEF TimerFires
  <2> HIDE DEF y
  <2>5. ts \in SUBSET TimerRecord
    BY <2>1, <2>2
  <2> HIDE DEF ts
  <2>6. tables' \in Tables
    BY <2>4, <2>5, TablesWith DEF TypeInv
  <2>7. frames' \in Seq(Frame) /\ watched' \in BOOLEAN
    BY <2>3, <2>4, GuardedIs
  <2> QED BY <1>2, <2>6, <2>7 DEF TimerFires, TypeInv, world
<1> QED BY <1>1, <1>2

(* A reload asked for by a signal or after a timer's callback. *)
LEMMA ReloadShape ==
    ASSUME TypeInv, Sighup \/ InvokeEnd PROVE TypeInv'
<1>1. ASSUME NEW below \in Seq(Frame), BeginReload(below)
      PROVE  /\ registry' \in Registry /\ tables' \in Tables /\ frames' \in Seq(Frame)
             /\ saved' \in [registry : Registry, tables : Tables]
  <2>1. Load \in Frame
    BY DEF Load, LoadFrame, Frame
  <2>2. frames' \in Seq(Frame)
    BY <1>1, <2>1, Pushed DEF BeginReload
  <2> QED BY <1>1, <2>2, EmptyShape DEF BeginReload, TypeInv
<1>2. CASE Sighup
  <2>1. <<>> \in Seq(Frame)
    BY EmptySeq
  <2> QED BY <1>1, <1>2, <2>1 DEF Sighup, TypeInv, world
<1>3. CASE InvokeEnd
  <2>1. frames \in Seq(Frame) /\ frames # <<>> /\ Top \in Frame
    BY <1>3, HeadTailProperties DEF TypeInv, InvokeEnd, Idle, Top
  <2>2. Trampoline \in Frame
    BY <1>3, <2>1 DEF InvokeEnd, Trampoline, Frame, LoadFrame, CallFrame, FireFrame, TimerFrame
  <2> DEFINE below == <<Trampoline>> \o Tail(frames)
  <2>3. below \in Seq(Frame)
    BY <2>1, <2>2, Edited
  <2>4. /\ \/ BeginReload(below) /\ reload_pending' = FALSE
           \/ frames' = below /\ UNCHANGED <<registry, tables, saved, reload_pending>>
        /\ UNCHANGED <<panels, next_timer_id, watched, world>>
    BY <1>3 DEF InvokeEnd
  <2> HIDE DEF below
  <2> QED BY <1>1, <2>3, <2>4 DEF TypeInv, world
<1> QED BY <1>2, <1>3

(* The end of a timer's callback. *)
LEMMA TrampolineShape ==
    ASSUME TypeInv, TrampolineEnd PROVE TypeInv'
<1> DEFINE mine == TimersIn(tables, Top.timer)
           again == IF Top.interval > 0 THEN {[x EXCEPT !.armed = TRUE] : x \in mine} ELSE {}
           ts == (tables.timers \ mine) \cup again
<1>1. tables.timers \in SUBSET TimerRecord /\ mine \in SUBSET TimerRecord
  BY DEF TypeInv, Tables, TimersIn
<1>2. again \in SUBSET TimerRecord
  BY <1>1 DEF TimerRecord
<1>3. tables' = [tables EXCEPT !.timers = ts]
  BY DEF TrampolineEnd
<1> HIDE DEF again, mine
<1>4. tables' \in Tables
  BY <1>1, <1>2, <1>3, TablesWith DEF TypeInv
<1>5. frames' \in Seq(Frame)
  BY Popped DEF TrampolineEnd, Idle, TypeInv
<1> QED BY <1>4, <1>5 DEF TrampolineEnd, TypeInv, world

(* A rule puts an output in a mode, and none in "none".                      *)
LEMMA ReappliedShape ==
    ASSUME TypeInv, NEW t \in Tables PROVE Reapplied(t) \in [Monitor -> Mode \cup {"none"}]
<1>1. \A m \in Monitor : RuleFor(t, m) \in Mode \cup {"keep", "none"}
  BY DEF RuleFor, Tables, Rules
<1>2. \A m \in Monitor : mode[m] \in Mode \cup {"none"}
  BY DEF TypeInv
<1> QED BY <1>1, <1>2 DEF Reapplied, Applied

(* The end of rc.lua, well or not. *)
LEMMA LoadedShape ==
    ASSUME TypeInv, LoadOk \/ LoadFails PROVE TypeInv'
<1>0. frames' \in Seq(Frame)
  BY Popped DEF LoadOk, LoadFails, RollBack, Idle, TypeInv
<1>1. CASE LoadOk
  BY <1>0, <1>1, ReappliedShape DEF LoadOk, TypeInv
<1>2. CASE LoadFails
  <2>1. saved \in [registry : Registry, tables : Tables]
    BY <1>2 DEF LoadFails, RollBack, TypeInv
  <2>2. saved.registry \in Registry /\ saved.tables \in Tables
    BY <2>1
  <2> QED BY <1>0, <1>2, <2>2, ReappliedShape DEF LoadFails, RollBack, TypeInv
<1> QED BY <1>1, <1>2

(* Outputs that come and go. *)
LEMMA PlugShape ==
    ASSUME TypeInv, NEW m \in Monitor, Plug(m) \/ Unplug(m) PROVE TypeInv'
<1>1. CASE Plug(m)
  <2>1. RuleFor(tables, m) \in Mode \cup {"keep", "none"} /\ "preferred" \in Mode
    BY LuaAssumption DEF RuleFor, TypeInv, Tables, Rules
  <2> QED BY <1>1, <2>1 DEF Plug, TypeInv
<1>2. CASE Unplug(m)
  <2> DEFINE p(b) == [panels[b] EXCEPT !.output = IF panels[b].output = m THEN "none"
                                                  ELSE panels[b].output]
  <2>0. ASSUME NEW b \in Panel PROVE p(b) \in PanelRecord
    <3>1. panels[b] \in PanelRecord
      BY DEF TypeInv
    <3> QED BY <3>1 DEF PanelRecord
  <2>1. panels' = [b \in Panel |-> p(b)]
    BY <1>2 DEF Unplug
  <2> HIDE DEF p
  <2>2. panels' \in [Panel -> PanelRecord]
    BY <2>0, <2>1
  <2>3. mode' \in [Monitor -> Mode \cup {"none"}]
    BY <1>2 DEF Unplug, TypeInv
  <2> QED BY <1>2, <2>2, <2>3 DEF Unplug, TypeInv
<1> QED BY <1>1, <1>2

(* The state before rc.lua runs. *)
LEMMA InitShape == Init => TypeInv
<1> SUFFICES ASSUME Init PROVE TypeInv
  OBVIOUS
<1>1. NotYet \in PanelRecord
  BY DEF NotYet, PanelRecord
<1>2. <<Load>> \in Seq(Frame)
  BY DEF Load, LoadFrame, Frame
<1>3. mode \in [Monitor -> Mode \cup {"none"}]
  BY LuaAssumption DEF Init
<1>4. panels \in [Panel -> PanelRecord]
  BY <1>1 DEF Init
<1>5. registry \in Registry /\ tables \in Tables
  BY EmptyShape DEF Init
<1>6. /\ saved = NoConfig /\ reload_pending = FALSE /\ watched = FALSE /\ next_timer_id = 1
      /\ session \in Sessions /\ frames = <<Load>>
  BY DEF Init
<1>7. frames \in Seq(Frame)
  BY <1>2, <1>6
<1>8. reload_pending \in BOOLEAN /\ watched \in BOOLEAN
  BY <1>6, Zenon
<1>9. saved \in {NoConfig} \cup [registry : Registry, tables : Tables]
  BY <1>6, Zenon
<1>10. next_timer_id \in Nat \ {0}
  BY <1>6
<1> HIDE DEF Init
<1> QED BY <1>3, <1>4, <1>5, <1>6, <1>7, <1>8, <1>9, <1>10, Zenon DEF TypeInv

(* The calls of rc.lua that go through one operation.                        *)
LEMMA RcLuaIs ==
    ASSUME RcLua
    PROVE  \/ \E k \in Key : LBind(k)
           \/ \E b \in Button : LMousebind(b)
           \/ \E e \in Event : LHook(e)
           \/ \E e \in Event : LFire(e)
           \/ \E h \in tables.hooks : LUnhook(h)
           \/ \E interval \in {0, 1} : NewTimer(interval)
           \/ \E x \in tables.timers : LCancel(x)
           \/ \E b \in Panel : Painted(b)
           \/ \E name \in Visual \cup Behavior, wanted \in SUBSET {"visual", "behavior"} :
                 DispatchSet(wanted, name)
           \/ \E name \in Monitor \cup {"*"}, rule \in Mode \cup {"keep"} :
                 LMonitorSet(name, rule)
           \/ LReload
<1>1. ASSUME NEW b \in Bar, NEW m \in Monitor, LBarCreate(b, m)
      PROVE  b \in Panel /\ Painted(b)
  BY <1>1 DEF LBarCreate, Panel, Painted
<1>2. ASSUME NEW w \in Window, NEW m \in Monitor, LWidgetWindowCreate(w, m)
      PROVE  w \in Panel /\ Painted(w)
  <2>1. PICK popup \in BOOLEAN : Create(w, m, ~ popup)
    BY <1>2 DEF LWidgetWindowCreate
  <2> QED BY <2>1 DEF Panel, Painted
<1>3. ASSUME NEW b \in Bar PROVE /\ b \in Panel
                                 /\ LBarOnClick(b) \/ LBarDestroy(b) => Painted(b)
  BY DEF LBarOnClick, LBarDestroy, Panel, Painted
<1>4. ASSUME NEW w \in Window PROVE /\ w \in Panel
                                    /\ LWidgetOnClick(w) \/ LWidgetWindowDestroy(w)
                                       => Painted(w)
                                    /\ \A visible \in BOOLEAN : LShow(w, visible) => Painted(w)
  BY DEF LWidgetOnClick, LWidgetWindowDestroy, Panel, Painted
<1>5. LRule => \E e \in Event : LHook(e)
  BY DEF LRule
<1>6. LSetInterval \/ LSetTimeout => \E interval \in {0, 1} : NewTimer(interval)
  BY DEF LSetInterval, LSetTimeout
<1>7. ASSUME NEW name PROVE LVisualSet(name) \/ LBehaviorSet(name) \/ LSet(name)
                            => \E wanted \in SUBSET {"visual", "behavior"} : DispatchSet(wanted, name)
  BY DEF LVisualSet, LBehaviorSet, LSet
<1> QED BY <1>1, <1>2, <1>3, <1>4, <1>5, <1>6, <1>7 DEF RcLua

(* Every step keeps the shape. *)
LEMMA ShapeStep == TypeInv /\ [Next]_vars => TypeInv'
<1> SUFFICES ASSUME TypeInv, [Next]_vars PROVE TypeInv'
  OBVIOUS
<1>1. CASE RcLua
  <2>1. ASSUME NEW b \in Panel, Painted(b) PROVE TypeInv'
    BY <2>1, PanelShape
  <2>2. ASSUME NEW interval \in {0, 1}, NewTimer(interval) PROVE TypeInv'
    BY <2>2, TimerShape
  <2>3. ASSUME NEW h \in tables.hooks, LUnhook(h) PROVE TypeInv'
    BY <2>3, UnhookShape
  <2>4. ASSUME NEW x \in tables.timers, LCancel(x) PROVE TypeInv'
    BY <2>4, UnhookShape
  <2>5. ASSUME NEW name \in Visual \cup Behavior, NEW wanted \in SUBSET {"visual", "behavior"},
               DispatchSet(wanted, name)
        PROVE  TypeInv'
    BY <2>5, SettingShape
  <2>6. ASSUME NEW name \in Monitor \cup {"*"}, NEW rule \in Mode \cup {"keep"},
               LMonitorSet(name, rule)
        PROVE  TypeInv'
    BY <2>6, SettingShape
  <2>7. CASE LReload
    BY <2>7, SettingShape
  <2>8. ASSUME NEW e \in Event, LHook(e) \/ LFire(e) PROVE TypeInv'
    BY <2>8, HookShape, FiresShape
  <2>9. ASSUME NEW k \in Key, LBind(k) PROVE TypeInv'
    BY <2>9, BindShape
  <2>10. ASSUME NEW b \in Button, LMousebind(b) PROVE TypeInv'
    BY <2>10, BindShape
  <2> HIDE DEF TypeInv
  <2> QED BY <1>1, <2>1, <2>2, <2>3, <2>4, <2>5, <2>6, <2>7, <2>8, <2>9, <2>10, RcLuaIs
<1>2. CASE EventLoop
  BY <1>2, EventShape, FiresShape, PlugShape, ReloadShape DEF EventLoop
<1>3. CASE FireNext \/ FireEnd \/ CallEnd
  BY <1>3, CallsShape
<1>4. CASE InvokeEnd \/ TrampolineEnd
  BY <1>4, ReloadShape, TrampolineShape
<1>5. CASE LoadOk \/ LoadFails
  BY <1>5, LoadedShape
<1>6. CASE UNCHANGED vars
  BY <1>6 DEF vars, world, TypeInv
<1> QED BY <1>1, <1>2, <1>3, <1>4, <1>5, <1>6 DEF Next

(* The state has its shape at all times. *)
LEMMA AlwaysTyped == Spec => []TypeInv
BY InitShape, ShapeStep, PTL DEF Spec

(* What no call of rc.lua touches, and what it does to the stack.            *)
LEMMA RcLuaKeeps ==
    ASSUME RcLua
    PROVE  /\ UNCHANGED <<saved, watched, session>> /\ InLua
           /\ frames' = Counted \/ \E e : frames' = <<Fire(e)>> \o Counted
           /\ reload_pending' = reload_pending \/ "reload" \in session
<1>1. ASSUME NEW b \in Panel, Painted(b)
      PROVE  UNCHANGED <<saved, watched, session, reload_pending>> /\ InLua /\ frames' = Counted
  BY <1>1 DEF Painted, Create, OnClick, Destroy, LShow, May, world
<1>2. ASSUME NEW interval, NewTimer(interval)
      PROVE  UNCHANGED <<saved, watched, session, reload_pending>> /\ InLua /\ frames' = Counted
  BY <1>2 DEF NewTimer, May, world
<1>3. ASSUME NEW h, LUnhook(h) \/ LCancel(h) \/ LBind(h) \/ LMousebind(h) \/ LHook(h)
      PROVE  UNCHANGED <<saved, watched, session, reload_pending>> /\ InLua /\ frames' = Counted
  BY <1>3 DEF LUnhook, LCancel, LBind, LMousebind, LHook, May, world
<1>4. ASSUME NEW e, LFire(e)
      PROVE  /\ UNCHANGED <<saved, watched, session, reload_pending>> /\ InLua
             /\ frames' = <<Fire(e)>> \o Counted
  BY <1>4 DEF LFire, May, world
<1>5. ASSUME NEW name, NEW x, DispatchSet(x, name) \/ LMonitorSet(name, x)
      PROVE  UNCHANGED <<saved, watched, session, reload_pending>> /\ InLua /\ frames' = Counted
  BY <1>5 DEF DispatchSet, LMonitorSet, May, world
<1>6. CASE LReload
  BY <1>6 DEF LReload, May, world
<1> QED BY <1>1, <1>2, <1>3, <1>4, <1>5, <1>6, RcLuaIs

-----------------------------------------------------------------------------
(* A reload: only its begin and its end touch what was put aside.            *)
LEMMA SavedBy ==
    ASSUME Next
    PROVE  \/ UNCHANGED saved
           \/ \E below : BeginReload(below)
           \/ LoadOk \/ LoadFails
<1>1. CASE RcLua
  BY <1>1, RcLuaKeeps
<1>2. CASE EventLoop
  BY <1>2 DEF EventLoop, Press, PressButton, Click, TimerFires, Happens, Plug, Unplug, Sighup
<1>3. CASE FireNext \/ FireEnd \/ CallEnd \/ InvokeEnd \/ TrampolineEnd
  BY <1>3 DEF FireNext, FireEnd, CallEnd, InvokeEnd, TrampolineEnd
<1> QED BY <1>1, <1>2, <1>3 DEF Next

Atomic ==
    \/ saved = NoConfig /\ saved' = NoConfig
    \/ Config' = Config
    \/ Config' = [registry |-> registry, tables |-> tables]

(* A step that replaces the configuration replaces all of it. *)
LEMMA AtomicStep ==
    ASSUME TypeInv, Next PROVE Atomic
<1>1. ASSUME UNCHANGED saved PROVE Atomic
  BY <1>1 DEF Atomic, Config
<1>2. ASSUME NEW below, BeginReload(below) PROVE Atomic
  <2>1. saved' = [registry |-> registry, tables |-> tables]
    BY <1>2 DEF BeginReload
  <2>2. registry # <<>>
    <3>1. DOMAIN registry = {"slots", "free"}
      BY DEF TypeInv, Registry
    <3>2. DOMAIN <<>> = {}
      OBVIOUS
    <3> QED BY <3>1, <3>2
  <2>3. saved' # NoConfig
    BY <2>1, <2>2 DEF NoConfig
  <2> QED BY <2>1, <2>3 DEF Atomic, Config
<1>3. CASE LoadOk
  BY <1>3 DEF LoadOk, Atomic, Config
<1>4. CASE LoadFails
  <2>1. saved \in [registry : Registry, tables : Tables]
    BY <1>4 DEF LoadFails, RollBack, TypeInv
  <2>2. Config = saved /\ Config' = [registry |-> saved.registry, tables |-> saved.tables]
    BY <1>4 DEF LoadFails, RollBack, Config
  <2> QED BY <2>1, <2>2 DEF Atomic
<1> QED BY <1>1, <1>2, <1>3, <1>4, SavedBy

(* Whoever looks at the configuration sees LuaConfig::reload in one step or  *)
(* not at all, however rc.lua fails: ReloadIsAtomic, for all constants.      *)
THEOREM ReloadAllOrNothing == Spec => ReloadIsAtomic
<1>1. TypeInv /\ [Next]_vars => [Atomic]_vars
  BY AtomicStep
<1> QED BY <1>1, AlwaysTyped, PTL DEF Spec, ReloadIsAtomic, Atomic

-----------------------------------------------------------------------------
(* Tables with one part replaced have the others as they were.               *)
SameOwners(t, u) ==
    u.keybinds = t.keybinds /\ u.mousebinds = t.mousebinds /\ u.hooks = t.hooks
    /\ u.next_hook_id = t.next_hook_id

(* Writing one table leaves the others. *)
LEMMA TablesParts ==
    ASSUME NEW t \in Tables, NEW v, NEW i
    PROVE  /\ LET u == [t EXCEPT !.keybinds = v]
              IN  /\ u.keybinds = v /\ u.mousebinds = t.mousebinds /\ u.hooks = t.hooks
                  /\ u.next_hook_id = t.next_hook_id /\ u.timers = t.timers
                  /\ u.rules = t.rules
           /\ LET u == [t EXCEPT !.mousebinds = v]
              IN  /\ u.keybinds = t.keybinds /\ u.mousebinds = v /\ u.hooks = t.hooks
                  /\ u.next_hook_id = t.next_hook_id /\ u.timers = t.timers
                  /\ u.rules = t.rules
           /\ LET u == [t EXCEPT !.hooks = v]
              IN  /\ u.keybinds = t.keybinds /\ u.mousebinds = t.mousebinds /\ u.hooks = v
                  /\ u.next_hook_id = t.next_hook_id /\ u.timers = t.timers
                  /\ u.rules = t.rules
           /\ LET u == [t EXCEPT !.hooks = v, !.next_hook_id = i]
              IN  /\ u.keybinds = t.keybinds /\ u.mousebinds = t.mousebinds /\ u.hooks = v
                  /\ u.next_hook_id = i /\ u.timers = t.timers /\ u.rules = t.rules
           /\ LET u == [t EXCEPT !.timers = v]
              IN  SameOwners(t, u) /\ u.timers = v /\ u.rules = t.rules
           /\ LET u == [t EXCEPT !.settings = v]
              IN  SameOwners(t, u) /\ u.timers = t.timers /\ u.rules = t.rules
           /\ LET u == [t EXCEPT !.rules = v]
              IN  SameOwners(t, u) /\ u.timers = t.timers /\ u.rules = v
BY DEF Tables, SameOwners

(* What rc.lua does to the tables, call by call: nothing, or one part.       *)
LEMMA RcLuaTables ==
    ASSUME TypeInv, RcLua
    PROVE  \/ UNCHANGED <<tables, mode>>
           \/ tables'.rules = tables.rules /\ UNCHANGED mode
           \/ \E name \in Monitor \cup {"*"}, rule \in Mode \cup {"keep"} :
                 LMonitorSet(name, rule)
<1>0. tables \in Tables
  BY DEF TypeInv
<1>1. ASSUME NEW b \in Panel, Painted(b) PROVE UNCHANGED <<tables, mode>>
  BY <1>1 DEF Painted, Create, OnClick, Destroy, LShow, world
<1>2. ASSUME NEW interval, NewTimer(interval)
      PROVE  tables'.rules = tables.rules /\ UNCHANGED mode
  BY <1>0, <1>2, TablesParts DEF NewTimer, AddTimer, world
<1>3. ASSUME NEW h, LUnhook(h) \/ LCancel(h) \/ LBind(h) \/ LMousebind(h) \/ LHook(h)
      PROVE  tables'.rules = tables.rules /\ UNCHANGED mode
  <2>1. UNCHANGED mode
    BY <1>3 DEF LUnhook, LCancel, LBind, LMousebind, LHook, world
  <2>2. \/ \E v : tables' = [tables EXCEPT !.hooks = v]
        \/ \E v : tables' = [tables EXCEPT !.timers = v]
        \/ \E v : tables' = [tables EXCEPT !.keybinds = v]
        \/ \E v : tables' = [tables EXCEPT !.mousebinds = v]
        \/ \E v, i : tables' = [tables EXCEPT !.hooks = v, !.next_hook_id = i]
    <3>1. CASE LUnhook(h)
      BY <3>1 DEF LUnhook, RemoveHook
    <3>2. CASE LCancel(h)
      BY <3>2 DEF LCancel
    <3>3. CASE LBind(h) \/ LMousebind(h)
      BY <3>3 DEF LBind, LMousebind
    <3>4. CASE LHook(h)
      BY <3>4 DEF LHook, AddHook
    <3> QED BY <1>3, <3>1, <3>2, <3>3, <3>4
  <2>3. tables'.rules = tables.rules
    BY <1>0, <2>2 DEF Tables
  <2> QED BY <2>1, <2>3
<1>4. ASSUME NEW e, LFire(e) PROVE UNCHANGED <<tables, mode>>
  BY <1>4 DEF LFire, world
<1>5. ASSUME NEW name, NEW x, DispatchSet(x, name)
      PROVE  tables'.rules = tables.rules /\ UNCHANGED mode
  BY <1>0, <1>5, TablesParts DEF DispatchSet, Setter, world
<1>6. CASE LReload
  BY <1>6 DEF LReload, world
<1> QED BY <1>1, <1>2, <1>3, <1>4, <1>5, <1>6, RcLuaIs

(* An output with a rule of its own is in the mode it says.                  *)
InForce == \A m \in Monitor : tables.rules[m] \in Mode /\ mode[m] # "none"
                                 => mode[m] = tables.rules[m]

(* Rules that are applied again are in force. *)
LEMMA ReappliedInForce ==
    ASSUME NEW t \in Tables, NEW m \in Monitor, t.rules[m] \in Mode, Reapplied(t)[m] # "none"
    PROVE  Reapplied(t)[m] = t.rules[m]
<1>1. t.rules[m] \notin {"none", "keep"}
  BY LuaAssumption
<1>2. RuleFor(t, m) = t.rules[m]
  BY <1>1 DEF RuleFor
<1>3. Reapplied(t)[m] = Applied(m, t.rules[m])
  BY <1>2 DEF Reapplied
<1> QED BY <1>1, <1>3 DEF Applied

(* Every step keeps the rules in force. *)
LEMMA InForceStep ==
    ASSUME TypeInv, InForce, [Next]_vars PROVE InForce'
<1>0. tables \in Tables /\ mode \in [Monitor -> Mode \cup {"none"}]
  BY DEF TypeInv
<1>1. ASSUME tables'.rules = tables.rules, UNCHANGED mode PROVE InForce'
  BY <1>1 DEF InForce
<1>2. ASSUME NEW name \in Monitor \cup {"*"}, NEW rule \in Mode \cup {"keep"},
             LMonitorSet(name, rule)
      PROVE  InForce'
  <2>1. tables'.rules = [tables.rules EXCEPT ![name] = rule]
    BY <1>0, <1>2, TablesParts DEF LMonitorSet
  <2>2. mode' = [m \in Monitor |-> IF m = name THEN Applied(m, rule) ELSE mode[m]]
    BY <1>2 DEF LMonitorSet
  <2>3. tables.rules \in Rules
    BY <1>0 DEF Tables
  <2> SUFFICES ASSUME NEW m \in Monitor, tables'.rules[m] \in Mode, mode'[m] # "none"
               PROVE  mode'[m] = tables'.rules[m]
    BY DEF InForce
  <2>4. CASE m = name
    <3>1. tables'.rules[m] = rule /\ mode'[m] = Applied(m, rule)
      BY <2>1, <2>2, <2>3, <2>4 DEF Rules
    <3>2. rule \notin {"none", "keep"}
      BY <3>1, LuaAssumption
    <3> QED BY <3>1, <3>2 DEF Applied
  <2>5. CASE m # name
    <3>1. tables'.rules[m] = tables.rules[m] /\ mode'[m] = mode[m]
      BY <2>1, <2>2, <2>3, <2>5 DEF Rules
    <3> QED BY <3>1 DEF InForce
  <2> QED BY <2>4, <2>5
<1>3. ASSUME NEW below, BeginReload(below) PROVE InForce'
  <2>1. \A m \in Monitor : tables'.rules[m] = "none"
    BY <1>3 DEF BeginReload, EmptyTables
  <2> QED BY <2>1, LuaAssumption DEF InForce
<1>4. CASE LoadOk
  <2>1. tables' = tables /\ (mode' = mode \/ mode' = Reapplied(tables))
    BY <1>4 DEF LoadOk
  <2> QED BY <1>0, <1>1, <2>1, ReappliedInForce DEF InForce
<1>5. CASE LoadFails
  <2>1. tables' = saved.tables /\ mode' = Reapplied(saved.tables) /\ saved.tables \in Tables
    BY <1>5 DEF LoadFails, RollBack, TypeInv
  <2> QED BY <2>1, ReappliedInForce DEF InForce
<1>6. ASSUME NEW m \in Monitor, Plug(m) PROVE InForce'
  <2>1. /\ tables' = tables
        /\ mode' = [mode EXCEPT ![m] = IF RuleFor(tables, m) \in {"none", "keep"}
                                       THEN "preferred" ELSE RuleFor(tables, m)]
    BY <1>6 DEF Plug
  <2>2. tables.rules[m] \in Mode => RuleFor(tables, m) = tables.rules[m]
                                    /\ RuleFor(tables, m) \notin {"none", "keep"}
    BY LuaAssumption DEF RuleFor
  <2> QED BY <1>0, <2>1, <2>2 DEF InForce
<1>7. ASSUME NEW m \in Monitor, Unplug(m) PROVE InForce'
  <2>1. tables' = tables /\ mode' = [mode EXCEPT ![m] = "none"]
    BY <1>7 DEF Unplug
  <2> QED BY <1>0, <2>1 DEF InForce
<1>8. CASE RcLua
  BY <1>1, <1>2, <1>8, RcLuaTables
<1>9. CASE EventLoop
  <2>1. ASSUME NEW x \in tables.timers, TimerFires(x)
        PROVE  tables'.rules = tables.rules /\ UNCHANGED mode
    BY <1>0, <2>1, TablesParts DEF TimerFires, world
  <2>2. ASSUME \/ \E k \in Key : Press(k)
               \/ \E b \in Button : PressButton(b)
               \/ \E b \in Panel : Click(b)
               \/ \E e \in Event : Happens(e)
        PROVE  UNCHANGED <<tables, mode>>
    BY <2>2 DEF Press, PressButton, Click, Happens, world
  <2>3. Sighup => BeginReload(<<>>)
    BY DEF Sighup
  <2> QED BY <1>1, <1>3, <1>6, <1>7, <1>9, <2>1, <2>2, <2>3 DEF EventLoop
<1>10. CASE TrampolineEnd
  <2>1. tables'.rules = tables.rules /\ UNCHANGED mode
    BY <1>0, <1>10, TablesParts DEF TrampolineEnd, world
  <2> QED BY <1>1, <2>1
<1>11. CASE FireNext \/ FireEnd \/ CallEnd \/ UNCHANGED vars
  BY <1>1, <1>11 DEF FireNext, FireEnd, CallEnd, world, vars
<1>12. CASE InvokeEnd
  <2>1. UNCHANGED <<tables, mode>> \/ \E below : BeginReload(below)
    BY <1>12 DEF InvokeEnd, world
  <2> QED BY <1>1, <1>3, <2>1
<1> QED BY <1>4, <1>5, <1>8, <1>9, <1>10, <1>11, <1>12 DEF Next

(* uwu.monitor.set, Output::applyRule, a reload and its rollback leave every *)
(* output that has a rule of its own in that mode: RulesInForce, for all     *)
(* constants.                                                                *)
THEOREM RulesAlwaysInForce == Spec => []RulesInForce
<1>1. Init => InForce
  BY LuaAssumption DEF Init, EmptyTables, InForce
<1>2. TypeInv /\ InForce /\ [Next]_vars => InForce'
  BY InForceStep
<1>3. InForce => RulesInForce
  BY DEF InForce, RulesInForce
<1> QED BY <1>1, <1>2, <1>3, AlwaysTyped, PTL DEF Spec

-----------------------------------------------------------------------------
(* The stack. What the event loop began is outermost; rc.lua itself runs     *)
(* there or, in a reload, just inside the call that asked for it.            *)
Bottom(f) ==
    \A n \in DOMAIN f :
       /\ f[n].at \in {"invoke", "tramp"} => n = Len(f)
       /\ f[n].at = "load" => n = Len(f) \/ (n + 1 = Len(f) /\ f[Len(f)].at = "tramp")

Calls(f) == {n \in DOMAIN f : f[n].at = "call"}
Has(f, kind) == \E n \in DOMAIN f : f[n].at = kind
Alike(f, g) == Len(g) = Len(f) /\ \A n \in 1..Len(f) : g[n].at = f[n].at

(* The depth of calls is counted on the stack. *)
LEMMA DepthIs == Depth = Cardinality(Calls(frames))
BY DEF Depth, Calls

(* A stack has finitely many calls. *)
LEMMA CallsFinite ==
    ASSUME NEW f \in Seq(Frame)
    PROVE  IsFiniteSet(Calls(f)) /\ Cardinality(Calls(f)) \in Nat
<1>1. DOMAIN f = 1..Len(f) /\ Len(f) \in Nat
  BY LenProperties
<1>2. IsFiniteSet(1..Len(f))
  BY <1>1, FS_Interval
<1>3. Calls(f) \subseteq 1..Len(f)
  BY <1>1 DEF Calls
<1> QED BY <1>2, <1>3, FS_Subset, FS_CardinalityType

(* Stacks that are alike have the same form. *)
LEMMA AlikeForm ==
    ASSUME NEW f \in Seq(Frame), NEW g \in Seq(Frame), Alike(f, g)
    PROVE  /\ Bottom(f) => Bottom(g)
           /\ Calls(g) = Calls(f) /\ \A kind : Has(f, kind) => Has(g, kind)
<1>1. DOMAIN f = 1..Len(f) /\ DOMAIN g = 1..Len(f) /\ Len(f) \in Nat /\ Len(g) = Len(f)
  BY LenProperties DEF Alike
<1>2. \A n \in 1..Len(f) : g[n].at = f[n].at
  BY DEF Alike
<1>3. Bottom(f) => Bottom(g)
  BY <1>1, <1>2 DEF Bottom
<1>4. Calls(g) = Calls(f)
  BY <1>1, <1>2 DEF Calls
<1>5. \A kind : Has(f, kind) => Has(g, kind)
  BY <1>1, <1>2 DEF Has
<1> QED BY <1>3, <1>4, <1>5

(* Places that are places of another stack moved by one are no more of them. *)
LEMMA MovedUp ==
    ASSUME NEW S \in SUBSET Int, IsFiniteSet(S), NEW T \in SUBSET Int,
           \A m \in T : m - 1 \in S
    PROVE  IsFiniteSet(T) /\ Cardinality(T) <= Cardinality(S) /\ Cardinality(T) \in Nat
<1> DEFINE up == {m \in Int : m - 1 \in S}
           move == [n \in S |-> n + 1]
<1>1. move \in Surjection(S, up)
  <2>1. \A n \in S : n \in Int /\ n + 1 \in Int /\ (n + 1) - 1 = n
    OBVIOUS
  <2>2. move \in [S -> up]
    BY <2>1
  <2>3. \A m \in up : m - 1 \in S /\ move[m - 1] = m
    OBVIOUS
  <2> HIDE DEF up, move
  <2> QED BY <2>2, <2>3 DEF Surjection
<1>2. T \subseteq up
  OBVIOUS
<1> HIDE DEF up, move
<1>3. IsFiniteSet(up) /\ Cardinality(up) <= Cardinality(S)
  BY <1>1, FS_Surjection
<1>4. IsFiniteSet(T) /\ Cardinality(T) <= Cardinality(up)
  BY <1>2, <1>3, FS_Subset
<1>5. Cardinality(up) \in Nat /\ Cardinality(T) \in Nat /\ Cardinality(S) \in Nat
  BY <1>3, <1>4, FS_CardinalityType
<1> QED BY <1>3, <1>4, <1>5

(* A finite set of positions moved down by one. *)
LEMMA MovedDown ==
    ASSUME NEW S \in SUBSET Int, IsFiniteSet(S), NEW T \in SUBSET Int,
           \A m \in T : m + 1 \in S
    PROVE  IsFiniteSet(T) /\ Cardinality(T) <= Cardinality(S) /\ Cardinality(T) \in Nat
<1> DEFINE down == {m \in Int : m + 1 \in S}
           move == [n \in S |-> n - 1]
<1>1. move \in Surjection(S, down)
  <2>1. \A n \in S : n \in Int /\ n - 1 \in Int /\ (n - 1) + 1 = n
    OBVIOUS
  <2>2. move \in [S -> down]
    BY <2>1
  <2>3. \A m \in down : m + 1 \in S /\ move[m + 1] = m
    OBVIOUS
  <2> HIDE DEF down, move
  <2> QED BY <2>2, <2>3 DEF Surjection
<1>2. T \subseteq down
  OBVIOUS
<1> HIDE DEF down, move
<1>3. IsFiniteSet(down) /\ Cardinality(down) <= Cardinality(S)
  BY <1>1, FS_Surjection
<1>4. IsFiniteSet(T) /\ Cardinality(T) <= Cardinality(down)
  BY <1>2, <1>3, FS_Subset
<1>5. Cardinality(down) \in Nat /\ Cardinality(T) \in Nat /\ Cardinality(S) \in Nat
  BY <1>3, <1>4, FS_CardinalityType
<1> QED BY <1>3, <1>4, <1>5

(* A call or a dispatch on top keeps the form. *)
LEMMA PushForm ==
    ASSUME NEW f \in Seq(Frame), NEW x \in Frame, NEW g, g = <<x>> \o f
    PROVE  /\ x.at \in {"call", "fire"} /\ Bottom(f) => Bottom(g)
           /\ x.at = "call" => Cardinality(Calls(g)) <= Cardinality(Calls(f)) + 1
           /\ x.at # "call" => Cardinality(Calls(g)) <= Cardinality(Calls(f))
           /\ \A kind : Has(f, kind) => Has(g, kind)
           /\ Has(g, x.at)
<1>1. /\ g \in Seq(Frame) /\ Len(g) = Len(f) + 1 /\ g[1] = x
      /\ \A n \in 2..Len(g) : n - 1 \in 1..Len(f) /\ g[n] = f[n - 1]
  BY Pushed
<1>2. DOMAIN f = 1..Len(f) /\ DOMAIN g = 1..Len(g) /\ Len(f) \in Nat
  BY <1>1, LenProperties
<1>3. \A n \in 1..Len(f) : n + 1 \in 1..Len(g) /\ g[n + 1] = f[n]
  <2>1. ASSUME NEW n \in 1..Len(f) PROVE n + 1 \in 2..Len(g) /\ (n + 1) - 1 = n
    BY <1>1, <1>2
  <2> QED BY <1>1, <2>1
<1>4. x.at \in {"call", "fire"} /\ Bottom(f) => Bottom(g)
  <2> SUFFICES ASSUME x.at \in {"call", "fire"}, Bottom(f), NEW n \in DOMAIN g
               PROVE  /\ g[n].at \in {"invoke", "tramp"} => n = Len(g)
                      /\ g[n].at = "load"
                         => n = Len(g) \/ (n + 1 = Len(g) /\ g[Len(g)].at = "tramp")
    BY DEF Bottom
  <2>1. CASE n = 1
    BY <1>1, <2>1
  <2>2. CASE n # 1
    <3>1. n \in 2..Len(g) /\ n - 1 \in 1..Len(f) /\ g[n] = f[n - 1]
      BY <1>1, <1>2, <2>2
    <3>2. /\ f[n - 1].at \in {"invoke", "tramp"} => n - 1 = Len(f)
          /\ f[n - 1].at = "load"
             => n - 1 = Len(f) \/ ((n - 1) + 1 = Len(f) /\ f[Len(f)].at = "tramp")
      BY <1>2, <3>1 DEF Bottom
    <3>3. Len(f) \in 1..Len(f) /\ g[Len(g)] = f[Len(f)]
      BY <1>1, <1>2, <1>3, <3>1
    <3> QED BY <1>1, <1>2, <3>1, <3>2, <3>3
  <2> QED BY <2>1, <2>2
<1> DEFINE c == Calls(f)
           d == Calls(g)
<1>5. /\ c \in SUBSET Int /\ IsFiniteSet(c) /\ Cardinality(c) \in Nat
      /\ d \in SUBSET Int /\ IsFiniteSet(d) /\ Cardinality(d) \in Nat
  <2>1. c \in SUBSET Int /\ d \in SUBSET Int
    BY <1>1, <1>2 DEF Calls
  <2> QED BY <1>1, <2>1, CallsFinite
<1>6. \A m \in d \ {1} : m - 1 \in c
  BY <1>1, <1>2 DEF Calls
<1>7. x.at # "call" => 1 \notin d
  BY <1>1, <1>2 DEF Calls
<1> HIDE DEF c, d
<1>8. Cardinality(d \ {1}) <= Cardinality(c) /\ Cardinality(d \ {1}) \in Nat
  BY <1>5, <1>6, MovedUp
<1>9. Cardinality(d \ {1}) = IF 1 \in d THEN Cardinality(d) - 1 ELSE Cardinality(d)
  BY <1>5, FS_RemoveElement
<1>10. /\ Cardinality(d) <= Cardinality(c) + 1
       /\ x.at # "call" => Cardinality(d) <= Cardinality(c)
  BY <1>5, <1>7, <1>8, <1>9
<1>11. \A kind : Has(f, kind) => Has(g, kind)
  BY <1>2, <1>3 DEF Has
<1>12. Has(g, x.at)
  BY <1>1, <1>2 DEF Has
<1> QED BY <1>4, <1>10, <1>11, <1>12 DEF c, d

(* A return keeps it. *)
LEMMA PopForm ==
    ASSUME NEW f \in Seq(Frame), f # <<>>, NEW g, g = Tail(f)
    PROVE  /\ Bottom(f) => Bottom(g)
           /\ Cardinality(Calls(g)) <= Cardinality(Calls(f))
           /\ \A kind : Has(f, kind) /\ f[1].at # kind => Has(g, kind)
<1>1. /\ g \in Seq(Frame) /\ Len(g) = Len(f) - 1 /\ Len(f) \in Nat \ {0}
      /\ \A n \in 1..Len(g) : n + 1 \in 2..Len(f) /\ g[n] = f[n + 1]
  BY Popped
<1>2. DOMAIN f = 1..Len(f) /\ DOMAIN g = 1..Len(g) /\ Len(g) \in Nat
  BY <1>1, LenProperties
<1>3. Bottom(f) => Bottom(g)
  <2> SUFFICES ASSUME Bottom(f), NEW n \in DOMAIN g
               PROVE  /\ g[n].at \in {"invoke", "tramp"} => n = Len(g)
                      /\ g[n].at = "load"
                         => n = Len(g) \/ (n + 1 = Len(g) /\ g[Len(g)].at = "tramp")
    BY DEF Bottom
  <2>1. n \in 1..Len(g) /\ n + 1 \in 1..Len(f) /\ g[n] = f[n + 1]
    BY <1>1, <1>2
  <2>2. /\ f[n + 1].at \in {"invoke", "tramp"} => n + 1 = Len(f)
        /\ f[n + 1].at = "load"
           => n + 1 = Len(f) \/ ((n + 1) + 1 = Len(f) /\ f[Len(f)].at = "tramp")
    BY <1>2, <2>1 DEF Bottom
  <2>3. Len(g) \in 1..Len(g) /\ Len(g) + 1 = Len(f)
    BY <1>1, <1>2, <2>1
  <2>4. g[Len(g)] = f[Len(f)]
    BY <1>1, <2>3
  <2> QED BY <1>1, <1>2, <2>1, <2>2, <2>4
<1> DEFINE c == Calls(f)
           d == Calls(g)
<1>4. c \in SUBSET Int /\ IsFiniteSet(c) /\ d \in SUBSET Int
  <2>1. c \in SUBSET Int /\ d \in SUBSET Int
    BY <1>1, <1>2 DEF Calls
  <2> QED BY <2>1, CallsFinite
<1>5. \A m \in d : m + 1 \in c
  BY <1>1, <1>2 DEF Calls
<1> HIDE DEF c, d
<1>6. Cardinality(d) <= Cardinality(c)
  BY <1>4, <1>5, MovedDown
<1>9. \A kind : Has(f, kind) /\ f[1].at # kind => Has(g, kind)
  <2> SUFFICES ASSUME NEW kind, NEW n \in DOMAIN f, f[n].at = kind, f[1].at # kind
               PROVE  Has(g, kind)
    BY DEF Has
  <2>1. n - 1 \in 1..Len(g) /\ (n - 1) + 1 = n
    BY <1>1, <1>2
  <2> QED BY <1>1, <1>2, <2>1 DEF Has
<1> QED BY <1>3, <1>6, <1>9 DEF c, d

(* While rc.lua is loaded anew it is on the stack, and while the watchdog is *)
(* in L so is a call it watches.                                             *)
StackInv ==
    /\ Bottom(frames) /\ Cardinality(Calls(frames)) <= MaxDepth
    /\ saved # NoConfig => Has(frames, "load")
    /\ watched => Has(frames, "call")

(* A stack of one frame. *)
LEMMA SingleForm ==
    ASSUME NEW x \in Frame, NEW f, f = <<x>>
    PROVE  /\ f \in Seq(Frame) /\ Len(f) = 1 /\ f[1] = x /\ Bottom(f)
           /\ x.at # "call" => Calls(f) = {} /\ Cardinality(Calls(f)) = 0
           /\ \A kind : Has(f, kind) => x.at = kind
<1>1. f \in Seq(Frame) /\ Len(f) = 1 /\ f[1] = x /\ DOMAIN f = {1}
  OBVIOUS
<1>2. Bottom(f)
  BY <1>1 DEF Bottom
<1>3. x.at # "call" => Calls(f) = {}
  BY <1>1 DEF Calls
<1>4. \A kind : Has(f, kind) => x.at = kind
  BY <1>1 DEF Has
<1> QED BY <1>1, <1>2, <1>3, <1>4, FS_EmptySet

(* What the event loop began is alone on the stack once it is the innermost. *)
LEMMA OnlyBottom ==
    ASSUME NEW f \in Seq(Frame), f # <<>>, Bottom(f), f[1].at \in {"invoke", "tramp"}
    PROVE  /\ Len(f) = 1 /\ Tail(f) = <<>> /\ ~ Has(f, "load") /\ ~ Has(f, "call")
           /\ \A n \in DOMAIN f : n = 1
<1>1. DOMAIN f = 1..Len(f) /\ Len(f) \in Nat \ {0} /\ 1 \in DOMAIN f
  BY LenProperties, EmptySeq
<1>2. Len(f) = 1
  BY <1>1 DEF Bottom
<1>3. Tail(f) = <<>>
  <2>1. Tail(f) \in Seq(Frame) /\ Len(Tail(f)) = 0
    BY <1>2, HeadTailProperties
  <2> QED BY <2>1, EmptySeq
<1>4. DOMAIN f = {1}
  BY <1>1, <1>2
<1> QED BY <1>2, <1>3, <1>4 DEF Has

(* Counting an operation of a callback keeps the form... *)
LEMMA CountedAlike == ASSUME TypeInv, InLua PROVE Alike(frames, Counted)
<1>1. Len(frames) \in Nat
  BY LenProperties DEF TypeInv
<1>2. /\ Len(Counted) = Len(frames) /\ Counted[1].at = frames[1].at
      /\ \A n \in 2..Len(Counted) : Counted[n] = frames[n]
  BY CountedShape
<1>3. ASSUME NEW n \in 1..Len(frames) PROVE Counted[n].at = frames[n].at
  <2>1. n = 1 \/ n \in 2..Len(Counted)
    BY <1>1, <1>2
  <2> QED BY <1>2, <2>1
<1> QED BY <1>2, <1>3 DEF Alike

(* ... as does any change of the innermost frame that keeps its kind. *)
LEMMA EditAlike ==
    ASSUME NEW f \in Seq(Frame), f # <<>>, NEW x \in Frame, x.at = f[1].at,
           NEW g, g = <<x>> \o Tail(f)
    PROVE  g \in Seq(Frame) /\ Alike(f, g)
<1>1. /\ g \in Seq(Frame) /\ Len(g) = Len(f) /\ g[1] = x
      /\ \A n \in 2..Len(g) : g[n] = f[n]
  BY Edited
<1>2. Len(f) \in Nat
  BY LenProperties
<1>3. ASSUME NEW n \in 1..Len(f) PROVE g[n].at = f[n].at
  <2>1. n = 1 \/ n \in 2..Len(g)
    BY <1>1, <1>2
  <2> QED BY <1>1, <2>1
<1> QED BY <1>1, <1>3 DEF Alike

(* A guarded call on a stack that is like the one there was.                 *)
LEMMA GuardedStack ==
    ASSUME TypeInv, StackInv, saved' = saved, NEW n, NEW below \in Seq(Frame),
           GuardedCall(n, below), Bottom(below), Cardinality(Calls(below)) <= Depth,
           \A kind : Has(frames, kind) => Has(below, kind)
    PROVE  StackInv'
<1>1. Depth \in Nat /\ Cardinality(Calls(below)) \in Nat /\ MaxDepth \in Nat
  BY CallsFinite, DepthIs, LuaAssumption DEF TypeInv
<1>2. Depth <= MaxDepth
  BY DepthIs DEF StackInv
<1>3. CASE frames' = below /\ (watched' = watched \/ watched' = FALSE)
  BY <1>1, <1>2, <1>3 DEF StackInv
<1>4. ASSUME ~ (Depth >= MaxDepth), NEW c \in CallFrame, frames' = <<c>> \o below PROVE StackInv'
  <2>1. c \in Frame /\ c.at = "call"
    BY DEF CallFrame, Frame
  <2>2. frames' \in Seq(Frame)
    BY <1>4, <2>1, Pushed
  <2>3. /\ Bottom(frames') /\ Has(frames', "call")
        /\ Cardinality(Calls(frames')) <= Cardinality(Calls(below)) + 1
        /\ \A kind : Has(below, kind) => Has(frames', kind)
    BY <1>4, <2>1, PushForm
  <2>4. Cardinality(Calls(frames')) \in Nat
    BY <2>2, CallsFinite
  <2>5. Cardinality(Calls(frames')) <= MaxDepth
    BY <1>1, <1>4, <2>3, <2>4
  <2> QED BY <2>3, <2>5 DEF StackInv
<1> QED BY <1>3, <1>4, GuardedIs

(* What Lua code does keeps the stack in form, *)
LEMMA StackRcLua == ASSUME TypeInv, StackInv, RcLua PROVE StackInv'
<1>1. /\ UNCHANGED <<saved, watched>> /\ InLua
      /\ frames' = Counted \/ \E e : frames' = <<Fire(e)>> \o Counted
  BY RcLuaKeeps
<1>2. Counted \in Seq(Frame) /\ Alike(frames, Counted)
  BY <1>1, CountedShape, CountedAlike
<1>3. /\ Bottom(Counted) /\ Calls(Counted) = Calls(frames)
      /\ \A kind : Has(frames, kind) => Has(Counted, kind)
  BY <1>2, AlikeForm DEF TypeInv, StackInv
<1>4. CASE frames' = Counted
  BY <1>1, <1>3, <1>4 DEF StackInv
<1>5. ASSUME NEW e, frames' = <<Fire(e)>> \o Counted PROVE StackInv'
  <2>1. Fire(e) \in Frame /\ Fire(e).at = "fire"
    BY FireIs DEF FireFrame
  <2>2. frames' \in Seq(Frame)
    BY <1>2, <1>5, <2>1, Pushed
  <2>3. /\ Bottom(frames') /\ Cardinality(Calls(frames')) <= Cardinality(Calls(Counted))
        /\ \A kind : Has(Counted, kind) => Has(frames', kind)
    BY <1>2, <1>3, <1>5, <2>1, PushForm
  <2>4. /\ Cardinality(Calls(frames')) \in Nat /\ Cardinality(Calls(frames)) \in Nat
        /\ Cardinality(Calls(frames)) <= MaxDepth /\ MaxDepth \in Nat
    BY <2>2, CallsFinite, LuaAssumption DEF TypeInv, StackInv
  <2>5. Cardinality(Calls(frames')) <= MaxDepth
    BY <1>3, <2>3, <2>4
  <2> QED BY <1>1, <1>3, <2>3, <2>5 DEF StackInv
<1> QED BY <1>1, <1>4, <1>5

(* so does a return from a frame, *)
LEMMA StackPop ==
    ASSUME TypeInv, StackInv, frames # <<>>, frames' = Tail(frames),
           saved' = NoConfig \/ (saved' = saved /\ Top.at # "load"),
           watched' = FALSE \/ (watched' = watched /\ Top.at # "call")
    PROVE  StackInv'
<1>1. frames \in Seq(Frame) /\ Top = frames[1]
  BY HeadTailProperties DEF TypeInv, Top
<1>2. /\ Bottom(frames') /\ Cardinality(Calls(frames')) <= Cardinality(Calls(frames))
      /\ \A kind : Has(frames, kind) /\ frames[1].at # kind => Has(frames', kind)
  BY <1>1, PopForm DEF StackInv
<1>3. frames' \in Seq(Frame)
  BY <1>1, Popped
<1>4. /\ Cardinality(Calls(frames')) \in Nat /\ Cardinality(Calls(frames)) \in Nat
      /\ Cardinality(Calls(frames)) <= MaxDepth /\ MaxDepth \in Nat
  BY <1>1, <1>3, CallsFinite, LuaAssumption DEF StackInv
<1>5. Cardinality(Calls(frames')) <= MaxDepth
  BY <1>2, <1>4
<1>6. saved' # NoConfig => Has(frames', "load")
  BY <1>1, <1>2 DEF StackInv
<1>7. watched' => Has(frames', "call")
  BY <1>1, <1>2, Zenon DEF StackInv
<1> QED BY <1>2, <1>5, <1>6, <1>7 DEF StackInv

(* Between callbacks there is no reload, and no watchdog.                    *)
LEMMA IdleIs ==
    ASSUME StackInv, Idle
    PROVE  /\ saved = NoConfig /\ ~ watched
           /\ Calls(frames) = {} /\ \A kind : ~ Has(frames, kind)
<1>1. DOMAIN frames = {}
  BY DEF Idle
<1>2. Calls(frames) = {} /\ \A kind : ~ Has(frames, kind)
  BY <1>1 DEF Calls, Has
<1> QED BY <1>2 DEF StackInv

(* a stack that is begun anew, *)
LEMMA StackSingle ==
    ASSUME TypeInv, NEW x \in Frame, frames' = <<x>>, x.at # "call", ~ watched',
           saved' = NoConfig \/ x.at = "load"
    PROVE  StackInv'
<1>1. /\ frames' \in Seq(Frame) /\ Len(frames') = 1 /\ frames'[1] = x /\ Bottom(frames')
      /\ Cardinality(Calls(frames')) = 0
  BY SingleForm
<1>2. DOMAIN frames' = {1}
  BY <1>1, LenProperties
<1>3. x.at = "load" => Has(frames', "load")
  BY <1>1, <1>2 DEF Has
<1> QED BY <1>1, <1>3, LuaAssumption DEF StackInv

(* what the event loop does, *)
LEMMA StackEvent ==
    ASSUME TypeInv, StackInv, EventLoop PROVE StackInv'
<1>1. ASSUME NEW n, NEW x \in TimerFrame, Idle, saved' = saved, x.at # "call",
             GuardedCall(n, <<x>>)
      PROVE  StackInv'
  <2>1. x \in Frame
    BY DEF Frame
  <2> DEFINE below == <<x>>
  <2>2. /\ below \in Seq(Frame) /\ Bottom(below) /\ Cardinality(Calls(below)) = 0
        /\ GuardedCall(n, below)
    BY <1>1, <2>1, SingleForm
  <2> HIDE DEF below
  <2>3. Depth \in Nat /\ \A kind : ~ Has(frames, kind)
    BY <1>1, IdleIs, CallsFinite, DepthIs DEF TypeInv
  <2>4. Cardinality(Calls(below)) <= Depth
    BY <2>2, <2>3
  <2> QED BY <1>1, <2>2, <2>3, <2>4, GuardedStack
<1>2. ASSUME NEW n, NEW id \in Nat, NEW ref \in Nat \cup {NoRef}, NEW i \in {0, 1}, Idle,
             saved' = saved, GuardedCall(n, <<Invoke(id, ref, i)>>)
      PROVE  StackInv'
  <2>1. Invoke(id, ref, i) \in TimerFrame /\ Invoke(id, ref, i).at # "call"
    BY BeginIs DEF TimerFrame
  <2> QED BY <1>1, <1>2, <2>1
<1>3. CASE \/ \E k \in Key : Press(k)
           \/ \E b \in Button : PressButton(b)
           \/ \E b \in Panel : Click(b)
  <2>1. PICK n : Idle /\ saved' = saved /\ GuardedCall(n, <<Invoke(0, NoRef, 0)>>)
    BY <1>3 DEF Press, PressButton, Click
  <2> QED BY <1>2, <2>1
<1>4. ASSUME NEW x \in tables.timers, TimerFires(x) PROVE StackInv'
  <2>1. x.id \in Nat /\ x.ref \in Nat \cup {NoRef} /\ x.interval \in {0, 1}
    BY DEF TypeInv, Tables, TimerRecord
  <2>2. Idle /\ saved' = saved /\ GuardedCall(x.ref, <<Invoke(x.id, x.ref, x.interval)>>)
    BY <1>4 DEF TimerFires
  <2> QED BY <1>2, <2>1, <2>2
<1>5. ASSUME NEW e, Happens(e) PROVE StackInv'
  <2>1. Idle /\ frames' = <<Fire(e)>> /\ UNCHANGED <<saved, watched>>
    BY <1>5 DEF Happens
  <2>2. Fire(e) \in Frame /\ Fire(e).at = "fire"
    BY FireIs DEF FireFrame
  <2> QED BY <2>1, <2>2, IdleIs, StackSingle
<1>6. ASSUME NEW m, Plug(m) \/ Unplug(m) PROVE StackInv'
  BY <1>6 DEF Plug, Unplug, StackInv
<1>7. CASE Sighup
  <2>1. Idle /\ frames' = <<Load>> \o <<>> /\ UNCHANGED watched
    BY <1>7 DEF Sighup, BeginReload
  <2>2. frames' = <<Load>> /\ Load \in Frame /\ Load.at = "load"
    BY <2>1 DEF Load, LoadFrame, Frame
  <2> QED BY <2>1, <2>2, IdleIs, StackSingle
<1> QED BY <1>3, <1>4, <1>5, <1>6, <1>7 DEF EventLoop

(* and the next hook of a dispatch. *)
LEMMA StackFireNext == ASSUME TypeInv, StackInv, FireNext PROVE StackInv'
<1>1. frames # <<>> /\ Top = frames[1] /\ Top \in FireFrame
  BY NextIs
<1>2. PICK h \in Top.refs : /\ After(h) \in FireFrame /\ After(h) \in Frame
                            /\ GuardedCall(h.ref, <<After(h)>> \o Tail(frames))
  BY NextIs
<1> DEFINE below == <<After(h)>> \o Tail(frames)
<1>3. After(h).at = frames[1].at
  BY <1>1, <1>2 DEF FireFrame
<1>4. below \in Seq(Frame) /\ Alike(frames, below)
  BY <1>1, <1>2, <1>3, EditAlike DEF TypeInv
<1>5. GuardedCall(h.ref, below)
  BY <1>2
<1> HIDE DEF below
<1>6. /\ Bottom(below) /\ Calls(below) = Calls(frames)
      /\ \A kind : Has(frames, kind) => Has(below, kind)
  BY <1>4, AlikeForm DEF TypeInv, StackInv
<1>7. Cardinality(Calls(below)) <= Depth
  BY <1>6, DepthIs, CallsFinite DEF TypeInv
<1>8. saved' = saved
  BY DEF FireNext
<1> QED BY <1>4, <1>5, <1>6, <1>7, <1>8, GuardedStack

(* A timer's callback is the outermost frame when it ends. *)
LEMMA InvokeIs ==
    ASSUME TypeInv, StackInv, InvokeEnd
    PROVE  /\ Trampoline \in TimerFrame /\ Trampoline.at = "tramp"
           /\ Trampoline.timer = Top.timer /\ Trampoline.interval = Top.interval
           /\ Top = frames[1] /\ Top.at = "invoke" /\ Len(frames) = 1
           /\ saved = NoConfig /\ ~ watched
           /\ <<Trampoline>> \o Tail(frames) = <<Trampoline>>
<1>1. /\ frames \in Seq(Frame) /\ frames # <<>> /\ Top = frames[1] /\ Top \in Frame
      /\ Top.at = "invoke"
  BY HeadTailProperties DEF TypeInv, InvokeEnd, Idle, Top
<1>2. Top \in TimerFrame
  BY <1>1 DEF Frame, LoadFrame, CallFrame, FireFrame, TimerFrame
<1>3. /\ Trampoline \in TimerFrame /\ Trampoline.at = "tramp"
      /\ Trampoline.timer = Top.timer /\ Trampoline.interval = Top.interval
  BY <1>2 DEF Trampoline, TimerFrame
<1>4. Len(frames) = 1 /\ Tail(frames) = <<>> /\ ~ Has(frames, "load") /\ ~ Has(frames, "call")
  BY <1>1, OnlyBottom DEF StackInv
<1>5. <<Trampoline>> \o <<>> = <<Trampoline>>
  OBVIOUS
<1> QED BY <1>1, <1>3, <1>4, <1>5 DEF StackInv

(* Its end keeps the stack in form. *)
LEMMA StackInvokeEnd == ASSUME TypeInv, StackInv, InvokeEnd PROVE StackInv'
<1>1. /\ Trampoline \in Frame /\ Trampoline.at = "tramp" /\ saved = NoConfig /\ ~ watched
      /\ <<Trampoline>> \o Tail(frames) = <<Trampoline>>
  BY InvokeIs DEF Frame
<1>2. watched' = watched
  BY DEF InvokeEnd
<1>3. CASE frames' = <<Trampoline>> /\ saved' = saved
  BY <1>1, <1>2, <1>3, StackSingle
<1>4. CASE frames' = <<Load>> \o <<Trampoline>>
  <2> DEFINE below == <<Trampoline>>
  <2>1. below \in Seq(Frame) /\ Len(below) = 1 /\ below[1] = Trampoline
    BY <1>1, SingleForm
  <2>2. Load \in Frame /\ Load.at = "load" /\ frames' = <<Load>> \o below
    BY <1>4 DEF Load, LoadFrame, Frame
  <2> HIDE DEF below
  <2>3. /\ frames' \in Seq(Frame) /\ Len(frames') = 2 /\ frames'[1] = Load
        /\ frames'[2] = Trampoline
    BY <2>1, <2>2, Pushed
  <2>4. DOMAIN frames' = {1, 2}
    BY <2>3, LenProperties
  <2>5. Bottom(frames') /\ Has(frames', "load") /\ Calls(frames') = {}
    BY <1>1, <2>2, <2>3, <2>4 DEF Bottom, Has, Calls
  <2> QED BY <1>1, <1>2, <2>5, FS_EmptySet, LuaAssumption DEF StackInv
<1> QED BY <1>1, <1>3, <1>4 DEF InvokeEnd, BeginReload

(* Every step does. *)
LEMMA StackStep == TypeInv /\ StackInv /\ [Next]_vars => StackInv'
<1> SUFFICES ASSUME TypeInv, StackInv, [Next]_vars PROVE StackInv'
  OBVIOUS
<1>1. CASE FireEnd \/ CallEnd \/ TrampolineEnd
  BY <1>1, StackPop DEF FireEnd, CallEnd, TrampolineEnd, Idle
<1>2. CASE LoadOk \/ LoadFails
  BY <1>2, StackPop DEF LoadOk, LoadFails, RollBack, Idle
<1>3. CASE UNCHANGED vars
  BY <1>3 DEF vars, StackInv
<1> QED BY <1>1, <1>2, <1>3, StackRcLua, StackEvent, StackFireNext, StackInvokeEnd DEF Next

-----------------------------------------------------------------------------
(* Bars and widget windows are on outputs that are there.                    *)
PanelInv ==
    \A b \in Panel : panels[b].output # "none"
                        => Alive(b) /\ mode[panels[b].output] # "none"

(* A panel that is not alive holds no reference. *)
LEMMA PanelStep == ASSUME TypeInv, PanelInv, [Next]_vars PROVE PanelInv'
<1>0. /\ panels \in [Panel -> PanelRecord] /\ mode \in [Monitor -> Mode \cup {"none"}]
      /\ tables \in Tables
  BY DEF TypeInv
<1>1. ASSUME UNCHANGED panels, \A m \in Monitor : mode[m] # "none" => mode'[m] # "none"
      PROVE  PanelInv'
  BY <1>0, <1>1 DEF PanelInv, Alive, PanelRecord
<1>2. ASSUME NEW m, NEW rule PROVE mode[m] # "none" => Applied(m, rule) # "none"
  BY DEF Applied
<1>3. ASSUME NEW b \in Panel, Painted(b) PROVE PanelInv'
  <2>1. mode' = mode
    BY <1>3 DEF Painted, Create, OnClick, Destroy, LShow, world
  <2>2. \A a \in Panel : a # b => panels'[a] = panels[a]
    BY <1>0, <1>3 DEF Painted, Create, OnClick, Destroy, LShow
  <2>3. panels'[b].output # "none"
        => /\ panels'[b].life = "alive"
           /\ \/ panels'[b].output = panels[b].output
              \/ mode[panels'[b].output] # "none"
    <3>1. ASSUME NEW m \in Monitor, NEW visible, Create(b, m, visible)
          PROVE  panels'[b].life = "alive" /\ mode[panels'[b].output] # "none"
      <4>1. panels'[b] = [life |-> "alive", ref |-> NoRef, output |-> m, visible |-> visible]
        BY <1>0, <3>1 DEF Create
      <4> QED BY <3>1, <4>1 DEF Create
    <3>2. CASE Destroy(b)
      BY <1>0, <3>2 DEF Destroy, Gone, NotYet
    <3>3. CASE OnClick(b) \/ \E visible \in BOOLEAN : LShow(b, visible)
      BY <1>0, <3>3 DEF OnClick, LShow, Alive, PanelRecord
    <3> QED BY <1>3, <3>1, <3>2, <3>3 DEF Painted
  <2>4. panels'[b].output = panels[b].output /\ panels[b].output # "none"
        => mode[panels'[b].output] # "none"
    BY DEF PanelInv
  <2> QED BY <2>1, <2>2, <2>3, <2>4 DEF PanelInv, Alive
<1>4. CASE RcLua
  <2>1. ASSUME NEW interval, NewTimer(interval) PROVE UNCHANGED <<panels, mode>>
    BY <2>1 DEF NewTimer, world
  <2>2. ASSUME NEW h, LUnhook(h) \/ LCancel(h) \/ LBind(h) \/ LMousebind(h) \/ LHook(h) \/ LFire(h)
        PROVE  UNCHANGED <<panels, mode>>
    BY <2>2 DEF LUnhook, LCancel, LBind, LMousebind, LHook, LFire, world
  <2>3. ASSUME NEW name, NEW x, DispatchSet(x, name) PROVE UNCHANGED <<panels, mode>>
    BY <2>3 DEF DispatchSet, world
  <2>4. ASSUME NEW name, NEW x, LMonitorSet(name, x)
        PROVE  /\ UNCHANGED panels
               /\ \A m \in Monitor : mode[m] # "none" => mode'[m] # "none"
    BY <1>2, <2>4 DEF LMonitorSet
  <2>5. CASE LReload
    BY <1>1, <2>5 DEF LReload, world
  <2> HIDE DEF PanelInv
  <2> QED BY <1>1, <1>3, <1>4, <2>1, <2>2, <2>3, <2>4, <2>5, RcLuaIs
<1>5. CASE EventLoop
  <2>1. ASSUME NEW m \in Monitor, Unplug(m) PROVE PanelInv'
    <3>1. mode' = [mode EXCEPT ![m] = "none"]
      BY <2>1 DEF Unplug
    <3>2. ASSUME NEW b \in Panel
          PROVE  /\ panels'[b].life = panels[b].life
                 /\ panels'[b].output = IF panels[b].output = m THEN "none"
                                        ELSE panels[b].output
      <4>1. panels'[b] = [panels[b] EXCEPT !.output = IF panels[b].output = m THEN "none"
                                                      ELSE panels[b].output]
        BY <2>1 DEF Unplug
      <4>2. panels[b] \in PanelRecord
        BY <1>0
      <4> QED BY <4>1, <4>2 DEF PanelRecord
    <3>3. \A b \in Panel : panels[b].output \in Monitor \cup {"none"}
      BY <1>0 DEF PanelRecord
    <3> QED BY <1>0, <3>1, <3>2, <3>3 DEF PanelInv, Alive
  <2>2. ASSUME NEW m \in Monitor, Plug(m) PROVE PanelInv'
    BY <1>0, <1>1, <2>2 DEF Plug
  <2>3. UNCHANGED <<panels, mode>> \/ \E m \in Monitor : Plug(m) \/ Unplug(m)
    BY <1>5 DEF EventLoop, Press, PressButton, Click, TimerFires, Happens, Sighup, world
  <2> QED BY <1>1, <2>1, <2>2, <2>3
<1>6. CASE LoadOk \/ LoadFails
  <2>1. UNCHANGED panels /\ (mode' = mode \/ \E t : mode' = Reapplied(t))
    BY <1>6 DEF LoadOk, LoadFails, RollBack
  <2> QED BY <1>1, <1>2, <2>1 DEF Reapplied
<1>7. CASE FireNext \/ FireEnd \/ CallEnd \/ InvokeEnd \/ TrampolineEnd \/ UNCHANGED vars
  BY <1>1, <1>7 DEF FireNext, FireEnd, CallEnd, InvokeEnd, TrampolineEnd, world, vars
<1> QED BY <1>4, <1>5, <1>6, <1>7 DEF Next

-----------------------------------------------------------------------------
(* A step that leaves the functions that are registered, and who has them.   *)
Quiet ==
    /\ UNCHANGED <<registry, next_timer_id, session>> /\ saved' \in {saved, NoConfig}
    /\ SameOwners(tables, tables') /\ tables'.timers = tables.timers
    /\ \A b \in Panel : panels'[b].ref = panels[b].ref

TimersOnly(ts) ==
    /\ UNCHANGED <<registry, next_timer_id, panels, saved, session>>
    /\ SameOwners(tables, tables') /\ tables'.timers = ts

Reloading ==
    /\ Sighup \/ InvokeEnd
    /\ \E below : BeginReload(below)
    /\ UNCHANGED <<panels, next_timer_id, session>>

(* A step is quiet about tables and registry, or one of these. *)
LEMMA QuietOr ==
    ASSUME TypeInv, [Next]_vars
    PROVE  \/ Quiet
           \/ RcLua /\ \/ \E k \in Key : LBind(k)
                       \/ \E b \in Button : LMousebind(b)
                       \/ \E e \in Event : LHook(e)
                       \/ \E h \in tables.hooks : LUnhook(h)
                       \/ \E interval \in {0, 1} : NewTimer(interval)
                       \/ \E x \in tables.timers : LCancel(x)
                       \/ \E b \in Panel : OnClick(b) \/ Destroy(b)
           \/ \E x \in tables.timers : TimerFires(x)
           \/ TrampolineEnd
           \/ Reloading
           \/ LoadFails
<1>0. tables \in Tables /\ panels \in [Panel -> PanelRecord]
  BY DEF TypeInv
<1>1. ASSUME UNCHANGED <<registry, next_timer_id, session, tables, panels>>,
             saved' \in {saved, NoConfig}
      PROVE  Quiet
  BY <1>1 DEF Quiet, SameOwners
<1>2. ASSUME NEW b \in Panel, NEW m, NEW visible, Create(b, m, visible) PROVE Quiet
  <2>0. NotYet.ref = NoRef
    BY DEF NotYet
  <2>1. /\ UNCHANGED <<registry, next_timer_id, session, tables, saved>>
        /\ panels[b].ref = NoRef
        /\ panels' = [panels EXCEPT ![b] = [life |-> "alive", ref |-> NoRef, output |-> m,
                                            visible |-> visible]]
    BY <1>2, <2>0 DEF Create, world
  <2>2. \A a \in Panel : panels'[a].ref = panels[a].ref
    BY <1>0, <2>1
  <2> QED BY <2>1, <2>2 DEF Quiet, SameOwners
<1>3. ASSUME NEW b \in Panel, NEW visible, LShow(b, visible) PROVE Quiet
  <2>1. /\ UNCHANGED <<registry, next_timer_id, session, tables, saved>>
        /\ panels' = [panels EXCEPT ![b].visible = visible]
    BY <1>3 DEF LShow, world
  <2>2. \A a \in Panel : panels'[a].ref = panels[a].ref
    BY <1>0, <2>1 DEF PanelRecord
  <2> QED BY <2>1, <2>2 DEF Quiet, SameOwners
<1>4. ASSUME NEW name, NEW x, DispatchSet(x, name) \/ LMonitorSet(name, x) PROVE Quiet
  <2>1. UNCHANGED <<registry, next_timer_id, session, panels, saved>>
    BY <1>4 DEF DispatchSet, LMonitorSet, world
  <2>2. \/ tables' = tables
        \/ \E v : tables' = [tables EXCEPT !.settings = v]
        \/ \E v : tables' = [tables EXCEPT !.rules = v]
    BY <1>4 DEF DispatchSet, Setter, LMonitorSet
  <2>3. SameOwners(tables, tables') /\ tables'.timers = tables.timers
    BY <1>0, <2>2 DEF Tables, SameOwners
  <2> QED BY <2>1, <2>3 DEF Quiet
<1>5. ASSUME NEW e, LFire(e) PROVE Quiet
  BY <1>1, <1>5 DEF LFire, world
<1>6. CASE LReload
  BY <1>1, <1>6 DEF LReload, world
<1>7. CASE RcLua
  <2> HIDE DEF Quiet
  <2> QED BY <1>2, <1>3, <1>4, <1>5, <1>6, <1>7, RcLuaIs DEF Painted
<1>8. CASE EventLoop
  <2>1. ASSUME NEW m \in Monitor, Plug(m) PROVE Quiet
    BY <1>1, <2>1 DEF Plug
  <2>2. ASSUME NEW m \in Monitor, Unplug(m) PROVE Quiet
    <3>1. ASSUME NEW b \in Panel PROVE panels'[b].ref = panels[b].ref
      <4>1. panels'[b] = [panels[b] EXCEPT !.output = IF panels[b].output = m THEN "none"
                                                      ELSE panels[b].output]
        BY <2>2 DEF Unplug
      <4>2. panels[b] \in PanelRecord
        BY <1>0
      <4> QED BY <4>1, <4>2 DEF PanelRecord
    <3> QED BY <2>2, <3>1 DEF Unplug, Quiet, SameOwners
  <2>3. ASSUME \/ \E k \in Key : Press(k)
               \/ \E b \in Button : PressButton(b)
               \/ \E b \in Panel : Click(b)
               \/ \E e \in Event : Happens(e)
        PROVE  Quiet
    BY <1>1, <2>3 DEF Press, PressButton, Click, Happens, world
  <2>4. Sighup => Reloading
    BY DEF Sighup, Reloading, world
  <2> QED BY <1>8, <2>1, <2>2, <2>3, <2>4 DEF EventLoop
<1>9. CASE FireNext \/ FireEnd \/ CallEnd \/ LoadOk \/ UNCHANGED vars
  BY <1>1, <1>9 DEF FireNext, FireEnd, CallEnd, LoadOk, world, vars
<1>10. CASE InvokeEnd
  <2>1. UNCHANGED <<next_timer_id, panels, session>>
    BY <1>10 DEF InvokeEnd, world
  <2>2. UNCHANGED <<registry, tables, saved>> \/ \E below : BeginReload(below)
    BY <1>10 DEF InvokeEnd
  <2> QED BY <1>1, <1>10, <2>1, <2>2 DEF Reloading
<1> QED BY <1>7, <1>8, <1>9, <1>10 DEF Next

(* Ids are not used again, in the tables there are and those put aside.      *)
HookIdsNew(t) ==
    \A h \in t.hooks : h.id < t.next_hook_id /\ \A g \in t.hooks : g.id = h.id => g = h
TimerIdsNew(t, next) ==
    \A x \in t.timers : x.id < next /\ \A y \in t.timers : y.id = x.id => y = x

IdsInv ==
    /\ HookIdsNew(tables) /\ TimerIdsNew(tables, next_timer_id)
    /\ saved # NoConfig => /\ HookIdsNew(saved.tables)
                           /\ TimerIdsNew(saved.tables, next_timer_id)

(* A timer that fires is marked so. *)
LEMMA TimerFiresIs ==
    ASSUME TypeInv, NEW x \in tables.timers, TimerFires(x)
    PROVE  TimersOnly((tables.timers \ {x}) \cup {Fired(x)})
<1> DEFINE ts == (tables.timers \ {x}) \cup {Fired(x)}
<1>1. /\ tables' = [tables EXCEPT !.timers = ts]
      /\ UNCHANGED <<registry, next_timer_id, panels, saved, session>>
  BY DEF TimerFires, world
<1> HIDE DEF ts
<1>2. SameOwners(tables, tables') /\ tables'.timers = ts
  BY <1>1 DEF TypeInv, Tables, SameOwners
<1> QED BY <1>1, <1>2 DEF TimersOnly, ts

(* After its callback a timer is armed again, or goes. *)
LEMMA TrampolineEndIs ==
    ASSUME TypeInv, TrampolineEnd
    PROVE  LET mine == TimersIn(tables, Top.timer)
           IN  TimersOnly((tables.timers \ mine)
                          \cup IF Top.interval > 0
                               THEN {[x EXCEPT !.armed = TRUE] : x \in mine} ELSE {})
<1> DEFINE mine == TimersIn(tables, Top.timer)
           ts == (tables.timers \ mine)
                 \cup IF Top.interval > 0 THEN {[x EXCEPT !.armed = TRUE] : x \in mine} ELSE {}
<1>1. /\ tables' = [tables EXCEPT !.timers = ts]
      /\ UNCHANGED <<registry, next_timer_id, panels, saved, session>>
  BY DEF TrampolineEnd, world
<1> HIDE DEF ts
<1>2. SameOwners(tables, tables') /\ tables'.timers = ts
  BY <1>1 DEF TypeInv, Tables, SameOwners
<1> QED BY <1>1, <1>2 DEF TimersOnly, ts

(* A reload starts from nothing and puts the old state aside. *)
LEMMA ReloadingIs ==
    ASSUME Reloading
    PROVE  /\ registry' = EmptyRegistry /\ tables' = EmptyTables
           /\ tables'.hooks = {} /\ tables'.timers = {}
           /\ tables'.keybinds = <<>> /\ tables'.mousebinds = <<>>
           /\ saved'.registry = registry /\ saved'.tables = tables
           /\ UNCHANGED <<panels, next_timer_id, session>>
BY DEF Reloading, BeginReload, EmptyTables

(* Ids of hooks and timers are never used twice. *)
LEMMA IdsStep == ASSUME TypeInv, IdsInv, [Next]_vars PROVE IdsInv'
<1>0. /\ tables \in Tables /\ next_timer_id \in Nat \ {0} /\ tables.next_hook_id \in Nat
      /\ tables.timers \in SUBSET TimerRecord /\ tables.hooks \in SUBSET HookRecord
  BY DEF TypeInv, Tables
<1>1. ASSUME tables'.hooks \subseteq tables.hooks, tables'.next_hook_id = tables.next_hook_id,
             \A y \in tables'.timers : \E x \in tables.timers : y.id = x.id,
             \A y, z \in tables'.timers : y.id = z.id => y = z,
             next_timer_id' = next_timer_id, saved' \in {saved, NoConfig}
      PROVE  IdsInv'
  <2>1. HookIdsNew(tables)' /\ TimerIdsNew(tables, next_timer_id)'
    BY <1>1 DEF IdsInv, HookIdsNew, TimerIdsNew
  <2>2. saved' # NoConfig => saved' = saved /\ saved # NoConfig
    BY <1>1
  <2>3. saved' # NoConfig => (HookIdsNew(saved.tables) /\ TimerIdsNew(saved.tables, next_timer_id))'
    BY <1>1, <2>2 DEF IdsInv, HookIdsNew, TimerIdsNew
  <2> QED BY <2>1, <2>3 DEF IdsInv
<1>2. ASSUME tables'.hooks \subseteq tables.hooks, tables'.next_hook_id = tables.next_hook_id,
             tables'.timers \subseteq tables.timers,
             next_timer_id' = next_timer_id, saved' \in {saved, NoConfig}
      PROVE  IdsInv'
  <2>1. \A y, z \in tables'.timers : y.id = z.id => y = z
    BY <1>2 DEF IdsInv, TimerIdsNew
  <2> QED BY <1>1, <1>2, <2>1
<1>3. ASSUME Quiet PROVE IdsInv'
  BY <1>2, <1>3 DEF Quiet, SameOwners
<1>4. ASSUME NEW x \in tables.timers, TimerFires(x) PROVE IdsInv'
  <2> DEFINE y == Fired(x)
  <2>1. y.id = x.id
    BY <1>0 DEF Fired, TimerRecord
  <2>2. TimersOnly((tables.timers \ {x}) \cup {y})
    BY <1>4, TimerFiresIs
  <2> HIDE DEF y
  <2>3. \A u, w \in tables'.timers : u.id = w.id => u = w
    BY <2>1, <2>2 DEF TimersOnly, IdsInv, TimerIdsNew
  <2> QED BY <1>1, <2>1, <2>2, <2>3 DEF TimersOnly, SameOwners
<1>5. CASE TrampolineEnd
  <2> DEFINE a(x) == [x EXCEPT !.armed = TRUE]
             mine == TimersIn(tables, Top.timer)
             again == IF Top.interval > 0 THEN {a(x) : x \in mine} ELSE {}
  <2>1. \A x \in tables.timers : a(x).id = x.id
    BY <1>0 DEF TimerRecord
  <2>2. TimersOnly((tables.timers \ mine) \cup again)
    BY <1>5, TrampolineEndIs
  <2> HIDE DEF a
  <2>3. \A x \in mine : x \in tables.timers /\ x.id = Top.timer
    BY DEF TimersIn
  <2>4. \A u \in again : \E x \in mine : u = a(x)
    OBVIOUS
  <2>5. \A x \in tables.timers \ mine : x.id # Top.timer
    BY DEF TimersIn
  <2> HIDE DEF mine, again
  <2>6. \A u \in tables'.timers : \/ u \in tables.timers \ mine
                                  \/ \E x \in mine : u = a(x) /\ u.id = Top.timer
    BY <2>1, <2>2, <2>3, <2>4 DEF TimersOnly
  <2>7. \A x, y \in mine : x = y
    BY <2>3 DEF IdsInv, TimerIdsNew
  <2>8. \A u, w \in tables'.timers : u.id = w.id => u = w
    BY <2>5, <2>6, <2>7 DEF IdsInv, TimerIdsNew
  <2>9. \A u \in tables'.timers : \E x \in tables.timers : u.id = x.id
    BY <2>3, <2>6
  <2> QED BY <1>1, <2>2, <2>8, <2>9 DEF TimersOnly, SameOwners
<1>6. ASSUME NEW k, LBind(k) \/ LMousebind(k) PROVE IdsInv'
  <2>1. \/ \E v : tables' = [tables EXCEPT !.keybinds = v]
        \/ \E v : tables' = [tables EXCEPT !.mousebinds = v]
    BY <1>6 DEF LBind, LMousebind
  <2>2. /\ tables'.hooks = tables.hooks /\ tables'.timers = tables.timers
        /\ tables'.next_hook_id = tables.next_hook_id
    BY <1>0, <2>1 DEF Tables
  <2>3. next_timer_id' = next_timer_id /\ saved' = saved
    BY <1>6 DEF LBind, LMousebind
  <2> QED BY <1>2, <2>2, <2>3
<1>7. ASSUME NEW e, LHook(e) PROVE IdsInv'
  <2> DEFINE h == [id |-> tables.next_hook_id, event |-> e, ref |-> Slot(registry)]
  <2>1. h.id = tables.next_hook_id
    OBVIOUS
  <2>2. /\ tables' = [tables EXCEPT !.hooks = tables.hooks \cup {h},
                                    !.next_hook_id = tables.next_hook_id + 1]
        /\ UNCHANGED <<saved, next_timer_id>>
    BY <1>7 DEF LHook, AddHook
  <2> HIDE DEF h
  <2>3. /\ tables'.hooks = tables.hooks \cup {h} /\ tables'.timers = tables.timers
        /\ tables'.next_hook_id = tables.next_hook_id + 1
    BY <1>0, <2>2 DEF Tables
  <2>4. \A g \in tables.hooks : g.id \in Nat
    BY <1>0 DEF HookRecord
  <2> QED BY <1>0, <2>1, <2>2, <2>3, <2>4 DEF IdsInv, HookIdsNew, TimerIdsNew
<1>8. ASSUME NEW h, LUnhook(h) PROVE IdsInv'
  <2>1. /\ tables' = [tables EXCEPT !.hooks = tables.hooks \ {h}]
        /\ next_timer_id' = next_timer_id /\ saved' = saved
    BY <1>8 DEF LUnhook, RemoveHook
  <2>2. /\ tables'.hooks = tables.hooks \ {h} /\ tables'.timers = tables.timers
        /\ tables'.next_hook_id = tables.next_hook_id
    BY <1>0, <2>1 DEF Tables
  <2> QED BY <1>2, <2>1, <2>2
<1>9. ASSUME NEW interval \in {0, 1}, NewTimer(interval) PROVE IdsInv'
  <2> DEFINE x == [id |-> next_timer_id, ref |-> Slot(registry), interval |-> interval,
                   armed |-> TRUE, fired |-> FALSE]
  <2>1. x.id = next_timer_id
    OBVIOUS
  <2>2. /\ tables' = [tables EXCEPT !.timers = tables.timers \cup {x}]
        /\ saved' = saved /\ next_timer_id' = next_timer_id + 1
    BY <1>9 DEF NewTimer, AddTimer
  <2> HIDE DEF x
  <2>3. /\ tables'.hooks = tables.hooks /\ tables'.timers = tables.timers \cup {x}
        /\ tables'.next_hook_id = tables.next_hook_id
    BY <1>0, <2>2 DEF Tables
  <2>4. \A y \in tables.timers : y.id \in Nat
    BY <1>0 DEF TimerRecord
  <2>5. HookIdsNew(tables)' /\ TimerIdsNew(tables, next_timer_id)'
    BY <1>0, <2>1, <2>2, <2>3, <2>4 DEF IdsInv, HookIdsNew, TimerIdsNew
  <2>6. ASSUME saved # NoConfig
        PROVE  HookIdsNew(saved.tables) /\ TimerIdsNew(saved.tables, next_timer_id + 1)
    <3>1. saved.tables \in Tables
      BY <2>6 DEF TypeInv
    <3>2. \A y \in saved.tables.timers : y.id \in Nat
      BY <3>1 DEF Tables, TimerRecord
    <3> QED BY <1>0, <2>6, <3>2 DEF IdsInv, TimerIdsNew
  <2> QED BY <2>2, <2>5, <2>6 DEF IdsInv
<1>10. ASSUME NEW x, LCancel(x) PROVE IdsInv'
  <2>1. /\ tables' = [tables EXCEPT !.timers = tables.timers \ {x}]
        /\ next_timer_id' = next_timer_id /\ saved' = saved
    BY <1>10 DEF LCancel
  <2>2. /\ tables'.timers = tables.timers \ {x} /\ tables'.hooks = tables.hooks
        /\ tables'.next_hook_id = tables.next_hook_id
    BY <1>0, <2>1 DEF Tables
  <2> QED BY <1>2, <2>1, <2>2
<1>11. ASSUME NEW b \in Panel, OnClick(b) \/ Destroy(b) PROVE IdsInv'
  BY <1>2, <1>11 DEF OnClick, Destroy
<1>12. CASE Reloading
  BY <1>12, ReloadingIs DEF IdsInv, HookIdsNew, TimerIdsNew
<1>13. CASE LoadFails
  <2>1. /\ tables' = saved.tables /\ saved # NoConfig /\ saved' = NoConfig
        /\ next_timer_id' = next_timer_id
    BY <1>13 DEF LoadFails, RollBack
  <2> QED BY <2>1 DEF IdsInv, HookIdsNew, TimerIdsNew
<1> QED BY <1>3, <1>4, <1>5, <1>6, <1>7, <1>8, <1>9, <1>10, <1>11, <1>12, <1>13, QuietOr

LuaInv == TypeInv /\ StackInv /\ PanelInv /\ IdsInv

(* Nothing runs and nothing is registered at the start. *)
LEMMA InitStack == Init => StackInv /\ PanelInv /\ IdsInv
<1> SUFFICES ASSUME Init PROVE StackInv /\ PanelInv /\ IdsInv
  OBVIOUS
<1>1. /\ frames = <<Load>> /\ saved = NoConfig /\ watched = FALSE /\ tables = EmptyTables
      /\ panels = [b \in Panel |-> NotYet]
  BY DEF Init
<1>2. Load \in Frame /\ Load.at = "load"
  BY DEF Load, LoadFrame, Frame
<1>3. Bottom(frames) /\ Cardinality(Calls(frames)) = 0
  BY <1>1, <1>2, SingleForm
<1>4. StackInv
  BY <1>1, <1>3, LuaAssumption DEF StackInv
<1>5. PanelInv
  BY <1>1 DEF PanelInv, NotYet
<1>6. IdsInv
  BY <1>1 DEF IdsInv, HookIdsNew, TimerIdsNew, EmptyTables
<1> QED BY <1>4, <1>5, <1>6

(* Shape, stack, panels and ids: the invariant the rest stands on. *)
LEMMA LuaAlways == Spec => []LuaInv
<1>1. Init => LuaInv
  BY InitShape, InitStack DEF LuaInv
<1>2. LuaInv /\ [Next]_vars => LuaInv'
  BY ShapeStep, StackStep, PanelStep, IdsStep DEF LuaInv
<1> QED BY <1>1, <1>2, PTL DEF Spec

(* The stack of LuaConfig is one of calls, dispatches and loads no deeper    *)
(* than kMaxCallDepth, bars and windows are on outputs that are there, ids   *)
(* of hooks stay below the next one, and neither the watchdog nor what a     *)
(* reload put aside outlives its callback: TypeOK, for all constants.        *)
THEOREM LuaShape == Spec => []TypeOK
<1>1. LuaInv => TypeOK
  <2> SUFFICES ASSUME LuaInv PROVE TypeOK
    OBVIOUS
  <2>1. ASSUME NEW n \in DOMAIN frames
        PROVE  frames[n].at \in {"load", "call", "fire", "invoke", "tramp"}
    <3>1. frames[n] \in Frame
      BY ElementOfSeq, LenProperties DEF LuaInv, TypeInv
    <3> QED BY <3>1 DEF Frame, LoadFrame, CallFrame, FireFrame, TimerFrame
  <2>2. Depth <= MaxDepth
    BY DepthIs DEF LuaInv, StackInv
  <2>3. ASSUME NEW b \in Panel
        PROVE  /\ panels[b].output \in Monitor \cup {"none"}
               /\ panels[b].output # "none" => Alive(b) /\ mode[panels[b].output] # "none"
    <3>1. panels[b] \in PanelRecord
      BY DEF LuaInv, TypeInv
    <3> QED BY <3>1 DEF PanelRecord, LuaInv, PanelInv
  <2>4. reload_pending \in BOOLEAN /\ watched \in BOOLEAN
    BY Zenon DEF LuaInv, TypeInv
  <2>5. \A id \in HookIds(tables) : id < tables.next_hook_id
    BY DEF LuaInv, IdsInv, HookIdsNew, HookIds
  <2>6. Idle => ~ watched /\ saved = NoConfig
    BY IdleIs DEF LuaInv
  <2> QED BY <2>1, <2>2, <2>3, <2>4, <2>5, <2>6 DEF TypeOK
<1> QED BY <1>1, LuaAlways, PTL

-----------------------------------------------------------------------------
(* The timer whose callback runs, and its interval.                          *)
Runs(f, id, i) ==
    \E n \in DOMAIN f : f[n].at \in {"invoke", "tramp"} /\ f[n].timer = id /\ f[n].interval = i
SameRuns(f, g) == \A id, i : Runs(g, id, i) <=> Runs(f, id, i)

(* Which timer's callback runs does not change with the frames inside, *)
LEMMA EditRuns ==
    ASSUME NEW f \in Seq(Frame), f # <<>>, NEW x \in Frame, NEW g, g = <<x>> \o Tail(f),
           f[1].at \notin {"invoke", "tramp"}, x.at \notin {"invoke", "tramp"}
    PROVE  SameRuns(f, g)
<1>1. g \in Seq(Frame) /\ Len(g) = Len(f) /\ g[1] = x /\ \A n \in 2..Len(g) : g[n] = f[n]
  BY Edited
<1>2. DOMAIN f = 1..Len(f) /\ DOMAIN g = 1..Len(g) /\ Len(f) \in Nat
  BY <1>1, LenProperties
<1>3. \A n \in 1..Len(f) : n = 1 \/ n \in 2..Len(g)
  BY <1>1, <1>2
<1> QED BY <1>1, <1>2, <1>3 DEF SameRuns, Runs

(* with a call or a dispatch on top, *)
LEMMA PushRuns ==
    ASSUME NEW f \in Seq(Frame), NEW x \in Frame, NEW g, g = <<x>> \o f,
           x.at \notin {"invoke", "tramp"}
    PROVE  SameRuns(f, g)
<1>1. /\ g \in Seq(Frame) /\ Len(g) = Len(f) + 1 /\ g[1] = x
      /\ \A n \in 2..Len(g) : n - 1 \in 1..Len(f) /\ g[n] = f[n - 1]
  BY Pushed
<1>2. DOMAIN f = 1..Len(f) /\ DOMAIN g = 1..Len(g) /\ Len(f) \in Nat
  BY <1>1, LenProperties
<1>3. \A n \in 1..Len(f) : n + 1 \in 1..Len(g) /\ g[n + 1] = f[n]
  <2>1. ASSUME NEW n \in 1..Len(f) PROVE n + 1 \in 2..Len(g) /\ (n + 1) - 1 = n
    BY <1>1, <1>2
  <2> QED BY <1>1, <2>1
<1>4. \A n \in 1..Len(g) : n = 1 \/ n \in 2..Len(g)
  BY <1>1, <1>2
<1> SUFFICES ASSUME NEW id, NEW i PROVE Runs(g, id, i) <=> Runs(f, id, i)
  BY DEF SameRuns
<1>5. ASSUME Runs(g, id, i) PROVE Runs(f, id, i)
  <2>1. PICK n \in 1..Len(g) :
           g[n].at \in {"invoke", "tramp"} /\ g[n].timer = id /\ g[n].interval = i
    BY <1>2, <1>5 DEF Runs
  <2>2. n - 1 \in 1..Len(f) /\ g[n] = f[n - 1]
    BY <1>1, <1>4, <2>1
  <2> QED BY <1>2, <2>1, <2>2 DEF Runs
<1>6. ASSUME Runs(f, id, i) PROVE Runs(g, id, i)
  <2>1. PICK n \in 1..Len(f) :
           f[n].at \in {"invoke", "tramp"} /\ f[n].timer = id /\ f[n].interval = i
    BY <1>2, <1>6 DEF Runs
  <2>2. n + 1 \in 1..Len(g) /\ g[n + 1] = f[n]
    BY <1>3
  <2> QED BY <1>2, <2>1, <2>2 DEF Runs
<1> QED BY <1>5, <1>6

(* with the return of one, *)
LEMMA PopRuns ==
    ASSUME NEW f \in Seq(Frame), f # <<>>, NEW g, g = Tail(f),
           f[1].at \notin {"invoke", "tramp"}
    PROVE  SameRuns(f, g)
<1>1. /\ g \in Seq(Frame) /\ Len(g) = Len(f) - 1 /\ Len(f) \in Nat \ {0}
      /\ \A n \in 1..Len(g) : n + 1 \in 2..Len(f) /\ g[n] = f[n + 1]
  BY Popped
<1>2. DOMAIN f = 1..Len(f) /\ DOMAIN g = 1..Len(g) /\ Len(g) \in Nat
  BY <1>1, LenProperties
<1>3. \A n \in 1..Len(f) : n = 1 \/ (n - 1 \in 1..Len(g) /\ (n - 1) + 1 = n)
  BY <1>1, <1>2
<1>4. \A n \in 1..Len(f) : n = 1 \/ (n - 1 \in 1..Len(g) /\ g[n - 1] = f[n])
  BY <1>1, <1>3
<1>5. \A n \in 1..Len(g) : n + 1 \in 1..Len(f)
  BY <1>1, <1>2
<1> SUFFICES ASSUME NEW id, NEW i PROVE Runs(g, id, i) <=> Runs(f, id, i)
  BY DEF SameRuns
<1>6. ASSUME Runs(f, id, i) PROVE Runs(g, id, i)
  <2>1. PICK n \in 1..Len(f) :
           f[n].at \in {"invoke", "tramp"} /\ f[n].timer = id /\ f[n].interval = i
    BY <1>2, <1>6 DEF Runs
  <2>2. n - 1 \in 1..Len(g) /\ g[n - 1] = f[n]
    BY <1>4, <2>1
  <2> QED BY <1>2, <2>1, <2>2 DEF Runs
<1>7. ASSUME Runs(g, id, i) PROVE Runs(f, id, i)
  <2>1. PICK n \in 1..Len(g) :
           g[n].at \in {"invoke", "tramp"} /\ g[n].timer = id /\ g[n].interval = i
    BY <1>2, <1>7 DEF Runs
  <2>2. n + 1 \in 1..Len(f) /\ g[n] = f[n + 1]
    BY <1>1, <1>5
  <2> QED BY <1>2, <2>1, <2>2 DEF Runs
<1> QED BY <1>6, <1>7

(* or with a guarded call. *)
LEMMA GuardedRuns ==
    ASSUME TypeInv, NEW n, NEW below \in Seq(Frame), GuardedCall(n, below)
    PROVE  SameRuns(below, frames')
<1>1. CASE frames' = below
  BY <1>1 DEF SameRuns
<1>2. ASSUME NEW c \in CallFrame, frames' = <<c>> \o below PROVE SameRuns(below, frames')
  <2>1. c \in Frame /\ c.at \notin {"invoke", "tramp"}
    BY DEF CallFrame, Frame
  <2> QED BY <1>2, <2>1, PushRuns
<1> QED BY <1>1, <1>2, GuardedIs

(* A stack of one frame runs what that frame runs. *)
LEMMA OneRun ==
    ASSUME NEW x \in Frame, NEW f, f = <<x>>
    PROVE  \A id, i : Runs(f, id, i) <=> /\ x.at \in {"invoke", "tramp"}
                                         /\ x.timer = id /\ x.interval = i
<1>1. f[1] = x /\ DOMAIN f = {1}
  OBVIOUS
<1> SUFFICES ASSUME NEW id, NEW i
             PROVE  Runs(f, id, i) <=> /\ x.at \in {"invoke", "tramp"}
                                       /\ x.timer = id /\ x.interval = i
  OBVIOUS
<1>2. Runs(f, id, i)
      <=> f[1].at \in {"invoke", "tramp"} /\ f[1].timer = id /\ f[1].interval = i
  BY <1>1 DEF Runs
<1> QED BY <1>1, <1>2

(* A timer that fires runs its callback. *)
LEMMA InvokeRuns ==
    ASSUME TypeInv, NEW n, NEW x \in TimerFrame, x.at = "invoke", GuardedCall(n, <<x>>)
    PROVE  \A d, j : Runs(frames', d, j) <=> d = x.timer /\ j = x.interval
<1> DEFINE below == <<x>>
<1>1. x \in Frame
  BY DEF Frame
<1>2. below \in Seq(Frame)
  BY <1>1, SingleForm
<1>3. \A d, j : Runs(below, d, j) <=> d = x.timer /\ j = x.interval
  BY <1>1, OneRun
<1> HIDE DEF below
<1>4. SameRuns(below, frames')
  BY <1>2, GuardedRuns DEF below
<1> QED BY <1>3, <1>4 DEF SameRuns

(* No callback runs in the event loop. *)
LEMMA IdleRuns == ASSUME Idle PROVE \A id, i : ~ Runs(frames, id, i)
BY DEF Idle, Runs

(* Running the same composes. *)
LEMMA SameTwice ==
    ASSUME NEW f, NEW g, NEW h, SameRuns(f, g), SameRuns(g, h) PROVE SameRuns(f, h)
BY DEF SameRuns

(* Only a timer that fires, and its end, change which callback runs. *)
LEMMA RunsBy ==
    ASSUME TypeInv, StackInv, [Next]_vars
    PROVE  \/ SameRuns(frames, frames')
           \/ /\ Idle /\ Quiet
              /\ \A id, i : Runs(frames', id, i) <=> id = 0 /\ i = 0
           \/ \E x \in tables.timers : TimerFires(x)
           \/ TrampolineEnd
<1>0. frames \in Seq(Frame)
  BY DEF TypeInv
<1>1. CASE RcLua
  <2>1. InLua /\ (frames' = Counted \/ \E e : frames' = <<Fire(e)>> \o Counted)
    BY <1>1, RcLuaKeeps
  <2>2. /\ frames # <<>> /\ frames[1] = Top /\ Head(Counted) \in LoadFrame \cup CallFrame
        /\ Counted \in Seq(Frame)
    BY <2>1, CountedShape
  <2> DEFINE x == [Top EXCEPT !.ops = @ + 1]
  <2>3. Counted = <<x>> \o Tail(frames)
    BY DEF Counted
  <2>4. frames[1].at \notin {"invoke", "tramp"}
    BY <2>1, <2>2 DEF InLua
  <2>5. x \in Frame /\ x.at \notin {"invoke", "tramp"}
    <3>1. Head(Counted) = x
      BY <1>0, <2>2, <2>3, HeadTailProperties
    <3> QED BY <2>2, <3>1 DEF Frame, LoadFrame, CallFrame
  <2> HIDE DEF x
  <2>6. SameRuns(frames, Counted)
    BY <1>0, <2>2, <2>3, <2>4, <2>5, EditRuns
  <2>7. ASSUME NEW e, frames' = <<Fire(e)>> \o Counted PROVE SameRuns(Counted, frames')
    <3>1. Fire(e) \in Frame /\ Fire(e).at \notin {"invoke", "tramp"}
      BY FireIs DEF FireFrame
    <3> QED BY <2>2, <2>7, <3>1, PushRuns
  <2>8. frames' = Counted => SameRuns(frames, frames')
    BY <2>6
  <2>9. SameRuns(Counted, frames') => SameRuns(frames, frames')
    BY <2>6, SameTwice
  <2> QED BY <2>1, <2>7, <2>8, <2>9
<1>2. CASE \/ \E k \in Key : Press(k)
           \/ \E b \in Button : PressButton(b)
           \/ \E b \in Panel : Click(b)
  <2>1. PICK n : Idle /\ GuardedCall(n, <<Invoke(0, NoRef, 0)>>)
    BY <1>2 DEF Press, PressButton, Click
  <2> DEFINE x == Invoke(0, NoRef, 0)
  <2>4. x \in TimerFrame /\ GuardedCall(n, <<x>>)
    BY <2>1, BeginIs
  <2>5. x.at = "invoke" /\ x.timer = 0 /\ x.interval = 0
    BY DEF Invoke
  <2> HIDE DEF x
  <2>2. \A d, j : Runs(frames', d, j) <=> d = 0 /\ j = 0
    BY <2>4, <2>5, InvokeRuns
  <2>3. Quiet
    BY <1>2 DEF Press, PressButton, Click, Quiet, SameOwners, world
  <2> QED BY <2>1, <2>2, <2>3
<1>3. ASSUME NEW e, Happens(e) PROVE SameRuns(frames, frames')
  <2>1. Idle /\ frames' = <<Fire(e)>>
    BY <1>3 DEF Happens
  <2>2. Fire(e) \in Frame /\ Fire(e).at \notin {"invoke", "tramp"}
    BY FireIs DEF FireFrame
  <2>3. \A id, i : ~ Runs(frames', id, i)
    BY <2>1, <2>2, OneRun
  <2> QED BY <2>1, <2>3, IdleRuns DEF SameRuns
<1>4. ASSUME NEW m, Plug(m) \/ Unplug(m) PROVE SameRuns(frames, frames')
  BY <1>4 DEF Plug, Unplug, SameRuns
<1>5. Load \in Frame /\ Load.at \notin {"invoke", "tramp"}
  BY DEF Load, LoadFrame, Frame
<1>6. CASE Sighup
  <2>1. frames' = <<Load>> \o <<>> /\ frames = <<>>
    BY <1>6 DEF Sighup, BeginReload, Idle
  <2> QED BY <1>0, <1>5, <2>1, PushRuns
<1>7. CASE FireNext
  <2>1. frames # <<>> /\ Top = frames[1] /\ Top \in FireFrame
    BY <1>7, NextIs
  <2>2. PICK h \in Top.refs : /\ After(h) \in FireFrame /\ After(h) \in Frame
                              /\ GuardedCall(h.ref, <<After(h)>> \o Tail(frames))
    BY <1>7, NextIs
  <2> DEFINE below == <<After(h)>> \o Tail(frames)
  <2>3. below \in Seq(Frame)
    BY <1>0, <2>1, <2>2, Edited
  <2>4. SameRuns(frames, below)
    BY <1>0, <2>1, <2>2, EditRuns DEF FireFrame
  <2>5. SameRuns(below, frames')
    BY <2>2, <2>3, GuardedRuns
  <2> QED BY <2>4, <2>5, SameTwice
<1>8. CASE FireEnd \/ CallEnd \/ LoadOk \/ LoadFails
  <2>1. frames # <<>> /\ frames' = Tail(frames) /\ Top.at \notin {"invoke", "tramp"}
    BY <1>8 DEF FireEnd, CallEnd, LoadOk, LoadFails, RollBack, Idle
  <2>2. Top = frames[1]
    BY <1>0, <2>1, HeadTailProperties DEF Top
  <2> QED BY <1>0, <2>1, <2>2, PopRuns
<1>9. CASE InvokeEnd
  <2>1. /\ Trampoline \in TimerFrame /\ Trampoline.at = "tramp"
        /\ Trampoline.timer = Top.timer /\ Trampoline.interval = Top.interval
        /\ Top = frames[1] /\ Top.at = "invoke" /\ Len(frames) = 1
        /\ <<Trampoline>> \o Tail(frames) = <<Trampoline>>
    BY <1>9, InvokeIs
  <2> DEFINE below == <<Trampoline>>
  <2>2. below \in Seq(Frame) /\ Trampoline \in Frame
    BY <2>1 DEF Frame
  <2>3. \A id, i : Runs(below, id, i) <=> Top.timer = id /\ Top.interval = i
    BY <2>1, <2>2, OneRun
  <2>4. DOMAIN frames = {1}
    BY <1>0, <2>1, LenProperties
  <2>5. \A id, i : Runs(frames, id, i) <=> Top.timer = id /\ Top.interval = i
    BY <2>1, <2>4 DEF Runs
  <2>6. SameRuns(frames, below)
    BY <2>3, <2>5 DEF SameRuns
  <2>7. frames' = below \/ frames' = <<Load>> \o below
    BY <1>9, <2>1 DEF InvokeEnd, BeginReload
  <2> HIDE DEF below
  <2>8. SameRuns(below, frames')
    <3>1. CASE frames' = below
      BY <3>1 DEF SameRuns
    <3>2. CASE frames' = <<Load>> \o below
      BY <1>5, <2>2, <3>2, PushRuns
    <3> QED BY <2>7, <3>1, <3>2
  <2> QED BY <2>6, <2>8, SameTwice
<1>10. CASE UNCHANGED vars
  BY <1>10 DEF vars, SameRuns
<1> QED BY <1>1, <1>2, <1>3, <1>4, <1>6, <1>7, <1>8, <1>9, <1>10 DEF Next, EventLoop

(* A timer whose callback runs has fired; any other waits, and has not if it *)
(* is a one-shot.                                                            *)
TimerSound(x, f) ==
    /\ \A i : Runs(f, x.id, i) => x.fired /\ x.interval = i
    /\ (\E i : Runs(f, x.id, i)) \/ (x.armed /\ (x.fired => x.interval > 0))

TimerInv ==
    /\ \A x \in tables.timers : TimerSound(x, frames)
    /\ saved # NoConfig => \A x \in saved.tables.timers : TimerSound(x, frames)
    /\ \A id, i : Runs(frames, id, i) => id < next_timer_id

(* What a timer must satisfy depends on the callback that runs alone. *)
LEMMA SoundSame ==
    ASSUME NEW f, NEW g, SameRuns(f, g), NEW x, TimerSound(x, f) PROVE TimerSound(x, g)
BY DEF SameRuns, TimerSound

(* At the end of a timer's callback nothing else is on the stack. *)
LEMMA TrampIs ==
    ASSUME TypeInv, StackInv, ~ Idle, Top.at = "tramp"
    PROVE  /\ Tail(frames) = <<>> /\ saved = NoConfig
           /\ Top.timer \in Nat /\ Top.interval \in {0, 1}
           /\ \A id, i : Runs(frames, id, i) <=> id = Top.timer /\ i = Top.interval
<1>1. frames \in Seq(Frame) /\ frames # <<>> /\ Top = frames[1] /\ Top \in Frame
  BY HeadTailProperties DEF TypeInv, Idle, Top
<1>2. Top \in TimerFrame
  BY <1>1 DEF Frame, LoadFrame, CallFrame, FireFrame, TimerFrame
<1>3. Len(frames) = 1 /\ Tail(frames) = <<>> /\ ~ Has(frames, "load")
  BY <1>1, OnlyBottom DEF StackInv
<1>4. DOMAIN frames = {1}
  BY <1>1, <1>3, LenProperties
<1>5. \A id, i : Runs(frames, id, i) <=> id = Top.timer /\ i = Top.interval
  BY <1>1, <1>4 DEF Runs
<1> QED BY <1>2, <1>3, <1>5 DEF TimerFrame, StackInv

(* Steps after which the same callback runs.                                 *)
LEMMA TimerSameRuns ==
    ASSUME TypeInv, IdsInv, TimerInv, [Next]_vars, SameRuns(frames, frames'),
           ~ TrampolineEnd, \A x \in tables.timers : ~ TimerFires(x)
    PROVE  TimerInv'
<1>0. tables \in Tables
  BY DEF TypeInv
<1>1. \A x : TimerSound(x, frames) => TimerSound(x, frames')
  BY SoundSame
<1>2. ASSUME tables'.timers \subseteq tables.timers, saved' \in {saved, NoConfig},
             next_timer_id' = next_timer_id
      PROVE  TimerInv'
  BY <1>1, <1>2 DEF TimerInv, SameRuns
<1>3. ASSUME Quiet PROVE TimerInv'
  BY <1>2, <1>3 DEF Quiet
<1>4. ASSUME NEW k, LBind(k) \/ LMousebind(k) PROVE TimerInv'
  <2>1. \/ \E v : tables' = [tables EXCEPT !.keybinds = v]
        \/ \E v : tables' = [tables EXCEPT !.mousebinds = v]
    BY <1>4 DEF LBind, LMousebind
  <2>2. tables'.timers = tables.timers
    BY <1>0, <2>1 DEF Tables
  <2> QED BY <1>2, <1>4, <2>2 DEF LBind, LMousebind
<1>5. ASSUME NEW h, LHook(h) \/ LUnhook(h) PROVE TimerInv'
  <2>1. \/ \E v : tables' = [tables EXCEPT !.hooks = v]
        \/ \E v, i : tables' = [tables EXCEPT !.hooks = v, !.next_hook_id = i]
    BY <1>5 DEF LHook, AddHook, LUnhook, RemoveHook
  <2>2. tables'.timers = tables.timers
    BY <1>0, <2>1 DEF Tables
  <2> QED BY <1>2, <1>5, <2>2 DEF LHook, LUnhook
<1>6. ASSUME NEW x, LCancel(x) PROVE TimerInv'
  <2>1. tables' = [tables EXCEPT !.timers = tables.timers \ {x}]
    BY <1>6 DEF LCancel
  <2>2. tables'.timers = tables.timers \ {x}
    BY <1>0, <2>1 DEF Tables
  <2> QED BY <1>2, <1>6, <2>2 DEF LCancel
<1>7. ASSUME NEW b \in Panel, OnClick(b) \/ Destroy(b) PROVE TimerInv'
  BY <1>2, <1>7 DEF OnClick, Destroy
<1>8. ASSUME NEW interval \in {0, 1}, NewTimer(interval) PROVE TimerInv'
  <2> DEFINE x == [id |-> next_timer_id, ref |-> Slot(registry), interval |-> interval,
                   armed |-> TRUE, fired |-> FALSE]
  <2>1. x.id = next_timer_id /\ x.armed /\ ~ x.fired
    OBVIOUS
  <2>2. /\ tables' = [tables EXCEPT !.timers = tables.timers \cup {x}]
        /\ saved' = saved /\ next_timer_id' = next_timer_id + 1
    BY <1>8 DEF NewTimer, AddTimer
  <2> HIDE DEF x
  <2>3. tables'.timers = tables.timers \cup {x}
    BY <1>0, <2>2 DEF Tables
  <2>4. next_timer_id \in Nat
    BY DEF TypeInv
  <2>5. \A i : ~ Runs(frames', next_timer_id, i)
    BY <2>4 DEF TimerInv, SameRuns
  <2>6. TimerSound(x, frames')
    BY <2>1, <2>5 DEF TimerSound
  <2>7. \A y \in tables'.timers : TimerSound(y, frames')
    BY <1>1, <2>3, <2>6 DEF TimerInv
  <2>8. saved' # NoConfig => \A y \in saved'.tables.timers : TimerSound(y, frames')
    BY <1>1, <2>2 DEF TimerInv
  <2>9. ASSUME NEW id, NEW i, Runs(frames', id, i) PROVE id < next_timer_id'
    <3>1. Runs(frames, id, i)
      BY <2>9 DEF SameRuns
    <3>2. PICK n \in DOMAIN frames : /\ frames[n].at \in {"invoke", "tramp"}
                                     /\ frames[n].timer = id
      BY <3>1 DEF Runs
    <3>3. frames[n] \in Frame
      BY ElementOfSeq, LenProperties DEF TypeInv
    <3>4. id \in Nat
      BY <3>2, <3>3 DEF Frame, LoadFrame, CallFrame, FireFrame, TimerFrame
    <3> QED BY <2>2, <2>4, <3>1, <3>4 DEF TimerInv
  <2> QED BY <2>7, <2>8, <2>9 DEF TimerInv
<1>9. CASE Reloading
  BY <1>1, <1>9, ReloadingIs DEF TimerInv, SameRuns
<1>10. CASE LoadFails
  <2>1. /\ tables' = saved.tables /\ saved # NoConfig /\ saved' = NoConfig
        /\ next_timer_id' = next_timer_id
    BY <1>10 DEF LoadFails, RollBack
  <2> QED BY <1>1, <2>1 DEF TimerInv, SameRuns
<1> QED BY <1>3, <1>4, <1>5, <1>6, <1>7, <1>8, <1>9, <1>10, QuietOr

(* A timer that fires is disarmed while its callback runs... *)
LEMMA TimerFiresSound ==
    ASSUME TypeInv, StackInv, IdsInv, TimerInv, NEW x \in tables.timers, TimerFires(x)
    PROVE  TimerInv'
<1> DEFINE y == Fired(x)
<1>0. tables.timers \in SUBSET TimerRecord /\ next_timer_id \in Nat \ {0}
  BY DEF TypeInv, Tables
<1>1. y.id = x.id /\ y.fired /\ y.interval = x.interval
  BY <1>0 DEF Fired, TimerRecord
<1>2. x.id \in Nat /\ x.ref \in Nat \cup {NoRef} /\ x.interval \in {0, 1}
  BY <1>0 DEF TimerRecord
<1>3. TimersOnly((tables.timers \ {x}) \cup {y})
  BY TimerFiresIs
<1>4. Idle /\ GuardedCall(x.ref, <<Invoke(x.id, x.ref, x.interval)>>)
  BY DEF TimerFires
<1> HIDE DEF y
<1>5. \A d, j : Runs(frames', d, j) <=> d = x.id /\ j = x.interval
  <2> DEFINE f == Invoke(x.id, x.ref, x.interval)
  <2>1. f \in TimerFrame /\ GuardedCall(x.ref, <<f>>)
    BY <1>2, <1>4, BeginIs
  <2>2. f.at = "invoke" /\ f.timer = x.id /\ f.interval = x.interval
    BY DEF Invoke
  <2> HIDE DEF f
  <2>3. \A d, j : Runs(frames', d, j) <=> d = f.timer /\ j = f.interval
    BY <2>1, <2>2, InvokeRuns
  <2> QED BY <2>2, <2>3
<1>6. saved' = NoConfig /\ \A id, i : ~ Runs(frames, id, i)
  <2>1. saved' = saved
    BY <1>3 DEF TimersOnly
  <2>2. saved = NoConfig
    BY <1>4, IdleIs
  <2> QED BY <1>4, <2>1, <2>2, IdleRuns
<1>7. TimerSound(y, frames')
  BY <1>1, <1>5 DEF TimerSound
<1>8. ASSUME NEW z \in tables.timers \ {x} PROVE TimerSound(z, frames')
  <2>1. z.id # x.id
    BY DEF IdsInv, TimerIdsNew
  <2>2. z.armed /\ (z.fired => z.interval > 0)
    BY <1>6 DEF TimerInv, TimerSound
  <2> QED BY <1>5, <2>1, <2>2 DEF TimerSound
<1>9. x.id < next_timer_id /\ next_timer_id' = next_timer_id
  BY <1>3 DEF IdsInv, TimerIdsNew, TimersOnly
<1>10. \A z \in tables'.timers : z = y \/ z \in tables.timers \ {x}
  BY <1>3 DEF TimersOnly
<1> QED BY <1>5, <1>6, <1>7, <1>8, <1>9, <1>10 DEF TimerInv

(* ... and armed again after it, unless it was for once. *)
LEMMA TrampolineEndSound ==
    ASSUME TypeInv, StackInv, TimerInv, TrampolineEnd PROVE TimerInv'
<1> DEFINE a(x) == [x EXCEPT !.armed = TRUE]
           mine == TimersIn(tables, Top.timer)
           again == IF Top.interval > 0 THEN {a(x) : x \in mine} ELSE {}
<1>0. ~ Idle /\ Top.at = "tramp" /\ frames' = Tail(frames)
  BY DEF TrampolineEnd
<1>1. /\ frames' = <<>> /\ saved = NoConfig
      /\ \A id, i : Runs(frames, id, i) <=> id = Top.timer /\ i = Top.interval
  BY <1>0, TrampIs
<1>2. \A id, i : ~ Runs(frames', id, i)
  BY <1>1 DEF Runs
<1>3. TimersOnly((tables.timers \ mine) \cup again)
  BY TrampolineEndIs
<1>4. tables.timers \in SUBSET TimerRecord
  BY DEF TypeInv, Tables
<1>5. \A x \in tables.timers : a(x).interval = x.interval /\ a(x).armed
  BY <1>4 DEF TimerRecord
<1>6. \A x \in mine : x \in tables.timers /\ x.id = Top.timer
  BY DEF TimersIn
<1>7. \A u \in again : Top.interval > 0 /\ \E x \in mine : u = a(x)
  OBVIOUS
<1>8. \A x \in tables.timers \ mine : x.id # Top.timer
  BY DEF TimersIn
<1> HIDE DEF a, mine, again
<1>9. ASSUME NEW x \in tables.timers \ mine PROVE TimerSound(x, frames')
  <2>1. x.armed /\ (x.fired => x.interval > 0)
    BY <1>1, <1>8 DEF TimerInv, TimerSound
  <2> QED BY <1>2, <2>1 DEF TimerSound
<1>10. ASSUME NEW u \in again PROVE TimerSound(u, frames')
  <2>1. PICK x \in mine : u = a(x) /\ Top.interval > 0
    BY <1>7
  <2>2. x.interval = Top.interval
    BY <1>1, <1>6 DEF TimerInv, TimerSound
  <2>3. u.armed /\ u.interval > 0
    BY <1>5, <1>6, <2>1, <2>2
  <2> QED BY <1>2, <2>3 DEF TimerSound
<1>11. saved' = NoConfig /\ \A u \in tables'.timers : u \in tables.timers \ mine \/ u \in again
  BY <1>1, <1>3 DEF TimersOnly
<1> QED BY <1>2, <1>9, <1>10, <1>11 DEF TimerInv

(* Every step keeps the timers sound. *)
LEMMA TimerStep ==
    ASSUME LuaInv, TimerInv, [Next]_vars PROVE TimerInv'
<1> USE DEF LuaInv
<1>1. ASSUME NEW x \in tables.timers, TimerFires(x) PROVE TimerInv'
  BY <1>1, TimerFiresSound
<1>2. CASE TrampolineEnd
  BY <1>2, TrampolineEndSound
<1>3. CASE /\ Idle /\ Quiet
           /\ \A id, i : Runs(frames', id, i) <=> id = 0 /\ i = 0
  <2>1. saved' = NoConfig /\ \A id, i : ~ Runs(frames, id, i)
    BY <1>3, IdleIs, IdleRuns DEF Quiet
  <2>2. ASSUME NEW x \in tables.timers PROVE TimerSound(x, frames')
    <3>1. x.id # 0
      BY DEF TypeInv, Tables, TimerRecord
    <3>2. x.armed /\ (x.fired => x.interval > 0)
      BY <2>1 DEF TimerInv, TimerSound
    <3> QED BY <1>3, <3>1, <3>2 DEF TimerSound
  <2>3. next_timer_id' = next_timer_id /\ 0 < next_timer_id
    BY <1>3 DEF Quiet, TypeInv
  <2> QED BY <1>3, <2>1, <2>2, <2>3 DEF TimerInv, Quiet
<1>4. CASE SameRuns(frames, frames') /\ ~ TrampolineEnd
           /\ \A x \in tables.timers : ~ TimerFires(x)
  BY <1>4, TimerSameRuns
<1> QED BY <1>1, <1>2, <1>3, <1>4, RunsBy

(* Timers are sound at all times. *)
LEMMA TimersAlways == Spec => [](LuaInv /\ TimerInv)
<1>1. Init => TimerInv
  <2> SUFFICES ASSUME Init PROVE TimerInv
    OBVIOUS
  <2>1. frames = <<Load>> /\ saved = NoConfig /\ tables.timers = {}
    BY DEF Init, EmptyTables
  <2>2. Load \in Frame /\ Load.at = "load"
    BY DEF Load, LoadFrame, Frame
  <2>3. \A id, i : ~ Runs(frames, id, i)
    BY <2>1, <2>2, OneRun
  <2> QED BY <2>1, <2>3 DEF TimerInv
<1>2. LuaInv /\ TimerInv /\ [Next]_vars => TimerInv'
  BY TimerStep
<1> QED BY <1>1, <1>2, LuaAlways, PTL DEF Spec

(* addTimer, timerTrampoline and removeTimer leave every timer of the table  *)
(* armed between callbacks, and no one-shot that fired: TimersArmed, for all *)
(* constants.                                                                *)
THEOREM TimersAlwaysArmed == Spec => []TimersArmed
<1>1. TimerInv => TimersArmed
  <2> SUFFICES ASSUME TimerInv, Idle, NEW x \in tables.timers
               PROVE  x.armed /\ (x.fired => x.interval > 0)
    BY DEF TimersArmed
  <2>1. \A i : ~ Runs(frames, x.id, i)
    BY IdleRuns
  <2> QED BY <2>1 DEF TimerInv, TimerSound
<1> QED BY <1>1, TimersAlways, PTL

GoesFired ==
    ~ Idle /\ Top.at = "tramp" =>
       \A x \in tables.timers : TimersIn(tables', x.id) = {} => x.fired

(* timerTrampoline erases a one-shot it finds only when that is the one that *)
(* fired, whatever the callback cancelled, armed or reloaded:                *)
(* TimersFireBeforeTheyGo, for all constants.                                *)
THEOREM TimersGoFired == Spec => TimersFireBeforeTheyGo
<1>1. LuaInv /\ TimerInv /\ [Next]_vars => [GoesFired]_vars
  <2> SUFFICES ASSUME LuaInv, TimerInv, Next, ~ Idle, Top.at = "tramp",
                      NEW x \in tables.timers, TimersIn(tables', x.id) = {}
               PROVE  x.fired
    BY DEF GoesFired
  <2>1. TrampolineEnd
    <3>1. ~ RcLua
      BY RcLuaKeeps DEF InLua
    <3>2. ~ EventLoop
      BY DEF EventLoop, Press, PressButton, Click, TimerFires, Happens, Plug, Unplug, Sighup
    <3> QED BY <3>1, <3>2 DEF Next, FireNext, FireEnd, CallEnd, InvokeEnd, LoadOk, LoadFails,
               RollBack
  <2>2. \A id, i : Runs(frames, id, i) <=> id = Top.timer /\ i = Top.interval
    BY TrampIs DEF LuaInv
  <2>3. x.id = Top.timer
    <3>1. SUFFICES ASSUME x.id # Top.timer PROVE FALSE
      OBVIOUS
    <3>2. x \in tables.timers \ TimersIn(tables, Top.timer)
      BY <3>1 DEF TimersIn
    <3>3. x \in tables'.timers
      BY <2>1, <3>2, TrampolineEndIs DEF TimersOnly, LuaInv
    <3> QED BY <3>3 DEF TimersIn
  <2> QED BY <2>2, <2>3 DEF TimerInv, TimerSound
<1> QED BY <1>1, TimersAlways, PTL DEF Spec, TimersFireBeforeTheyGo, GoesFired

-----------------------------------------------------------------------------
(* The registry: what luaL_ref and luaL_unref make of the slots.             *)
FreeListed(r) ==
    /\ \A n \in DOMAIN r.free : r.free[n] \in DOMAIN r.slots /\ At(r, r.free[n]) = Free
    /\ \A m, n \in DOMAIN r.free : r.free[m] = r.free[n] => m = n

(* luaL_ref fills a slot that was free and no other. *)
LEMMA RefAt ==
    ASSUME NEW r \in Registry, FreeListed(r), NEW o \in Owner, NEW q, q = Ref(r, o)
    PROVE  /\ At(r, Slot(r)) = Free /\ At(q, Slot(r)) = o
           /\ \A n : n # Slot(r) => At(q, n) = At(r, n)
           /\ FreeListed(q)
<1> DEFINE f == r.free
           s == r.slots
<1>1. s \in Seq(Owner) /\ f \in Seq(Nat)
  BY DEF Registry
<1>2. /\ DOMAIN s = 1..Len(s) /\ Len(s) \in Nat
      /\ DOMAIN f = 1..Len(f) /\ Len(f) \in Nat
  BY <1>1, LenProperties
<1>3. CASE f = <<>>
  <2> DEFINE more == Append(s, o)
  <2>1. /\ more \in Seq(Owner) /\ Len(more) = Len(s) + 1
        /\ more[Len(s) + 1] = o /\ \A n \in 1..Len(s) : more[n] = s[n]
    BY <1>1, AppendProperties
  <2>2. DOMAIN more = 1..(Len(s) + 1)
    BY <2>1, LenProperties
  <2>3. q = [r EXCEPT !.slots = more] /\ Slot(r) = Len(s) + 1
    BY <1>3 DEF Ref, Slot
  <2> HIDE DEF more
  <2>4. q.slots = more /\ q.free = <<>>
    BY <1>3, <2>3 DEF Registry
  <2>5. FreeListed(q)
    BY <2>4 DEF FreeListed
  <2>6. At(r, Slot(r)) = Free /\ At(q, Slot(r)) = o
    BY <1>2, <2>1, <2>2, <2>3, <2>4 DEF At
  <2>7. ASSUME NEW n, n # Slot(r) PROVE At(q, n) = At(r, n)
    <3>1. n \in DOMAIN more <=> n \in DOMAIN s
      BY <1>2, <2>2, <2>3, <2>7
    <3> QED BY <1>2, <2>1, <2>4, <3>1 DEF At
  <2> QED BY <2>5, <2>6, <2>7
<1>4. CASE f # <<>>
  <2> DEFINE k == Head(f)
             put == [s EXCEPT ![k] = o]
             left == Tail(f)
  <2>1. k = f[1] /\ 1 \in DOMAIN f
    BY <1>1, <1>2, <1>4, HeadTailProperties, EmptySeq
  <2>2. k \in DOMAIN s /\ At(r, k) = Free
    BY <2>1 DEF FreeListed
  <2>3. /\ left \in Seq(Nat)
        /\ \A n \in 1..Len(left) : n + 1 \in 2..Len(f) /\ left[n] = f[n + 1]
    BY <1>1, <1>4, Popped
  <2>4. DOMAIN left = 1..Len(left) /\ Len(left) \in Nat
    BY <2>3, LenProperties
  <2>5. q = [slots |-> put, free |-> left] /\ Slot(r) = k
    BY <1>4 DEF Ref, Slot
  <2>6. DOMAIN put = DOMAIN s /\ put[k] = o /\ \A n \in DOMAIN s : n # k => put[n] = s[n]
    BY <2>2
  <2> HIDE DEF k, put, left
  <2>7. q.slots = put /\ q.free = left
    BY <2>5
  <2>8. At(q, k) = o /\ \A n : n # k => At(q, n) = At(r, n)
    BY <2>2, <2>6, <2>7 DEF At
  <2>9. ASSUME NEW n \in DOMAIN left
        PROVE  /\ left[n] \in DOMAIN put /\ At(q, left[n]) = Free
               /\ \A m \in DOMAIN left : left[m] = left[n] => m = n
    <3>1. n + 1 \in DOMAIN f /\ left[n] = f[n + 1] /\ n + 1 # 1 /\ n \in Nat
      BY <1>2, <2>3, <2>4
    <3>2. left[n] # k /\ left[n] \in DOMAIN s /\ At(r, left[n]) = Free
      BY <2>1, <3>1 DEF FreeListed
    <3>3. ASSUME NEW m \in DOMAIN left, left[m] = left[n] PROVE m = n
      <4>1. m + 1 \in DOMAIN f /\ left[m] = f[m + 1] /\ m \in Nat
        BY <1>2, <2>3, <2>4
      <4>2. m + 1 = n + 1
        BY <3>1, <3>3, <4>1 DEF FreeListed
      <4> QED BY <3>1, <4>1, <4>2
    <3> QED BY <2>6, <2>8, <3>2, <3>3
  <2>10. FreeListed(q)
    BY <2>7, <2>9 DEF FreeListed
  <2> QED BY <2>2, <2>5, <2>8, <2>10
<1> QED BY <1>3, <1>4

(* luaL_unref frees one slot and no other. *)
LEMMA UnrefAt ==
    ASSUME NEW r \in Registry, FreeListed(r), NEW k \in Nat, At(r, k) # Free,
           NEW q, q = Unref(r, k)
    PROVE  /\ \A n : n # k => At(q, n) = At(r, n)
           /\ FreeListed(q)
<1> DEFINE f == r.free
           s == r.slots
           put == [n \in DOMAIN s |-> IF n = k THEN Free ELSE s[n]]
           more == <<k>> \o f
<1>1. s \in Seq(Owner) /\ f \in Seq(Nat)
  BY DEF Registry
<1>2. DOMAIN f = 1..Len(f) /\ Len(f) \in Nat
  BY <1>1, LenProperties
<1>3. /\ more \in Seq(Nat) /\ Len(more) = Len(f) + 1 /\ more[1] = k
      /\ \A n \in 2..Len(more) : n - 1 \in 1..Len(f) /\ more[n] = f[n - 1]
  BY <1>1, Pushed
<1>4. DOMAIN more = 1..Len(more)
  BY <1>3, LenProperties
<1>5. q = [slots |-> put, free |-> more]
  BY DEF Unref
<1>6. DOMAIN put = DOMAIN s /\ \A n \in DOMAIN s : put[n] = IF n = k THEN Free ELSE s[n]
  OBVIOUS
<1>7. k \in DOMAIN s
  BY DEF At
<1> HIDE DEF put, more
<1>8. q.slots = put /\ q.free = more
  BY <1>5
<1>9. At(q, k) = Free /\ \A n : n # k => At(q, n) = At(r, n)
  BY <1>6, <1>7, <1>8 DEF At
<1>10. ASSUME NEW n \in DOMAIN more, n # 1
       PROVE  /\ more[n] \in DOMAIN put /\ At(q, more[n]) = Free /\ more[n] # k
              /\ n - 1 \in DOMAIN f /\ more[n] = f[n - 1]
  <2>1. n - 1 \in DOMAIN f /\ more[n] = f[n - 1]
    BY <1>2, <1>3, <1>4, <1>10
  <2>2. more[n] \in DOMAIN s /\ At(r, more[n]) = Free
    BY <2>1 DEF FreeListed
  <2>3. more[n] # k
    BY <2>2
  <2> QED BY <1>6, <1>9, <2>1, <2>2, <2>3
<1>11. ASSUME NEW n \in DOMAIN more
       PROVE  more[n] \in DOMAIN put /\ At(q, more[n]) = Free
  BY <1>3, <1>6, <1>7, <1>9, <1>10
<1>12. ASSUME NEW m \in DOMAIN more, NEW n \in DOMAIN more, more[m] = more[n]
       PROVE  m = n
  <2>1. m = 1 <=> n = 1
    BY <1>3, <1>10, <1>12
  <2>2. CASE m # 1 /\ n # 1
    <3>1. m - 1 \in DOMAIN f /\ n - 1 \in DOMAIN f /\ f[m - 1] = f[n - 1]
      BY <1>10, <1>12, <2>2
    <3>2. m - 1 = n - 1
      BY <3>1 DEF FreeListed
    <3> QED BY <1>2, <1>3, <1>4, <3>2
  <2> QED BY <2>1, <2>2
<1>13. FreeListed(q)
  BY <1>8, <1>11, <1>12 DEF FreeListed
<1> QED BY <1>9, <1>13

(* Who has a function, and in which slot: what rc.lua bound, hooked and      *)
(* timed, and the bars and windows that take clicks.                         *)
Holds(t, n, o) ==
    \/ \E i \in DOMAIN t.keybinds : n = t.keybinds[i].ref /\ o = <<"key", i>>
    \/ \E i \in DOMAIN t.mousebinds : n = t.mousebinds[i].ref /\ o = <<"button", i>>
    \/ \E h \in t.hooks : n = h.ref /\ o = <<"hook", h.id>>
    \/ \E x \in t.timers : n = x.ref /\ o = <<"timer", x.id>>

Clicked(ps, n, o) == \E b \in Panel : n = ps[b].ref /\ n # NoRef /\ o = <<"panel", b>>

Owned(r, t, ps) ==
    /\ FreeListed(r)
    /\ \A n, o : Holds(t, n, o) \/ Clicked(ps, n, o) => At(r, n) = o

(* Nobody holds a free slot. *)
LEMMA OwnersNotFree ==
    ASSUME NEW t, NEW ps, NEW n, NEW o, Holds(t, n, o) \/ Clicked(ps, n, o) PROVE o # Free
BY DEF Holds, Clicked, Free

(* What takes a new reference owns it, with what owned the others. *)
LEMMA OwnedRef ==
    ASSUME NEW r \in Registry, NEW w \in Owner, NEW t, NEW ps, Owned(r, t, ps),
           NEW u, NEW qs,
           \A n, o : Holds(u, n, o) \/ Clicked(qs, n, o)
                     => Holds(t, n, o) \/ Clicked(ps, n, o) \/ (n = Slot(r) /\ o = w)
    PROVE  Owned(Ref(r, w), u, qs)
<1> DEFINE q == Ref(r, w)
<1>1. /\ At(r, Slot(r)) = Free /\ At(q, Slot(r)) = w
      /\ \A n : n # Slot(r) => At(q, n) = At(r, n)
      /\ FreeListed(q)
  BY RefAt DEF Owned
<1> HIDE DEF q
<1>2. ASSUME NEW n, NEW o, Holds(u, n, o) \/ Clicked(qs, n, o) PROVE At(q, n) = o
  <2>1. CASE Holds(t, n, o) \/ Clicked(ps, n, o)
    <3>1. At(r, n) = o /\ o # Free
      BY <2>1, OwnersNotFree DEF Owned
    <3> QED BY <1>1, <3>1
  <2>2. CASE n = Slot(r) /\ o = w
    BY <1>1, <2>2
  <2> QED BY <1>2, <2>1, <2>2
<1> QED BY <1>1, <1>2 DEF Owned, q

(* What gives up the only reference to a slot may free it. *)
LEMMA OwnedUnref ==
    ASSUME NEW r \in Registry, NEW k \in Nat, NEW w, w # Free, At(r, k) = w,
           NEW t, NEW ps, Owned(r, t, ps), NEW u, NEW qs,
           \A n, o : Holds(u, n, o) \/ Clicked(qs, n, o)
                     => (Holds(t, n, o) \/ Clicked(ps, n, o)) /\ o # w
    PROVE  Owned(Unref(r, k), u, qs)
<1> DEFINE q == Unref(r, k)
<1>1. (\A n : n # k => At(q, n) = At(r, n)) /\ FreeListed(q)
  BY UnrefAt DEF Owned
<1> HIDE DEF q
<1>2. ASSUME NEW n, NEW o, Holds(u, n, o) \/ Clicked(qs, n, o) PROVE At(q, n) = o
  <2>1. At(r, n) = o /\ o # w
    BY <1>2 DEF Owned
  <2> QED BY <1>1, <2>1
<1> QED BY <1>1, <1>2 DEF Owned, q

(* What a session uses: nothing is clicked without bars, and nothing put     *)
(* aside without reloads.                                                    *)
UsesInv ==
    /\ saved # NoConfig \/ reload_pending => "reload" \in session
    /\ "bar" \notin session => \A b \in Panel : panels[b].ref = NoRef

(* What a session does is fixed at its start. *)
LEMMA SessionKept == ASSUME [Next]_vars PROVE session' = session
<1>1. RcLua => session' = session
  BY RcLuaKeeps
<1>2. EventLoop => session' = session
  BY DEF EventLoop, Press, PressButton, Click, TimerFires, Happens, Plug, Unplug, Sighup,
         world
<1> QED BY <1>1, <1>2 DEF Next, FireNext, FireEnd, CallEnd, InvokeEnd, TrampolineEnd, LoadOk,
           LoadFails, RollBack, world, vars

(* A session without bars makes no bar, one without reloads no reload. *)
LEMMA UsesStep == ASSUME TypeInv, UsesInv, [Next]_vars PROVE UsesInv'
<1>0. panels \in [Panel -> PanelRecord]
  BY DEF TypeInv
<1>1. session' = session
  BY SessionKept
<1>2. reload_pending' = TRUE => reload_pending = TRUE \/ "reload" \in session
  <2>1. RcLua => reload_pending' = reload_pending \/ "reload" \in session
    BY RcLuaKeeps
  <2>2. EventLoop => reload_pending' = reload_pending
    BY DEF EventLoop, Press, PressButton, Click, TimerFires, Happens, Plug, Unplug, Sighup
  <2>3. InvokeEnd => reload_pending' = reload_pending \/ reload_pending' = FALSE
    BY DEF InvokeEnd
  <2> QED BY <2>1, <2>2, <2>3 DEF Next, FireNext, FireEnd, CallEnd, TrampolineEnd, LoadOk,
             LoadFails, RollBack, vars
<1>3. saved' # NoConfig => saved # NoConfig \/ "reload" \in session
  <2>1. RcLua => saved' = saved
    BY RcLuaKeeps
  <2>2. EventLoop => saved' = saved \/ "reload" \in session
    BY DEF EventLoop, Press, PressButton, Click, TimerFires, Happens, Plug, Unplug, Sighup
  <2>3. InvokeEnd => saved' = saved \/ "reload" \in session
    BY DEF InvokeEnd, UsesInv
  <2> QED BY <2>1, <2>2, <2>3 DEF Next, FireNext, FireEnd, CallEnd, TrampolineEnd, LoadOk,
             LoadFails, RollBack, vars
<1>4. ASSUME "bar" \notin session, NEW b \in Panel PROVE panels'[b].ref = NoRef
  <2>0. \A c \in Panel : panels[c].ref = NoRef
    BY <1>4 DEF UsesInv
  <2>1. CASE Quiet
    BY <2>0, <2>1 DEF Quiet
  <2>2. ASSUME NEW c, OnClick(c) \/ Destroy(c) PROVE FALSE
    BY <1>4, <2>2 DEF OnClick, Destroy, May
  <2>3. CASE Reloading \/ TrampolineEnd \/ LoadFails
    BY <2>0, <2>3 DEF Reloading, TrampolineEnd, LoadFails, RollBack
  <2>4. ASSUME NEW x, \/ LBind(x) \/ LMousebind(x) \/ LHook(x) \/ LUnhook(x) \/ LCancel(x)
                      \/ NewTimer(x) \/ TimerFires(x)
        PROVE  panels' = panels
    BY <2>4 DEF LBind, LMousebind, LHook, LUnhook, LCancel, NewTimer, TimerFires
  <2> QED BY <2>0, <2>1, <2>2, <2>3, <2>4, QuietOr
<1>5. reload_pending \in BOOLEAN /\ reload_pending' \in BOOLEAN
  BY ShapeStep, Zenon DEF TypeInv
<1>6. saved' # NoConfig \/ reload_pending' => "reload" \in session
  BY <1>2, <1>3, <1>5 DEF UsesInv
<1> QED BY <1>1, <1>4, <1>6 DEF UsesInv

(* A bar whose click callback survived a reload names a slot of the old Lua  *)
(* state; apart from sessions with both, every slot is its owner's.          *)
Apart == ~ ({"bar", "reload"} \subseteq session)

NoPanels == [b \in Panel |-> NotYet]

SameRest(t, u) == u.hooks = t.hooks /\ u.timers = t.timers

OwnInv ==
    /\ Owned(registry, tables, panels)
    /\ saved # NoConfig => Owned(saved.registry, saved.tables, NoPanels)

(* Owned as a whole, the slots of the tables are. *)
LEMMA OwnedWhole ==
    ASSUME NEW r, NEW t, NEW ps, Owned(r, t, ps) PROVE OwnSlots(r, t)
<1>1. FreeListed(r) /\ \A n, o : Holds(t, n, o) => At(r, n) = o
  BY DEF Owned
<1>2. \A i \in DOMAIN t.keybinds : At(r, t.keybinds[i].ref) = <<"key", i>>
  BY <1>1 DEF Holds
<1>3. \A i \in DOMAIN t.mousebinds : At(r, t.mousebinds[i].ref) = <<"button", i>>
  BY <1>1 DEF Holds
<1>4. \A h \in t.hooks : At(r, h.ref) = <<"hook", h.id>>
  BY <1>1 DEF Holds
<1>5. \A x \in t.timers : At(r, x.ref) = <<"timer", x.id>>
  BY <1>1 DEF Holds
<1> QED BY <1>1, <1>2, <1>3, <1>4, <1>5 DEF OwnSlots, FreeListed

(* One registered function more.                                             *)
LEMMA OwnBind ==
    ASSUME LuaInv, OwnInv, NEW k, LBind(k) \/ LMousebind(k) PROVE OwnInv'
<1>0. /\ registry \in Registry /\ tables \in Tables
      /\ tables.keybinds \in Seq([key : Key, ref : Nat])
      /\ tables.mousebinds \in Seq([button : Button, ref : Nat])
  BY DEF LuaInv, TypeInv, Tables
<1>1. CASE LBind(k)
  <2> DEFINE x == [key |-> k, ref |-> Slot(registry)]
             kb == tables.keybinds
             more == Append(kb, x)
             w == <<"key", Len(kb) + 1>>
  <2>1. x.ref = Slot(registry)
    OBVIOUS
  <2>2. /\ tables' = [tables EXCEPT !.keybinds = more] /\ registry' = Ref(registry, w)
        /\ UNCHANGED <<panels, saved>>
    BY <1>1 DEF LBind
  <2>3. DOMAIN kb = 1..Len(kb) /\ Len(kb) \in Nat
    BY <1>0, LenProperties
  <2>4. w \in Owner
    BY <2>3 DEF Owner
  <2>5. ASSUME NEW i \in DOMAIN more
        PROVE  (i \in DOMAIN kb /\ more[i] = kb[i]) \/ (i = Len(kb) + 1 /\ more[i] = x)
    <3>1. DOMAIN more = 1..(Len(kb) + 1) /\ more[Len(kb) + 1] = x
          /\ \A j \in 1..Len(kb) : more[j] = kb[j]
      OBVIOUS
    <3> QED BY <2>3, <2>5, <3>1
  <2>6. SameRest(tables, tables') /\ tables'.keybinds = more /\ tables'.mousebinds = tables.mousebinds
    BY <1>0, <2>2 DEF Tables, SameRest
  <2> HIDE DEF x, more
  <2>7. \A n, o : Holds(tables', n, o) => Holds(tables, n, o) \/ (n = Slot(registry) /\ o = w)
    BY <2>1, <2>5, <2>6 DEF Holds, SameRest
  <2> HIDE DEF w
  <2>8. Owned(registry', tables', panels')
    BY <1>0, <2>2, <2>4, <2>7, OwnedRef DEF OwnInv
  <2> QED BY <2>2, <2>8 DEF OwnInv
<1>2. CASE LMousebind(k)
  <2> DEFINE x == [button |-> k, ref |-> Slot(registry)]
             mb == tables.mousebinds
             more == Append(mb, x)
             w == <<"button", Len(mb) + 1>>
  <2>1. x.ref = Slot(registry)
    OBVIOUS
  <2>2. /\ tables' = [tables EXCEPT !.mousebinds = more] /\ registry' = Ref(registry, w)
        /\ UNCHANGED <<panels, saved>>
    BY <1>2 DEF LMousebind
  <2>3. DOMAIN mb = 1..Len(mb) /\ Len(mb) \in Nat
    BY <1>0, LenProperties
  <2>4. w \in Owner
    BY <2>3 DEF Owner
  <2>5. ASSUME NEW i \in DOMAIN more
        PROVE  (i \in DOMAIN mb /\ more[i] = mb[i]) \/ (i = Len(mb) + 1 /\ more[i] = x)
    <3>1. DOMAIN more = 1..(Len(mb) + 1) /\ more[Len(mb) + 1] = x
          /\ \A j \in 1..Len(mb) : more[j] = mb[j]
      OBVIOUS
    <3> QED BY <2>3, <2>5, <3>1
  <2>6. SameRest(tables, tables') /\ tables'.mousebinds = more /\ tables'.keybinds = tables.keybinds
    BY <1>0, <2>2 DEF Tables, SameRest
  <2> HIDE DEF x, more
  <2>7. \A n, o : Holds(tables', n, o) => Holds(tables, n, o) \/ (n = Slot(registry) /\ o = w)
    BY <2>1, <2>5, <2>6 DEF Holds, SameRest
  <2> HIDE DEF w
  <2>8. Owned(registry', tables', panels')
    BY <1>0, <2>2, <2>4, <2>7, OwnedRef DEF OwnInv
  <2> QED BY <2>2, <2>8 DEF OwnInv
<1> QED BY <1>1, <1>2

(* A hook or a timer that is registered owns its slot. *)
LEMMA OwnMore ==
    ASSUME LuaInv, OwnInv, \/ \E e : LHook(e)
                           \/ \E interval \in {0, 1} : NewTimer(interval)
    PROVE  OwnInv'
<1>0. registry \in Registry /\ tables \in Tables /\ next_timer_id \in Nat \ {0}
      /\ tables.next_hook_id \in Nat
  BY DEF LuaInv, TypeInv, Tables
<1>1. ASSUME NEW e, LHook(e) PROVE OwnInv'
  <2> DEFINE h == [id |-> tables.next_hook_id, event |-> e, ref |-> Slot(registry)]
             w == <<"hook", tables.next_hook_id>>
  <2>1. h.id = tables.next_hook_id /\ h.ref = Slot(registry)
    OBVIOUS
  <2>2. /\ tables' = [tables EXCEPT !.hooks = tables.hooks \cup {h},
                                    !.next_hook_id = tables.next_hook_id + 1]
        /\ registry' = Ref(registry, w) /\ UNCHANGED <<panels, saved>>
    BY <1>1 DEF LHook, AddHook
  <2> HIDE DEF h
  <2>3. /\ tables'.keybinds = tables.keybinds /\ tables'.mousebinds = tables.mousebinds
        /\ tables'.hooks = tables.hooks \cup {h} /\ tables'.timers = tables.timers
    BY <1>0, <2>2 DEF Tables
  <2>4. w \in Owner
    BY <1>0 DEF Owner
  <2>5. \A n, o : Holds(tables', n, o) => Holds(tables, n, o) \/ (n = Slot(registry) /\ o = w)
    BY <2>1, <2>3 DEF Holds
  <2> HIDE DEF w
  <2>6. Owned(registry', tables', panels')
    BY <1>0, <2>2, <2>4, <2>5, OwnedRef DEF OwnInv
  <2> QED BY <2>2, <2>6 DEF OwnInv
<1>2. ASSUME NEW interval \in {0, 1}, NewTimer(interval) PROVE OwnInv'
  <2> DEFINE x == [id |-> next_timer_id, ref |-> Slot(registry), interval |-> interval,
                   armed |-> TRUE, fired |-> FALSE]
             w == <<"timer", next_timer_id>>
  <2>1. x.id = next_timer_id /\ x.ref = Slot(registry)
    OBVIOUS
  <2>2. /\ tables' = [tables EXCEPT !.timers = tables.timers \cup {x}]
        /\ registry' = Ref(registry, w) /\ UNCHANGED <<panels, saved>>
    BY <1>2 DEF NewTimer, AddTimer
  <2> HIDE DEF x
  <2>3. /\ tables'.keybinds = tables.keybinds /\ tables'.mousebinds = tables.mousebinds
        /\ tables'.hooks = tables.hooks /\ tables'.timers = tables.timers \cup {x}
    BY <1>0, <2>2 DEF Tables
  <2>4. w \in Owner
    BY <1>0 DEF Owner
  <2>5. \A n, o : Holds(tables', n, o) => Holds(tables, n, o) \/ (n = Slot(registry) /\ o = w)
    BY <2>1, <2>3 DEF Holds
  <2> HIDE DEF w
  <2>6. Owned(registry', tables', panels')
    BY <1>0, <2>2, <2>4, <2>5, OwnedRef DEF OwnInv
  <2> QED BY <2>2, <2>6 DEF OwnInv
<1> QED BY <1>1, <1>2

(* One less: unhooked or cancelled.                                          *)
LEMMA OwnLess ==
    ASSUME LuaInv, OwnInv, \/ \E h \in tables.hooks : LUnhook(h)
                           \/ \E x \in tables.timers : LCancel(x)
    PROVE  OwnInv'
<1>0. registry \in Registry /\ tables \in Tables
  BY DEF LuaInv, TypeInv
<1>1. ASSUME NEW h \in tables.hooks, LUnhook(h) PROVE OwnInv'
  <2> DEFINE w == <<"hook", h.id>>
  <2>1. /\ tables' = [tables EXCEPT !.hooks = tables.hooks \ {h}]
        /\ registry' = Unref(registry, h.ref) /\ UNCHANGED <<panels, saved>>
    BY <1>1 DEF LUnhook, RemoveHook
  <2>2. /\ tables'.keybinds = tables.keybinds /\ tables'.mousebinds = tables.mousebinds
        /\ tables'.hooks = tables.hooks \ {h} /\ tables'.timers = tables.timers
    BY <1>0, <2>1 DEF Tables
  <2>3. h.ref \in Nat
    BY <1>0 DEF Tables, HookRecord
  <2>4. w # Free /\ At(registry, h.ref) = w
    <3>1. Holds(tables, h.ref, w)
      BY DEF Holds
    <3> QED BY <3>1 DEF OwnInv, Owned, Free
  <2>5. \A g \in tables.hooks \ {h} : g.id # h.id
    BY DEF LuaInv, IdsInv, HookIdsNew
  <2>6. ASSUME NEW n, NEW o, Holds(tables', n, o)
        PROVE  Holds(tables, n, o) /\ o # w
    BY <2>2, <2>5, <2>6 DEF Holds
  <2>7. ASSUME NEW n, NEW o, Clicked(panels, n, o) PROVE o # w
    BY <2>7 DEF Clicked
  <2> HIDE DEF w
  <2>8. Owned(Unref(registry, h.ref), tables', panels)
    BY <1>0, <2>3, <2>4, <2>6, <2>7, OwnedUnref DEF OwnInv
  <2> QED BY <2>1, <2>8 DEF OwnInv
<1>2. ASSUME NEW x \in tables.timers, LCancel(x) PROVE OwnInv'
  <2> DEFINE w == <<"timer", x.id>>
  <2>1. /\ tables' = [tables EXCEPT !.timers = tables.timers \ {x}]
        /\ registry' = Unref(registry, x.ref) /\ UNCHANGED <<panels, saved>>
    BY <1>2 DEF LCancel
  <2>2. /\ tables'.keybinds = tables.keybinds /\ tables'.mousebinds = tables.mousebinds
        /\ tables'.hooks = tables.hooks /\ tables'.timers = tables.timers \ {x}
    BY <1>0, <2>1 DEF Tables
  <2>3. x.ref \in Nat
    BY <1>0 DEF Tables, TimerRecord
  <2>4. w # Free /\ At(registry, x.ref) = w
    <3>1. Holds(tables, x.ref, w)
      BY DEF Holds
    <3> QED BY <3>1 DEF OwnInv, Owned, Free
  <2>5. \A y \in tables.timers \ {x} : y.id # x.id
    BY DEF LuaInv, IdsInv, TimerIdsNew
  <2>6. ASSUME NEW n, NEW o, Holds(tables', n, o)
        PROVE  Holds(tables, n, o) /\ o # w
    BY <2>2, <2>5, <2>6 DEF Holds
  <2>7. ASSUME NEW n, NEW o, Clicked(panels, n, o) PROVE o # w
    BY <2>7 DEF Clicked
  <2> HIDE DEF w
  <2>8. Owned(Unref(registry, x.ref), tables', panels)
    BY <1>0, <2>3, <2>4, <2>6, <2>7, OwnedUnref DEF OwnInv
  <2> QED BY <2>1, <2>8 DEF OwnInv
<1> QED BY <1>1, <1>2

(* A bar takes clicks with another function, or is destroyed.                *)
LEMMA OwnPanel ==
    ASSUME LuaInv, OwnInv, NEW b \in Panel, OnClick(b) \/ Destroy(b) PROVE OwnInv'
<1> DEFINE w == <<"panel", b>>
           left == [panels EXCEPT ![b] = NotYet]
           r == Released(b)
<1>0. registry \in Registry /\ panels \in [Panel -> PanelRecord] /\ NotYet.ref = NoRef
  BY DEF LuaInv, TypeInv, NotYet
<1>1. w \in Owner /\ w # Free
  BY DEF Owner, Free
<1>2. left[b].ref = NoRef /\ \A a \in Panel : a # b => left[a] = panels[a]
  BY <1>0
<1> HIDE DEF left
<1>3. ASSUME NEW n, NEW o, Clicked(left, n, o) PROVE Clicked(panels, n, o) /\ o # w
  BY <1>2, <1>3 DEF Clicked
<1>4. ASSUME NEW n, NEW o, Holds(tables, n, o) PROVE o # w
  BY <1>4 DEF Holds
<1> HIDE DEF w
<1>5. r \in Registry /\ Owned(r, tables, left)
  <2>1. CASE panels[b].ref = NoRef
    <3>1. \A n, o : Clicked(left, n, o) => Clicked(panels, n, o)
      BY <1>3
    <3>2. r = registry
      BY <2>1 DEF Released
    <3> QED BY <1>0, <3>1, <3>2 DEF OwnInv, Owned
  <2>2. CASE panels[b].ref # NoRef
    <3>1. panels[b] \in PanelRecord
      BY <1>0
    <3>2. panels[b].ref \in Nat
      BY <2>2, <3>1 DEF PanelRecord
    <3>3. Clicked(panels, panels[b].ref, w)
      BY <2>2 DEF Clicked, w
    <3>4. At(registry, panels[b].ref) = w
      BY <3>3 DEF OwnInv, Owned
    <3>5. Owned(Unref(registry, panels[b].ref), tables, left)
      BY <1>0, <1>1, <1>3, <1>4, <3>2, <3>4, OwnedUnref DEF OwnInv
    <3>6. r = Unref(registry, panels[b].ref)
      BY <2>2 DEF Released
    <3> QED BY <1>0, <3>2, <3>5, <3>6, UnrefShape
  <2> QED BY <2>1, <2>2
<1> HIDE DEF r
<1>6. CASE OnClick(b)
  <2>1. /\ registry' = Ref(r, w) /\ panels' = [panels EXCEPT ![b].ref = Slot(r)]
        /\ UNCHANGED <<tables, saved>>
    BY <1>6 DEF OnClick, r, w
  <2>2. \A a \in Panel : IF a = b THEN panels'[a].ref = Slot(r) ELSE panels'[a] = left[a]
    BY <1>0, <1>2, <2>1 DEF PanelRecord
  <2>3. \A n, o : Clicked(panels', n, o) => Clicked(left, n, o) \/ (n = Slot(r) /\ o = w)
    BY <2>2 DEF Clicked, w
  <2>4. Owned(registry', tables', panels')
    BY <1>1, <1>5, <2>1, <2>3, OwnedRef
  <2> QED BY <2>1, <2>4 DEF OwnInv
<1>7. CASE Destroy(b)
  <2>1. /\ registry' = r /\ panels' = [panels EXCEPT ![b] = Gone]
        /\ UNCHANGED <<tables, saved>>
    BY <1>7 DEF Destroy, r
  <2>2. Gone.ref = NoRef
    BY <1>0 DEF Gone, NotYet
  <2>3. \A a \in Panel : panels'[a].ref = left[a].ref
    BY <1>0, <1>2, <2>1, <2>2
  <2>4. \A n, o : Clicked(panels', n, o) => Clicked(left, n, o)
    BY <2>3 DEF Clicked
  <2>5. Owned(registry', tables', panels')
    BY <1>5, <2>1, <2>4 DEF Owned
  <2> QED BY <2>1, <2>5 DEF OwnInv
<1> QED BY <1>6, <1>7

(* What is registered stays with who has it.                                 *)
LEMMA OwnedFewer ==
    ASSUME NEW r, NEW t, NEW ps, Owned(r, t, ps), NEW u, NEW qs,
           u.keybinds = t.keybinds, u.mousebinds = t.mousebinds, u.hooks = t.hooks,
           \A y \in u.timers : \E x \in t.timers : y.id = x.id /\ y.ref = x.ref,
           \A b \in Panel : qs[b].ref = ps[b].ref
    PROVE  Owned(r, u, qs)
<1>1. ASSUME NEW n, NEW o, Holds(u, n, o) PROVE Holds(t, n, o)
  BY <1>1 DEF Holds
<1>2. ASSUME NEW n, NEW o, Clicked(qs, n, o) PROVE Clicked(ps, n, o)
  BY <1>2 DEF Clicked
<1> QED BY <1>1, <1>2 DEF Owned

(* A quiet step, and a timer that fires or ends, keep the owners. *)
LEMMA OwnQuiet ==
    ASSUME LuaInv, OwnInv, \/ Quiet
                           \/ \E x \in tables.timers : TimerFires(x)
                           \/ TrampolineEnd
    PROVE  OwnInv'
<1>0. tables.timers \subseteq TimerRecord
  BY DEF LuaInv, TypeInv, Tables
<1>1. CASE Quiet
  <2>1. Owned(registry', tables', panels')
    BY <1>1, OwnedFewer DEF Quiet, SameOwners, OwnInv
  <2> QED BY <1>1, <2>1 DEF Quiet, OwnInv
<1>2. ASSUME NEW ts, TimersOnly(ts),
             \A y \in ts : \E x \in tables.timers : y.id = x.id /\ y.ref = x.ref
      PROVE  OwnInv'
  <2>1. Owned(registry', tables', panels')
    BY <1>2, OwnedFewer DEF TimersOnly, SameOwners, OwnInv
  <2> QED BY <1>2, <2>1 DEF TimersOnly, OwnInv
<1>3. ASSUME NEW x \in tables.timers, TimerFires(x) PROVE OwnInv'
  <2> DEFINE ts == (tables.timers \ {x}) \cup {Fired(x)}
  <2>1. TimersOnly(ts)
    BY <1>3, TimerFiresIs DEF LuaInv
  <2>2. Fired(x).id = x.id /\ Fired(x).ref = x.ref
    BY <1>0 DEF Fired, TimerRecord
  <2>3. \A y \in ts : \E z \in tables.timers : y.id = z.id /\ y.ref = z.ref
    BY <2>2
  <2> HIDE DEF ts
  <2> QED BY <1>2, <2>1, <2>3
<1>4. CASE TrampolineEnd
  <2> DEFINE mine == TimersIn(tables, Top.timer)
             again == {[x EXCEPT !.armed = TRUE] : x \in mine}
             ts == (tables.timers \ mine) \cup IF Top.interval > 0 THEN again ELSE {}
  <2>1. TimersOnly(ts)
    BY <1>4, TrampolineEndIs DEF LuaInv
  <2>2. ASSUME NEW y \in again
        PROVE  \E z \in tables.timers : y.id = z.id /\ y.ref = z.ref
    BY <1>0 DEF TimerRecord, TimersIn
  <2>3. \A y \in ts : \E z \in tables.timers : y.id = z.id /\ y.ref = z.ref
    BY <2>2
  <2> HIDE DEF ts
  <2> QED BY <1>2, <2>1, <2>3
<1> QED BY <1>1, <1>3, <1>4

(* A reload begins with nothing registered, and puts the rest aside.         *)
LEMMA OwnReload ==
    ASSUME LuaInv, OwnInv, UsesInv, UsesInv', Apart, Reloading \/ LoadFails PROVE OwnInv'
<1>0. /\ saved # NoConfig \/ saved' # NoConfig
      /\ UNCHANGED <<session, panels>>
  <2>1. Reloading => saved'.registry = registry /\ registry \in Registry /\ UNCHANGED <<session, panels>>
    BY ReloadingIs DEF LuaInv, TypeInv
  <2>2. ASSUME saved' = NoConfig, saved'.registry \in Registry PROVE FALSE
    <3>1. NoConfig.registry = <<>>
      BY DEF NoConfig
    <3>2. DOMAIN saved'.registry = {"slots", "free"}
      BY <2>2 DEF Registry
    <3>3. DOMAIN saved'.registry = {}
      BY <2>2, <3>1
    <3> QED BY <3>2, <3>3
  <2> QED BY <2>1, <2>2 DEF LoadFails, RollBack
<1>1. "reload" \in session /\ "bar" \notin session
  BY <1>0 DEF UsesInv, Apart
<1>2. \A b \in Panel : panels[b].ref = NoRef /\ NoPanels[b].ref = NoRef
  BY <1>1 DEF UsesInv, NoPanels, NotYet
<1>3. CASE Reloading
  <2>1. FreeListed(EmptyRegistry)
    BY DEF FreeListed, EmptyRegistry
  <2>2. ASSUME NEW n, NEW o PROVE ~ Holds(tables', n, o) /\ ~ Clicked(panels', n, o)
    <3>1. DOMAIN tables'.keybinds = {} /\ DOMAIN tables'.mousebinds = {}
      BY <1>3, ReloadingIs
    <3> QED BY <1>0, <1>2, <1>3, <3>1, ReloadingIs DEF Holds, Clicked
  <2>3. Owned(registry', tables', panels')
    BY <1>3, <2>1, <2>2, ReloadingIs DEF Owned
  <2>4. Owned(registry, tables, NoPanels)
    BY <1>2, OwnedFewer DEF OwnInv
  <2> QED BY <1>3, <2>3, <2>4, ReloadingIs DEF OwnInv
<1>4. CASE LoadFails
  <2>1. /\ saved # NoConfig /\ saved' = NoConfig
        /\ registry' = saved.registry /\ tables' = saved.tables
    BY <1>4 DEF LoadFails, RollBack
  <2>2. Owned(saved.registry, saved.tables, panels)
    BY <1>2, <2>1, OwnedFewer DEF OwnInv
  <2> QED BY <1>0, <2>1, <2>2 DEF OwnInv
<1> QED BY <1>3, <1>4

(* Every step keeps the owners, in a session without bars or reloads. *)
LEMMA OwnStep ==
    ASSUME LuaInv, UsesInv, Apart => OwnInv, [Next]_vars PROVE (Apart => OwnInv)'
<1>1. UsesInv' /\ session' = session
  BY UsesStep, SessionKept DEF LuaInv
<1>2. Apart' <=> Apart
  BY <1>1 DEF Apart
<1> SUFFICES ASSUME Apart PROVE OwnInv'
  BY <1>2
<1>3. OwnInv
  OBVIOUS
<1>4. ASSUME NEW b \in Panel, OnClick(b) \/ Destroy(b) PROVE OwnInv'
  BY <1>3, <1>4, OwnPanel
<1>5. CASE Reloading \/ LoadFails
  BY <1>1, <1>3, <1>5, OwnReload
<1>6. CASE Quiet \/ TrampolineEnd \/ \E x \in tables.timers : TimerFires(x)
  BY <1>3, <1>6, OwnQuiet
<1>7. ASSUME \/ \E h \in tables.hooks : LUnhook(h)
             \/ \E x \in tables.timers : LCancel(x)
      PROVE  OwnInv'
  BY <1>3, <1>7, OwnLess
<1>8. ASSUME \/ \E e : LHook(e)
             \/ \E interval \in {0, 1} : NewTimer(interval)
      PROVE  OwnInv'
  BY <1>3, <1>8, OwnMore
<1>9. ASSUME NEW k, LBind(k) \/ LMousebind(k) PROVE OwnInv'
  BY <1>3, <1>9, OwnBind
<1> HIDE DEF OwnInv
<1> QED BY <1>4, <1>5, <1>6, <1>7, <1>8, <1>9, QuietOr DEF LuaInv

OwnAll == LuaInv /\ UsesInv /\ (Apart => OwnInv)

(* References are owned at all times. *)
LEMMA OwnAlways == Spec => []OwnAll
<1>1. Init => UsesInv /\ OwnInv
  <2> SUFFICES ASSUME Init PROVE UsesInv /\ OwnInv
    OBVIOUS
  <2>1. /\ registry = EmptyRegistry /\ tables = EmptyTables /\ saved = NoConfig
        /\ panels = [b \in Panel |-> NotYet] /\ reload_pending = FALSE
    BY DEF Init
  <2>2. \A b \in Panel : panels[b].ref = NoRef
    BY <2>1 DEF NotYet
  <2>3. FreeListed(registry)
    BY <2>1 DEF FreeListed, EmptyRegistry
  <2>4. ASSUME NEW n, NEW o PROVE ~ Holds(tables, n, o) /\ ~ Clicked(panels, n, o)
    BY <2>1, <2>2 DEF Holds, Clicked, EmptyTables
  <2>5. OwnInv
    BY <2>1, <2>3, <2>4 DEF OwnInv, Owned
  <2> QED BY <2>1, <2>2, <2>5 DEF UsesInv
<1>2. OwnAll /\ [Next]_vars => OwnAll'
  <2> SUFFICES ASSUME OwnAll, [Next]_vars PROVE OwnAll'
    OBVIOUS
  <2>1. LuaInv /\ UsesInv /\ (Apart => OwnInv)
    BY DEF OwnAll
  <2>2. LuaInv'
    BY <2>1, ShapeStep, StackStep, PanelStep, IdsStep DEF LuaInv
  <2> QED BY <2>1, <2>2, UsesStep, OwnStep DEF OwnAll, LuaInv
<1>3. Init => LuaInv
  BY InitShape, InitStack DEF LuaInv
<1> QED BY <1>1, <1>2, <1>3, PTL DEF Spec, OwnAll

(* A keybind, hook, timer or click callback calls its own function: luaL_ref *)
(* and luaL_unref never give one slot to two, whatever is unhooked or        *)
(* cancelled inside its own call, reloaded or rolled back. Sessions in which *)
(* a bar takes clicks and rc.lua is reloaded are left out: the reference     *)
(* such a bar keeps is into the Lua state that LuaConfig::reload closed.     *)
THEOREM RefsAlwaysOwned == Spec => [](Apart => RefsOwned)
<1>1. OwnAll => (Apart => RefsOwned)
  <2> SUFFICES ASSUME OwnAll, Apart PROVE RefsOwned
    OBVIOUS
  <2>1. OwnInv
    BY DEF OwnAll
  <2>2. /\ OwnSlots(registry, tables)
        /\ saved # NoConfig => OwnSlots(saved.registry, saved.tables)
    BY <2>1, OwnedWhole DEF OwnInv
  <2>3. ASSUME NEW b \in Panel, panels[b].ref # NoRef
        PROVE  At(registry, panels[b].ref) = <<"panel", b>>
    <3>1. Clicked(panels, panels[b].ref, <<"panel", b>>)
      BY <2>3 DEF Clicked
    <3> QED BY <2>1, <3>1 DEF OwnInv, Owned
  <2> QED BY <2>2, <2>3 DEF RefsOwned
<1> QED BY <1>1, OwnAlways, PTL

-----------------------------------------------------------------------------
(* The dispatches on the stack.                                              *)
Fires(f) == {f[n] : n \in {m \in DOMAIN f : f[m].at = "fire"}}

(* Dispatches on the stack: one more frame, *)
LEMMA FiresPush ==
    ASSUME NEW f \in Seq(Frame), NEW x \in Frame, NEW g, g = <<x>> \o f, NEW A,
           Fires(f) \subseteq A, x.at = "fire" => x \in A
    PROVE  Fires(g) \subseteq A
<1>1. /\ g \in Seq(Frame) /\ g[1] = x
      /\ \A n \in 2..Len(g) : n - 1 \in 1..Len(f) /\ g[n] = f[n - 1]
  BY Pushed
<1>2. DOMAIN f = 1..Len(f) /\ DOMAIN g = 1..Len(g) /\ Len(g) \in Nat
  BY <1>1, LenProperties
<1>3. ASSUME NEW n \in DOMAIN g, g[n].at = "fire" PROVE g[n] \in A
  <2>1. n = 1 \/ n \in 2..Len(g)
    BY <1>2
  <2>2. ASSUME n \in 2..Len(g) PROVE g[n] \in Fires(f)
    <3>1. n - 1 \in DOMAIN f /\ g[n] = f[n - 1]
      BY <1>1, <1>2, <2>2
    <3> QED BY <1>3, <3>1 DEF Fires
  <2> QED BY <1>1, <1>3, <2>1, <2>2
<1> QED BY <1>3 DEF Fires

(* one less, *)
LEMMA FiresPop ==
    ASSUME NEW f \in Seq(Frame), f # <<>>, NEW g, g = Tail(f)
    PROVE  g \in Seq(Frame) /\ Fires(g) \subseteq Fires(f)
<1>1. g \in Seq(Frame) /\ \A n \in 1..Len(g) : n + 1 \in 2..Len(f) /\ g[n] = f[n + 1]
  BY Popped
<1>2. DOMAIN f = 1..Len(f) /\ DOMAIN g = 1..Len(g) /\ Len(f) \in Nat
  BY <1>1, LenProperties
<1>3. ASSUME NEW n \in DOMAIN g, g[n].at = "fire" PROVE g[n] \in Fires(f)
  <2>1. n + 1 \in DOMAIN f /\ g[n] = f[n + 1]
    BY <1>1, <1>2
  <2> QED BY <1>3, <2>1 DEF Fires
<1> QED BY <1>1, <1>3 DEF Fires

(* a guarded call, *)
LEMMA FiresGuarded ==
    ASSUME TypeInv, NEW n, NEW below \in Seq(Frame), GuardedCall(n, below)
    PROVE  Fires(frames') \subseteq Fires(below)
<1>1. ASSUME NEW c \in CallFrame, frames' = <<c>> \o below
      PROVE  Fires(frames') \subseteq Fires(below)
  <2>1. c \in Frame /\ c.at # "fire"
    BY DEF CallFrame, Frame
  <2> QED BY <1>1, <2>1, FiresPush
<1> QED BY <1>1, GuardedIs

(* a stack of one frame, *)
LEMMA FiresSingle ==
    ASSUME NEW x \in Frame, NEW f, f = <<x>>
    PROVE  /\ f \in Seq(Frame) /\ Fires(f) \subseteq {x}
           /\ x.at # "fire" => Fires(f) = {}
<1>1. f \in Seq(Frame) /\ f[1] = x /\ DOMAIN f = {1}
  OBVIOUS
<1> QED BY <1>1 DEF Fires

(* a counted operation, *)
LEMMA FiresCounted ==
    ASSUME TypeInv, InLua PROVE Counted \in Seq(Frame) /\ Fires(Counted) \subseteq Fires(frames)
<1> DEFINE x == [Top EXCEPT !.ops = @ + 1]
<1>1. /\ frames \in Seq(Frame) /\ frames # <<>> /\ Counted \in Seq(Frame)
      /\ Head(Counted) \in LoadFrame \cup CallFrame
  BY CountedShape DEF TypeInv
<1>2. Counted = <<x>> \o Tail(frames)
  BY DEF Counted
<1>3. x \in Frame /\ x.at # "fire"
  <2>1. Head(Counted) = x
    BY <1>1, <1>2, HeadTailProperties
  <2> QED BY <1>1, <2>1 DEF Frame, LoadFrame, CallFrame
<1> HIDE DEF x
<1>4. Tail(frames) \in Seq(Frame) /\ Fires(Tail(frames)) \subseteq Fires(frames)
  BY <1>1, FiresPop
<1> QED BY <1>1, <1>2, <1>3, <1>4, FiresPush

(* The steps that begin a dispatch, or take one on.                          *)
Begins(e) ==
    /\ Fires(frames') \subseteq Fires(frames) \cup {Fire(e)}
    /\ UNCHANGED tables

Proceeds(h) ==
    /\ Fires(frames') \subseteq Fires(frames) \cup {After(h)}
    /\ UNCHANGED tables
    /\ Top \in Fires(frames) /\ Top \in FireFrame
    /\ h \in Top.refs /\ h \in [id : Nat, ref : Nat]

(* and what Lua code does. *)
LEMMA FiresRcLua ==
    ASSUME TypeInv, RcLua
    PROVE  Fires(frames') \subseteq Fires(frames) \/ \E e : Begins(e)
<1>0. InLua
  BY RcLuaKeeps
<1>1. Counted \in Seq(Frame) /\ Fires(Counted) \subseteq Fires(frames)
  BY <1>0, FiresCounted
<1>2. ASSUME NEW e, LFire(e) PROVE Begins(e)
  <2>1. frames' = <<Fire(e)>> \o Counted /\ UNCHANGED tables
    BY <1>2 DEF LFire
  <2>2. Fire(e) \in Frame
    BY FireIs
  <2> DEFINE A == Fires(frames) \cup {Fire(e)}
  <2>3. Fires(Counted) \subseteq A /\ Fire(e) \in A
    BY <1>1
  <2> HIDE DEF A
  <2>4. Fires(frames') \subseteq A
    BY <1>1, <2>1, <2>2, <2>3, FiresPush
  <2> QED BY <2>1, <2>4 DEF Begins, A
<1>3. ASSUME \A e : ~ LFire(e) PROVE frames' = Counted
  <2>1. ASSUME NEW b \in Panel, Painted(b) PROVE frames' = Counted
    BY <2>1 DEF Painted, Create, OnClick, Destroy, LShow
  <2>2. ASSUME NEW interval, NewTimer(interval) PROVE frames' = Counted
    BY <2>2 DEF NewTimer
  <2>3. ASSUME NEW h, LUnhook(h) \/ LCancel(h) \/ LBind(h) \/ LMousebind(h) \/ LHook(h)
        PROVE  frames' = Counted
    BY <2>3 DEF LUnhook, LCancel, LBind, LMousebind, LHook
  <2>4. ASSUME NEW name, NEW x, DispatchSet(x, name) \/ LMonitorSet(name, x)
        PROVE  frames' = Counted
    BY <2>4 DEF DispatchSet, LMonitorSet
  <2>5. LReload => frames' = Counted
    BY DEF LReload
  <2> QED BY <1>3, <2>1, <2>2, <2>3, <2>4, <2>5, RcLuaIs
<1> QED BY <1>1, <1>2, <1>3

(* An event loop callback, a reload, a load that is over: no dispatch yet.   *)
LEMMA FiresNone ==
    ASSUME TypeInv, StackInv, \/ \E k \in Key : Press(k)
                              \/ \E b \in Button : PressButton(b)
                              \/ \E b \in Panel : Click(b)
                              \/ \E x \in tables.timers : TimerFires(x)
                              \/ Sighup \/ InvokeEnd \/ LoadFails
    PROVE  Fires(frames') = {}
<1>0. frames \in Seq(Frame)
  BY DEF TypeInv
<1>1. ASSUME NEW n, NEW x \in TimerFrame, GuardedCall(n, <<x>>) PROVE Fires(frames') = {}
  <2> DEFINE below == <<x>>
  <2>1. x \in Frame /\ x.at # "fire"
    BY DEF TimerFrame, Frame
  <2>2. below \in Seq(Frame) /\ Fires(below) = {}
    BY <2>1, FiresSingle
  <2>3. GuardedCall(n, below)
    BY <1>1
  <2> HIDE DEF below
  <2> QED BY <2>2, <2>3, FiresGuarded
<1>2. CASE \/ \E k \in Key : Press(k)
           \/ \E b \in Button : PressButton(b)
           \/ \E b \in Panel : Click(b)
  <2>1. PICK n : GuardedCall(n, <<Invoke(0, NoRef, 0)>>)
    BY <1>2 DEF Press, PressButton, Click
  <2> QED BY <1>1, <2>1, BeginIs
<1>3. ASSUME NEW x \in tables.timers, TimerFires(x) PROVE Fires(frames') = {}
  <2>1. x.id \in Nat /\ x.ref \in Nat \cup {NoRef} /\ x.interval \in {0, 1}
    BY DEF TypeInv, Tables, TimerRecord
  <2>2. GuardedCall(x.ref, <<Invoke(x.id, x.ref, x.interval)>>)
    BY <1>3 DEF TimerFires
  <2> DEFINE y == Invoke(x.id, x.ref, x.interval)
  <2>3. y \in TimerFrame /\ GuardedCall(x.ref, <<y>>)
    BY <2>1, <2>2, BeginIs
  <2> HIDE DEF y
  <2> QED BY <1>1, <2>3
<1>4. Load \in Frame /\ Load.at # "fire"
  BY DEF Load, LoadFrame, Frame
<1>5. CASE Sighup
  <2>1. frames' = <<Load>> \o <<>>
    BY <1>5 DEF Sighup, BeginReload
  <2>2. frames' = <<Load>>
    BY <2>1
  <2>3. Fires(frames') = {}
    BY <1>4, <2>2, FiresSingle
  <2> QED BY <2>3
<1>6. CASE InvokeEnd
  <2>1. /\ Trampoline \in TimerFrame /\ Trampoline.at = "tramp"
        /\ <<Trampoline>> \o Tail(frames) = <<Trampoline>>
    BY <1>6, InvokeIs
  <2> DEFINE below == <<Trampoline>>
  <2>2. Trampoline \in Frame
    BY <2>1 DEF Frame
  <2>3. below \in Seq(Frame) /\ Fires(below) = {}
    BY <2>1, <2>2, FiresSingle
  <2>4. frames' = below \/ frames' = <<Load>> \o below
    BY <1>6, <2>1 DEF InvokeEnd, BeginReload
  <2> HIDE DEF below
  <2>5. ASSUME frames' = <<Load>> \o below PROVE Fires(frames') \subseteq Fires(below)
    BY <1>4, <2>3, <2>5, FiresPush
  <2> QED BY <2>3, <2>4, <2>5
<1>7. CASE LoadFails
  <2>1. frames # <<>> /\ frames' = Tail(frames) /\ Top.at = "load"
    BY <1>7 DEF LoadFails, RollBack, Idle
  <2>2. Top = frames[1] /\ DOMAIN frames = 1..Len(frames) /\ Len(frames) \in Nat \ {0}
    BY <1>0, <2>1, HeadTailProperties, LenProperties, EmptySeq DEF Top
  <2>3. Len(frames) = 1 \/ (Len(frames) = 2 /\ frames[2].at = "tramp")
    <3>1. 1 \in DOMAIN frames /\ frames[1].at = "load"
      BY <2>1, <2>2
    <3>2. 1 = Len(frames) \/ (1 + 1 = Len(frames) /\ frames[Len(frames)].at = "tramp")
      BY <3>1 DEF StackInv, Bottom
    <3> QED BY <2>2, <3>2
  <2>4. /\ frames' \in Seq(Frame) /\ Len(frames') = Len(frames) - 1
        /\ \A n \in 1..Len(frames') : frames'[n] = frames[n + 1]
    BY <1>0, <2>1, Popped
  <2>5. DOMAIN frames' = 1..Len(frames')
    BY <2>4, LenProperties
  <2>6. ASSUME NEW n \in DOMAIN frames' PROVE frames'[n].at = "tramp"
    <3>1. n = 1 /\ Len(frames) = 2
      BY <2>2, <2>3, <2>4, <2>5
    <3>2. frames'[n] = frames[n + 1]
      BY <2>4, <2>5
    <3> QED BY <2>3, <3>1, <3>2
  <2> QED BY <2>6 DEF Fires
<1> QED BY <1>2, <1>3, <1>5, <1>6, <1>7

(* A step begins a dispatch, takes one a hook further, or neither. *)
LEMMA FiresBy ==
    ASSUME TypeInv, StackInv, [Next]_vars
    PROVE  \/ Fires(frames') \subseteq Fires(frames)
           \/ \E e : Begins(e)
           \/ \E h : Proceeds(h)
<1>0. frames \in Seq(Frame)
  BY DEF TypeInv
<1>1. ASSUME NEW e, Happens(e) PROVE Begins(e)
  <2>1. frames' = <<Fire(e)>> /\ UNCHANGED tables
    BY <1>1 DEF Happens
  <2>2. Fire(e) \in Frame
    BY FireIs
  <2>3. Fires(frames') \subseteq {Fire(e)}
    BY <2>1, <2>2, FiresSingle
  <2> QED BY <2>1, <2>3 DEF Begins
<1>2. CASE FireNext
  <2>1. /\ frames # <<>> /\ Top = frames[1] /\ Top \in FireFrame
        /\ \E h \in Top.refs :
              /\ h \in [id : Nat, ref : Nat]
              /\ After(h) \in FireFrame /\ After(h) \in Frame
              /\ GuardedCall(h.ref, <<After(h)>> \o Tail(frames))
    BY <1>2, NextIs
  <2>2. PICK h \in Top.refs : /\ h \in [id : Nat, ref : Nat]
                              /\ After(h) \in Frame
                              /\ GuardedCall(h.ref, <<After(h)>> \o Tail(frames))
    BY <2>1
  <2> DEFINE below == <<After(h)>> \o Tail(frames)
             A == Fires(frames) \cup {After(h)}
  <2>3. Tail(frames) \in Seq(Frame) /\ Fires(Tail(frames)) \subseteq A
    BY <1>0, <2>1, FiresPop
  <2>4. After(h) \in A
    OBVIOUS
  <2>5. below \in Seq(Frame)
    BY <1>0, <2>1, <2>2, Edited
  <2>6. GuardedCall(h.ref, below)
    BY <2>2
  <2> HIDE DEF A
  <2>7. Fires(below) \subseteq A
    BY <2>2, <2>3, <2>4, FiresPush
  <2> HIDE DEF below
  <2>8. Fires(frames') \subseteq A
    BY <2>5, <2>6, <2>7, FiresGuarded
  <2>9. Top \in Fires(frames)
    <3>1. 1 \in DOMAIN frames
      BY <1>0, <2>1, LenProperties, EmptySeq
    <3> QED BY <2>1, <3>1 DEF Fires, FireFrame
  <2>10. UNCHANGED tables
    BY <1>2 DEF FireNext
  <2> QED BY <2>1, <2>2, <2>8, <2>9, <2>10 DEF Proceeds, A
<1>3. CASE FireEnd \/ CallEnd \/ TrampolineEnd \/ LoadOk
  <2>1. frames # <<>> /\ frames' = Tail(frames)
    BY <1>3 DEF FireEnd, CallEnd, TrampolineEnd, LoadOk, Idle
  <2> QED BY <1>0, <2>1, FiresPop
<1>4. ASSUME \/ UNCHANGED vars
             \/ \E m \in Monitor : Plug(m) \/ Unplug(m)
      PROVE  Fires(frames') \subseteq Fires(frames)
  BY <1>4 DEF vars, Plug, Unplug
<1> HIDE DEF Next
<1>5. CASE RcLua
  BY <1>5, FiresRcLua
<1>6. ASSUME \/ \E k \in Key : Press(k)
             \/ \E b \in Button : PressButton(b)
             \/ \E b \in Panel : Click(b)
             \/ \E x \in tables.timers : TimerFires(x)
             \/ Sighup \/ InvokeEnd \/ LoadFails
      PROVE  Fires(frames') \subseteq Fires(frames)
  BY <1>6, FiresNone
<1> QED BY <1>1, <1>2, <1>3, <1>4, <1>5, <1>6 DEF Next, EventLoop

(* What a dispatch still has to call: of the hooks it is about, those that   *)
(* are registered and that it has not reached are among its refs.            *)
Reaches(x, t) ==
    /\ \A i \in x.due : i < t.next_hook_id
    /\ \A h \in t.hooks : h.id \in x.due
                          => h.id \in x.told \/ [id |-> h.id, ref |-> h.ref] \in x.refs

HookInv == \A x \in Fires(frames) : Reaches(x, tables)

(* The ids of new hooks were never those of others.                          *)
LEMMA HooksGrow ==
    ASSUME LuaInv, [Next]_vars, ~ Reloading, ~ LoadFails
    PROVE  /\ tables'.next_hook_id \in Nat /\ tables.next_hook_id \in Nat
           /\ tables.next_hook_id <= tables'.next_hook_id
           /\ \A h \in tables'.hooks : h \in tables.hooks \/ h.id = tables.next_hook_id
<1>0. tables \in Tables /\ tables' \in Tables /\ TypeInv
  BY ShapeStep DEF LuaInv, TypeInv
<1>1. tables.next_hook_id \in Nat /\ tables'.next_hook_id \in Nat
  BY <1>0 DEF Tables
<1>2. ASSUME tables'.hooks \subseteq tables.hooks,
             tables'.next_hook_id = tables.next_hook_id
      PROVE  /\ tables.next_hook_id <= tables'.next_hook_id
             /\ \A h \in tables'.hooks : h \in tables.hooks \/ h.id = tables.next_hook_id
  BY <1>1, <1>2
<1> DEFINE Grow == /\ tables.next_hook_id <= tables'.next_hook_id
                   /\ \A h \in tables'.hooks : h \in tables.hooks \/ h.id = tables.next_hook_id
<1>3. ASSUME Quiet PROVE Grow
  <2>1. tables'.hooks = tables.hooks /\ tables'.next_hook_id = tables.next_hook_id
    BY <1>3 DEF Quiet, SameOwners
  <2> QED BY <1>2, <2>1
<1>4. ASSUME NEW ts, TimersOnly(ts) PROVE Grow
  <2>1. tables'.hooks = tables.hooks /\ tables'.next_hook_id = tables.next_hook_id
    BY <1>4 DEF TimersOnly, SameOwners
  <2> QED BY <1>2, <2>1
<1>5. ASSUME NEW x \in tables.timers, TimerFires(x) PROVE Grow
  BY <1>0, <1>4, <1>5, TimerFiresIs
<1>6. ASSUME TrampolineEnd PROVE Grow
  <2>1. \E ts : TimersOnly(ts)
    BY <1>0, <1>6, TrampolineEndIs
  <2> QED BY <1>4, <2>1
<1>7. ASSUME NEW k, LBind(k) \/ LMousebind(k) \/ NewTimer(k) \/ LCancel(k) PROVE Grow
  <2>1. \/ \E v : tables' = [tables EXCEPT !.keybinds = v]
        \/ \E v : tables' = [tables EXCEPT !.mousebinds = v]
        \/ \E v : tables' = [tables EXCEPT !.timers = v]
    BY <1>7 DEF LBind, LMousebind, NewTimer, AddTimer, LCancel
  <2>2. tables'.hooks = tables.hooks /\ tables'.next_hook_id = tables.next_hook_id
    BY <1>0, <2>1 DEF Tables
  <2> QED BY <1>2, <2>2
<1>8. ASSUME NEW h, LUnhook(h) PROVE Grow
  <2>1. tables' = [tables EXCEPT !.hooks = tables.hooks \ {h}]
    BY <1>8 DEF LUnhook, RemoveHook
  <2>2. tables'.hooks = tables.hooks \ {h} /\ tables'.next_hook_id = tables.next_hook_id
    BY <1>0, <2>1 DEF Tables
  <2> QED BY <1>2, <2>2
<1>9. ASSUME NEW e, LHook(e) PROVE Grow
  <2> DEFINE h == [id |-> tables.next_hook_id, event |-> e, ref |-> Slot(registry)]
  <2>1. h.id = tables.next_hook_id
    OBVIOUS
  <2>2. tables' = [tables EXCEPT !.hooks = tables.hooks \cup {h},
                                 !.next_hook_id = tables.next_hook_id + 1]
    BY <1>9 DEF LHook, AddHook
  <2> HIDE DEF h
  <2>3. /\ tables'.hooks = tables.hooks \cup {h}
        /\ tables'.next_hook_id = tables.next_hook_id + 1
    BY <1>0, <2>2 DEF Tables
  <2> QED BY <1>1, <2>1, <2>3
<1>10. ASSUME NEW b, OnClick(b) \/ Destroy(b) PROVE Grow
  BY <1>2, <1>10 DEF OnClick, Destroy
<1> HIDE DEF Grow
<1>11. Grow
  BY <1>0, <1>3, <1>5, <1>6, <1>7, <1>8, <1>9, <1>10, QuietOr
<1> QED BY <1>1, <1>11 DEF Grow

(* Every step keeps what a dispatch still owes to hooks registered. *)
LEMMA HookStep ==
    ASSUME LuaInv, OwnInv, HookInv, [Next]_vars PROVE HookInv'
<1>0. TypeInv /\ StackInv /\ HookIdsNew(tables)
  BY DEF LuaInv, IdsInv
<1>1. CASE Reloading \/ LoadFails
  <2>1. Fires(frames') = {}
    BY <1>0, <1>1, FiresNone DEF Reloading
  <2> QED BY <2>1 DEF HookInv
<1>2. CASE ~ Reloading /\ ~ LoadFails
  <2>1. /\ tables'.next_hook_id \in Nat /\ tables.next_hook_id \in Nat
        /\ tables.next_hook_id <= tables'.next_hook_id
        /\ \A h \in tables'.hooks : h \in tables.hooks \/ h.id = tables.next_hook_id
    BY <1>2, HooksGrow
  <2>2. ASSUME NEW x \in FireFrame, Reaches(x, tables) PROVE Reaches(x, tables')
    <3>1. x.due \subseteq Nat
      BY DEF FireFrame
    <3>2. \A i \in x.due : i < tables'.next_hook_id /\ i # tables.next_hook_id
      BY <2>1, <2>2, <3>1 DEF Reaches
    <3> QED BY <2>1, <2>2, <3>2 DEF Reaches
  <2>3. ASSUME NEW x \in Fires(frames) PROVE x \in FireFrame /\ Reaches(x, tables)
    <3>1. PICK n \in DOMAIN frames : x = frames[n] /\ frames[n].at = "fire"
      BY DEF Fires
    <3>2. frames[n] \in Frame
      BY <1>0, ElementOfSeq, LenProperties DEF TypeInv
    <3> QED BY <3>1, <3>2 DEF HookInv, Frame, LoadFrame, CallFrame, FireFrame, TimerFrame
  <2>4. ASSUME NEW e, Begins(e) PROVE HookInv'
    <3>1. Fire(e) \in FireFrame
      BY <1>0, FireIs
    <3> DEFINE hs == HooksOn(tables, e)
    <3>2. /\ Fire(e).refs = {[id |-> h.id, ref |-> h.ref] : h \in hs}
          /\ Fire(e).due = {h.id : h \in hs}
      BY DEF Fire
    <3>3. hs \subseteq tables.hooks
      BY DEF HooksOn
    <3> HIDE DEF hs
    <3>4. \A i \in Fire(e).due : i < tables.next_hook_id
      BY <1>0, <3>2, <3>3 DEF HookIdsNew
    <3>5. ASSUME NEW h \in tables.hooks, h.id \in Fire(e).due
          PROVE  [id |-> h.id, ref |-> h.ref] \in Fire(e).refs
      <4>1. PICK g \in hs : g.id = h.id
        BY <3>2, <3>5
      <4>2. g = h
        BY <1>0, <3>3, <4>1 DEF HookIdsNew
      <4> QED BY <3>2, <4>1, <4>2
    <3>6. Reaches(Fire(e), tables)
      BY <3>4, <3>5 DEF Reaches
    <3>7. \A x \in Fires(frames') : Reaches(x, tables)
      BY <2>3, <2>4, <3>6 DEF Begins
    <3> QED BY <2>4, <3>7 DEF Begins, HookInv
  <2>5. ASSUME NEW h, Proceeds(h) PROVE HookInv'
    <3>1. /\ Top \in Fires(frames) /\ Top \in FireFrame
          /\ h \in Top.refs /\ h \in [id : Nat, ref : Nat]
      BY <2>5 DEF Proceeds
    <3>2. /\ After(h).due = Top.due /\ After(h).refs = Top.refs \ {h}
          /\ After(h).told = Top.told \cup Reached(h.ref)
      BY <3>1 DEF After, FireFrame
    <3>3. Reaches(Top, tables)
      BY <2>3, <3>1
    <3>4. ASSUME NEW g \in tables.hooks, g.id \in Top.due, g.id \notin After(h).told
          PROVE  [id |-> g.id, ref |-> g.ref] \in After(h).refs
      <4>1. [id |-> g.id, ref |-> g.ref] \in Top.refs
        BY <3>2, <3>3, <3>4 DEF Reaches
      <4>2. ASSUME h = [id |-> g.id, ref |-> g.ref] PROVE FALSE
        <5>1. h.ref = g.ref
          BY <4>2
        <5>2. Holds(tables, g.ref, <<"hook", g.id>>)
          BY DEF Holds
        <5>3. At(registry, h.ref) = <<"hook", g.id>>
          BY <5>1, <5>2 DEF OwnInv, Owned
        <5>4. g.id \in Reached(h.ref)
          BY <5>3 DEF Reached
        <5> QED BY <3>2, <3>4, <5>4
      <4> QED BY <3>2, <4>1, <4>2
    <3>5. Reaches(After(h), tables)
      BY <3>2, <3>3, <3>4 DEF Reaches
    <3>6. \A x \in Fires(frames') : Reaches(x, tables)
      BY <2>3, <2>5, <3>5 DEF Proceeds
    <3> QED BY <2>5, <3>6 DEF Proceeds, HookInv
  <2>6. CASE Fires(frames') \subseteq Fires(frames)
    BY <2>2, <2>3, <2>6 DEF HookInv
  <2> HIDE DEF HookInv
  <2> QED BY <1>0, <2>4, <2>5, <2>6, FiresBy
<1> QED BY <1>1, <1>2

(* A dispatch that fireClientEvent is done with has called every hook that   *)
(* was registered for the event when it happened and still is, those the     *)
(* depth cap refuses apart, whatever the hooks unhook or hook on the way;    *)
(* sessions with both bars and reloads are left out, as above.               *)
THEOREM HooksReached == Spec => [](Apart => HooksAllTold)
<1> DEFINE Inv == OwnAll /\ (Apart => HookInv)
<1>1. Init => HookInv
  <2> SUFFICES ASSUME Init PROVE HookInv
    OBVIOUS
  <2>1. frames = <<Load>> /\ Load \in Frame /\ Load.at # "fire"
    BY DEF Init, Load, LoadFrame, Frame
  <2>2. Fires(frames) = {}
    BY <2>1, FiresSingle
  <2> QED BY <2>2 DEF HookInv
<1>2. OwnAll /\ (Apart => HookInv) /\ [Next]_vars => (Apart => HookInv)'
  <2> SUFFICES ASSUME OwnAll, Apart => HookInv, [Next]_vars, Apart' PROVE HookInv'
    OBVIOUS
  <2>1. Apart
    BY SessionKept DEF Apart
  <2> QED BY <2>1, HookStep DEF OwnAll
<1>3. OwnAll /\ (Apart => HookInv) => (Apart => HooksAllTold)
  <2> SUFFICES ASSUME OwnAll, HookInv, ~ Idle, Top.at = "fire", Top.refs = {}
               PROVE  Top.due \cap HookIds(tables) \subseteq Top.told
    BY DEF HooksAllTold
  <2>1. frames \in Seq(Frame) /\ frames # <<>>
    BY DEF OwnAll, LuaInv, TypeInv, Idle
  <2>2. Top = frames[1] /\ 1 \in DOMAIN frames
    BY <2>1, HeadTailProperties, LenProperties, EmptySeq DEF Top
  <2>3. Reaches(Top, tables)
    BY <2>2 DEF HookInv, Fires
  <2> QED BY <2>3 DEF Reaches, HookIds
<1> HIDE DEF Inv
<1> QED BY <1>1, <1>2, <1>3, OwnAlways, PTL DEF Spec
=============================================================================
