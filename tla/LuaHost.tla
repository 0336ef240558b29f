------------------------------ MODULE LuaHost ------------------------------
(***************************************************************************)
(* The Lua host (LuaConfig in lua_config.cpp): the registry that keeps the *)
(* functions rc.lua handed over, the tables that name them (keybinds,      *)
(* hooks, timers, bars), the guarded calls into them, which nest, and the  *)
(* hot reload with its rollback.  One thread runs all of it: `frames` is   *)
(* its stack, the innermost first.  A function of rc.lua does any of the   *)
(* uwu.* calls in any order, and ends by returning, by an error or because *)
(* the watchdog aborts it.                                                 *)
(* Of a monitor rule the mode alone is modelled, and no rule turns its     *)
(* output off (enabled = false).                                           *)
(***************************************************************************)
EXTENDS Integers, Sequences, FiniteSets

CONSTANTS
    Key, Button,     \* keys and buttons that are bound, with their modifiers
    Event,           \* names of hook events
    Bar, Window,     \* ids of native panels, of widget windows
    Visual, Behavior,\* settings by their category
    Monitor, Mode,   \* names of outputs, and the modes they may be in
    MaxDepth,        \* nested guarded calls: 8 in the code
    MaxOps,          \* bounds of the model: uwu.* calls of one function,
    MaxSlots,        \* registry slots of one Lua state,
    MaxHooks,        \* hooks of one rc.lua,
    MaxTimers,       \* timers ever,
    MaxReloads,      \* and reloads
    Sessions         \* what rc.lua makes use of, one of these sets of
                     \* "key", "hook", "fire", "timer", "bar", "set",
                     \* "monitor", "reload"

ASSUME LuaAssumption ==
    /\ MaxDepth \in Nat \ {0}
    /\ {"none", "keep"} \cap Mode = {} /\ "preferred" \in Mode /\ "*" \notin Monitor
    /\ Bar \cap Window = {}
    /\ {MaxOps, MaxSlots, MaxHooks, MaxTimers, MaxReloads} \subseteq Nat

VARIABLES
    registry,        \* of L: [slots, free], the luaL_ref table
    tables,          \* keybinds, hooks, timers, next_hook_id, the settings that
                     \* rc.lua has set, monitor_rules by name
    saved,           \* during a reload: the registry and tables to go back to
    mode,            \* the mode each output is in, "none" while unplugged
    panels,          \* bars and widget windows, which the server owns
    frames,          \* what runs, innermost first
    reload_pending,
    next_timer_id,
    watched,         \* whether lua_sethook has the watchdog in L
    reloads, session \* how many there were; what rc.lua uses, never changed

vars == <<registry, tables, saved, mode, panels, frames, reload_pending, next_timer_id,
          watched, reloads, session>>
world == <<mode, session>>

Free == <<"free", 0>>
NoRef == -2
NoConfig == [registry |-> <<>>, tables |-> <<>>]

Panel == Bar \cup Window
NotYet == [life |-> "not yet", ref |-> NoRef, output |-> "none", visible |-> FALSE]
Gone == [NotYet EXCEPT !.life = "gone"]
Alive(b) == panels[b].life = "alive"

EmptyRegistry == [slots |-> <<>>, free |-> <<>>]
EmptyTables ==
    [keybinds |-> <<>>, mousebinds |-> <<>>, hooks |-> {}, timers |-> {}, next_hook_id |-> 1,
     settings |-> {}, rules |-> [m \in Monitor \cup {"*"} |-> "none"]]

(* luaL_ref takes the slot released last, or a new one; luaL_unref releases  *)
(* whatever number it is given.                                              *)
Slot(r) == IF r.free # <<>> THEN Head(r.free) ELSE Len(r.slots) + 1

Ref(r, owner) ==
    IF r.free # <<>>
    THEN [slots |-> [r.slots EXCEPT ![Head(r.free)] = owner], free |-> Tail(r.free)]
    ELSE [r EXCEPT !.slots = Append(@, owner)]

Unref(r, ref) ==
    [slots |-> [n \in DOMAIN r.slots |-> IF n = ref THEN Free ELSE r.slots[n]],
     free |-> <<ref>> \o r.free]

(* lua_rawgeti of a slot that was never used gives nil.                      *)
At(r, ref) == IF ref \in DOMAIN r.slots THEN r.slots[ref] ELSE Free

-----------------------------------------------------------------------------
(* The stack. "load": rc.lua itself, not under the watchdog; "call": a       *)
(* function in guardedCall; "fire": the loop of fireClientEvent, with the    *)
(* refs it still has to call; "invoke": the C++ after a call that the event  *)
(* loop began, for a timer with its trampoline.                              *)
Load == [at |-> "load", ops |-> 0]
Call(owner) == [at |-> "call", ops |-> 0, who |-> owner]
Invoke(id, ref, interval) ==
    [at |-> "invoke", timer |-> id, ref |-> ref, interval |-> interval]

Depth == Cardinality({n \in DOMAIN frames : frames[n].at = "call"})
Idle == frames = <<>>
Top == Head(frames)
InLua == ~ Idle /\ Top.at \in {"load", "call"}

TimersIn(t, id) == {x \in t.timers : x.id = id}
HookIds(t) == {h.id : h \in t.hooks}

TypeOK ==
    /\ \A n \in DOMAIN frames : frames[n].at \in {"load", "call", "fire", "invoke", "tramp"}
    /\ Depth <= MaxDepth
    /\ \A b \in Panel :
          /\ panels[b].output \in Monitor \cup {"none"}
          /\ panels[b].output # "none" => Alive(b) /\ mode[panels[b].output] # "none"
    /\ reload_pending \in BOOLEAN /\ watched \in BOOLEAN
    /\ \A id \in HookIds(tables) : id < tables.next_hook_id
    /\ Idle => ~ watched /\ saved = NoConfig

UsesOutputs == session \cap {"monitor", "bar"} # {}

(* Server::run: the outputs that are connected are there when rc.lua is      *)
(* loaded for the first time.                                                *)
Init ==
    /\ registry = EmptyRegistry /\ tables = EmptyTables
    /\ saved = NoConfig
    /\ session \in Sessions
    /\ mode \in [Monitor -> IF UsesOutputs THEN {"none", "preferred"} ELSE {"none"}]
    /\ panels = [b \in Panel |-> NotYet]
    /\ frames = <<Load>>
    /\ reload_pending = FALSE
    /\ next_timer_id = 1
    /\ watched = FALSE
    /\ reloads = 0

-----------------------------------------------------------------------------
(* What a function of rc.lua may do.                                         *)
May(use) == InLua /\ use \in session /\ Top.ops < MaxOps

Counted == <<[Top EXCEPT !.ops = @ + 1]>> \o Tail(frames)

Room == Slot(registry) <= MaxSlots

LBind(k) ==
    /\ May("key") /\ Room
    /\ tables' = [tables EXCEPT !.keybinds = Append(@, [key |-> k, ref |-> Slot(registry)])]
    /\ registry' = Ref(registry, <<"key", Len(tables.keybinds) + 1>>)
    /\ frames' = Counted
    /\ UNCHANGED <<saved, panels, reload_pending, next_timer_id, watched, reloads, world>>

LMousebind(b) ==
    /\ May("key") /\ Room
    /\ tables' = [tables EXCEPT !.mousebinds = Append(@, [button |-> b, ref |-> Slot(registry)])]
    /\ registry' = Ref(registry, <<"button", Len(tables.mousebinds) + 1>>)
    /\ frames' = Counted
    /\ UNCHANGED <<saved, panels, reload_pending, next_timer_id, watched, reloads, world>>

(* Hooks are kept, and called, in the order of their ids.                    *)
AddHook(t, e, ref) ==
    [t EXCEPT !.hooks = @ \cup {[id |-> t.next_hook_id, event |-> e, ref |-> ref]},
              !.next_hook_id = @ + 1]

LHook(e) ==
    /\ May("hook") /\ Room /\ tables.next_hook_id <= MaxHooks
    /\ tables' = AddHook(tables, e, Slot(registry))
    /\ registry' = Ref(registry, <<"hook", tables.next_hook_id>>)
    /\ frames' = Counted
    /\ UNCHANGED <<saved, panels, reload_pending, next_timer_id, watched, reloads, world>>

(* uwu.rule is a hook on client::manage with a closure of its own.           *)
LRule == "manage" \in Event /\ LHook("manage")

RemoveHook(t, h) == [t EXCEPT !.hooks = @ \ {h}]

(* l_unhook, were the dispatch going on over the hooks themselves: the     *)
(* sibling after the one removed moves up and is passed over.                *)
Passing(refs) == {p \in refs : \E q \in refs : q.id < p.id}

LUnhookShifting(h) ==
    /\ May("hook") /\ h \in tables.hooks
    /\ registry' = Unref(registry, h.ref)
    /\ tables' = RemoveHook(tables, h)
    /\ frames' = [n \in DOMAIN frames |->
                     IF n = 1 THEN Counted[1]
                     ELSE IF frames[n].at = "fire"
                     THEN [frames[n] EXCEPT !.refs = Passing(@)] ELSE frames[n]]
    /\ UNCHANGED <<saved, panels, reload_pending, next_timer_id, watched, reloads, world>>

LUnhook(h) ==
    /\ May("hook") /\ h \in tables.hooks
    /\ registry' = Unref(registry, h.ref)
    /\ tables' = RemoveHook(tables, h)
    /\ frames' = Counted
    /\ UNCHANGED <<saved, panels, reload_pending, next_timer_id, watched, reloads, world>>

(* addTimer: the first delay is 1 ms or more, so the source is always armed; *)
(* an interval below 1 ms is 0, which is a one-shot.                         *)
AddTimer(t, ref, interval) ==
    [t EXCEPT !.timers = @ \cup
        {[id |-> next_timer_id, ref |-> ref, interval |-> interval,
          armed |-> TRUE, fired |-> FALSE]}]

NewTimer(interval) ==
    /\ May("timer") /\ Room /\ next_timer_id <= MaxTimers
    /\ tables' = AddTimer(tables, Slot(registry), interval)
    /\ registry' = Ref(registry, <<"timer", next_timer_id>>)
    /\ next_timer_id' = next_timer_id + 1
    /\ frames' = Counted
    /\ UNCHANGED <<saved, panels, reload_pending, watched, reloads, world>>

LSetInterval == \E interval \in {0, 1} : NewTimer(interval)
LSetTimeout == NewTimer(0)

LCancel(x) ==
    /\ May("timer") /\ x \in tables.timers
    /\ registry' = Unref(registry, x.ref)
    /\ tables' = [tables EXCEPT !.timers = @ \ {x}]
    /\ frames' = Counted
    /\ UNCHANGED <<saved, panels, reload_pending, next_timer_id, watched, reloads, world>>

(* uwu.bar.create and uwu.widget.window, on an output that is there (without *)
(* one they are an error of the function). A popup is hidden at first.       *)
Create(b, m, visible) ==
    /\ May("bar") /\ panels[b] = NotYet /\ mode[m] # "none"
    /\ panels' = [panels EXCEPT
          ![b] = [life |-> "alive", ref |-> NoRef, output |-> m, visible |-> visible]]
    /\ frames' = Counted
    /\ UNCHANGED <<registry, tables, saved, reload_pending, next_timer_id, watched,
                   reloads, world>>

LBarCreate(b, m) == b \in Bar /\ Create(b, m, TRUE)
LWidgetWindowCreate(w, m) ==
    w \in Window /\ \E popup \in BOOLEAN : Create(w, m, ~ popup)

(* The registry without the function that a click on it called.              *)
Released(b) == IF panels[b].ref = NoRef THEN registry ELSE Unref(registry, panels[b].ref)

OnClick(b) ==
    /\ May("bar") /\ Alive(b) /\ Slot(Released(b)) <= MaxSlots
    /\ registry' = Ref(Released(b), <<"panel", b>>)
    /\ panels' = [panels EXCEPT ![b].ref = Slot(Released(b))]
    /\ frames' = Counted
    /\ UNCHANGED <<tables, saved, reload_pending, next_timer_id, watched, reloads, world>>

Destroy(b) ==
    /\ May("bar") /\ Alive(b)
    /\ registry' = Released(b)
    /\ panels' = [panels EXCEPT ![b] = Gone]
    /\ frames' = Counted
    /\ UNCHANGED <<tables, saved, reload_pending, next_timer_id, watched, reloads, world>>

LBarOnClick(b) == b \in Bar /\ OnClick(b)
LBarDestroy(b) == b \in Bar /\ Destroy(b)
LWidgetOnClick(w) == w \in Window /\ OnClick(w)
LWidgetWindowDestroy(w) == w \in Window /\ Destroy(w)

(* window:show and window:hide                                               *)
LShow(w, visible) ==
    /\ May("bar") /\ w \in Window /\ Alive(w)
    /\ panels' = [panels EXCEPT ![w].visible = visible]
    /\ frames' = Counted
    /\ UNCHANGED <<registry, tables, saved, reload_pending, next_timer_id, watched,
                   reloads, world>>

(* uwu.visual.set and uwu.behavior.set refuse the other's names; the old     *)
(* uwu.set takes any.                                                        *)
Category(name) ==
    CASE name \in Visual -> "visual" [] name \in Behavior -> "behavior" [] OTHER -> "none"

Setter(t, name) == [t EXCEPT !.settings = @ \cup {name}]

DispatchSet(wanted, name) ==
    /\ May("set")
    /\ tables' = IF Category(name) \in wanted THEN Setter(tables, name) ELSE tables
    /\ frames' = Counted
    /\ UNCHANGED <<registry, saved, panels, reload_pending, next_timer_id, watched,
                   reloads, world>>

LVisualSet(name) == DispatchSet({"visual"}, name)
LBehaviorSet(name) == DispatchSet({"behavior"}, name)
LSet(name) == DispatchSet({"visual", "behavior"}, name)

(* findMonitorRule: the rule of that name, else that of "*".                 *)
RuleFor(t, m) == IF t.rules[m] # "none" THEN t.rules[m] ELSE t.rules["*"]

(* Output::applyRule: a rule that asks for no mode, or for one the output    *)
(* does not have ("keep"), leaves it in the one it is in.                    *)
Applied(m, rule) ==
    IF mode[m] = "none" \/ rule \in {"none", "keep"} THEN mode[m] ELSE rule

(* uwu.monitor.set replaces the rule of that name, and applies it at once to *)
(* the output of that name, not through "*".                                 *)
LMonitorSet(name, rule) ==
    /\ May("monitor")
    /\ tables' = [tables EXCEPT !.rules[name] = rule]
    /\ mode' = [m \in Monitor |-> IF m = name THEN Applied(m, rule) ELSE mode[m]]
    /\ frames' = Counted
    /\ UNCHANGED <<registry, saved, panels, reload_pending, next_timer_id, watched, reloads,
                   session>>

(* A call that fires an event (client:focus, tag.view): fireClientEvent      *)
(* copies the refs of the hooks first.                                       *)
HooksOn(t, e) == {h \in t.hooks : h.event = e}

Fire(e) ==
    LET hs == HooksOn(tables, e)
    IN [at |-> "fire", refs |-> {[id |-> h.id, ref |-> h.ref] : h \in hs},
        due |-> {h.id : h \in hs}, told |-> {}]

LFire(e) ==
    /\ May("fire")
    /\ frames' = <<Fire(e)>> \o Counted
    /\ UNCHANGED <<registry, tables, saved, panels, reload_pending, next_timer_id, watched,
                   reloads, world>>

(* uwu.reload: put off until the call the event loop began is over.          *)
LReload ==
    /\ May("reload")
    /\ reload_pending' = TRUE
    /\ frames' = Counted
    /\ UNCHANGED <<registry, tables, saved, panels, next_timer_id, watched, reloads, world>>

-----------------------------------------------------------------------------
(* guardedCall, were there no cap on the depth.                              *)
GuardedCallUncapped(ref, below) ==
    LET owner == At(registry, ref)
    IN IF owner = Free
       THEN frames' = below /\ watched' = FALSE
       ELSE frames' = <<Call(owner)>> \o below /\ watched' = TRUE

(* guardedCall of what the slot holds: dropped beyond the depth; anything    *)
(* but a function is an error at once, which takes the watchdog out of L as  *)
(* the end of any call does.                                                 *)
GuardedCall(ref, below) ==
    LET owner == At(registry, ref)
    IN IF Depth >= MaxDepth
       THEN frames' = below /\ UNCHANGED watched
       ELSE IF owner = Free
       THEN frames' = below /\ watched' = FALSE
       ELSE frames' = <<Call(owner)>> \o below /\ watched' = TRUE

(* The next hook of the innermost dispatch. told has the hooks it reached,   *)
(* those refused for the depth included.                                     *)
FireNext ==
    /\ ~ Idle /\ Top.at = "fire"
    /\ \E next \in Top.refs :
          /\ \A h \in Top.refs : next.id <= h.id
          /\ LET owner == At(registry, next.ref)
                 reached == IF owner[1] = "hook" THEN {owner[2]} ELSE {}
             IN GuardedCall(next.ref,
                    <<[Top EXCEPT !.refs = @ \ {next}, !.told = @ \cup reached]>>
                    \o Tail(frames))
    /\ UNCHANGED <<registry, tables, saved, panels, reload_pending, next_timer_id, reloads,
                   world>>

(* Then the IPC subscribers are told, and the event is over.                 *)
FireEnd ==
    /\ ~ Idle /\ Top.at = "fire" /\ Top.refs = {}
    /\ frames' = Tail(frames)
    /\ UNCHANGED <<registry, tables, saved, panels, reload_pending, next_timer_id, watched,
                   reloads, world>>

(* The function ends. The watchdog is taken out of L, whoever called.        *)
CallEnd ==
    /\ ~ Idle /\ Top.at = "call"
    /\ frames' = Tail(frames)
    /\ watched' = FALSE
    /\ UNCHANGED <<registry, tables, saved, panels, reload_pending, next_timer_id, reloads,
                   world>>

-----------------------------------------------------------------------------
(* What the event loop dispatches: a key, a click on a bar, a timer, a       *)
(* signal, and events of the desktop.                                        *)
Press(k) ==
    /\ Idle
    /\ \E n \in DOMAIN tables.keybinds :
          /\ tables.keybinds[n].key = k
          /\ \A i \in 1..(n - 1) : tables.keybinds[i].key # k
          /\ GuardedCall(tables.keybinds[n].ref, <<Invoke(0, NoRef, 0)>>)
    /\ UNCHANGED <<registry, tables, saved, panels, reload_pending, next_timer_id, reloads,
                   world>>

(* A press of the button on a window: invokeWithClient.                      *)
PressButton(b) ==
    /\ Idle
    /\ \E n \in DOMAIN tables.mousebinds :
          /\ tables.mousebinds[n].button = b
          /\ \A i \in 1..(n - 1) : tables.mousebinds[i].button # b
          /\ GuardedCall(tables.mousebinds[n].ref, <<Invoke(0, NoRef, 0)>>)
    /\ UNCHANGED <<registry, tables, saved, panels, reload_pending, next_timer_id, reloads,
                   world>>

(* A click on a bar or a widget window that has a node, and one that shows.  *)
Click(b) ==
    /\ Idle /\ panels[b].output # "none" /\ panels[b].visible /\ panels[b].ref # NoRef
    /\ GuardedCall(panels[b].ref, <<Invoke(0, NoRef, 0)>>)
    /\ UNCHANGED <<registry, tables, saved, panels, reload_pending, next_timer_id, reloads,
                   world>>

Fired(x) == [x EXCEPT !.armed = FALSE, !.fired = TRUE]

TimerFires(x) ==
    /\ Idle /\ x.armed
    /\ tables' = [tables EXCEPT !.timers = (@ \ {x}) \cup {Fired(x)}]
    /\ GuardedCall(x.ref, <<Invoke(x.id, x.ref, x.interval)>>)
    /\ UNCHANGED <<registry, saved, panels, reload_pending, next_timer_id, reloads, world>>

Happens(e) ==
    /\ Idle /\ "fire" \in session /\ HooksOn(tables, e) # {}
    /\ frames' = <<Fire(e)>>
    /\ UNCHANGED <<registry, tables, saved, panels, reload_pending, next_timer_id, watched,
                   reloads, world>>

(* LuaConfig::reload begins: everything is put aside, a new Lua state made   *)
(* and rc.lua loaded. The ids of timers go on; what the server owns stays.   *)
BeginReload(below) ==
    /\ saved' = [registry |-> registry, tables |-> tables]
    /\ registry' = EmptyRegistry
    /\ tables' = EmptyTables
    /\ frames' = <<Load>> \o below
    /\ reloads' = reloads + 1

(* SIGHUP, or "reload" over the IPC socket.                                  *)
Sighup ==
    /\ Idle /\ "reload" \in session /\ reloads < MaxReloads
    /\ BeginReload(<<>>)
    /\ UNCHANGED <<panels, reload_pending, next_timer_id, watched, world>>

Trampoline == [Top EXCEPT !.at = "tramp"]

(* invoke, were the reload to begin with the ids of timers again at one.     *)
InvokeEndRestartingIds ==
    /\ ~ Idle /\ Top.at = "invoke"
    /\ IF reload_pending /\ reloads < MaxReloads
       THEN BeginReload(<<Trampoline>> \o Tail(frames)) /\ reload_pending' = FALSE
            /\ next_timer_id' = 1
       ELSE /\ frames' = <<Trampoline>> \o Tail(frames)
            /\ UNCHANGED <<registry, tables, saved, reload_pending, reloads, next_timer_id>>
    /\ UNCHANGED <<panels, watched, world>>

(* invoke, invokeWithClient and invokeBarClick after the call: a reload that *)
(* was asked for is made now.                                                *)
InvokeEnd ==
    /\ ~ Idle /\ Top.at = "invoke"
    /\ IF reload_pending /\ reloads < MaxReloads
       THEN BeginReload(<<Trampoline>> \o Tail(frames)) /\ reload_pending' = FALSE
       ELSE /\ frames' = <<Trampoline>> \o Tail(frames)
            /\ UNCHANGED <<registry, tables, saved, reload_pending, reloads>>
    /\ UNCHANGED <<panels, next_timer_id, watched, world>>

(* timerTrampoline after the call, were the slot of a one-shot released by   *)
(* the number it had before the call.                                        *)
TrampolineEndReleasing ==
    /\ ~ Idle /\ Top.at = "tramp"
    /\ tables' = [tables EXCEPT !.timers =
          {x \in @ : x.id # Top.timer} \cup
          IF Top.interval > 0
          THEN {[x EXCEPT !.armed = TRUE] : x \in TimersIn(tables, Top.timer)} ELSE {}]
    /\ registry' = IF Top.timer # 0 /\ Top.interval = 0 THEN Unref(registry, Top.ref)
                   ELSE registry
    /\ frames' = Tail(frames)
    /\ UNCHANGED <<saved, panels, reload_pending, next_timer_id, watched, reloads, world>>

(* ... were a one-shot left in the table.                                    *)
TrampolineEndKeeping ==
    /\ ~ Idle /\ Top.at = "tramp"
    /\ LET mine == IF Top.interval > 0 THEN TimersIn(tables, Top.timer) ELSE {}
       IN tables' = [tables EXCEPT !.timers =
              (@ \ mine) \cup {[x EXCEPT !.armed = TRUE] : x \in mine}]
    /\ frames' = Tail(frames)
    /\ UNCHANGED <<registry, saved, panels, reload_pending, next_timer_id, watched, reloads,
                   world>>

(* timerTrampoline after the call: it looks the timer up again, re-arms it   *)
(* or erases it, its slot with nobody to release it.                         *)
TrampolineEnd ==
    /\ ~ Idle /\ Top.at = "tramp"
    /\ LET mine == TimersIn(tables, Top.timer)
       IN tables' = [tables EXCEPT !.timers =
              (@ \ mine) \cup IF Top.interval > 0
                              THEN {[x EXCEPT !.armed = TRUE] : x \in mine} ELSE {}]
    /\ frames' = Tail(frames)
    /\ UNCHANGED <<registry, saved, panels, reload_pending, next_timer_id, watched, reloads,
                   world>>

(* The rest of Server::reloadConfig, after either outcome: the rules there   *)
(* are now are applied to the outputs; where there is none nothing is undone.*)
Reapplied(t) == [m \in Monitor |-> Applied(m, RuleFor(t, m))]

(* rc.lua is loaded. At a cold start a failure ends the compositor.          *)
LoadOk ==
    /\ ~ Idle /\ Top.at = "load"
    /\ mode' = IF saved = NoConfig THEN mode ELSE Reapplied(tables)
    /\ saved' = NoConfig
    /\ frames' = Tail(frames)
    /\ UNCHANGED <<registry, tables, panels, reload_pending, next_timer_id, watched, reloads,
                   session>>

RollBack(t) ==
    /\ ~ Idle /\ Top.at = "load" /\ saved # NoConfig
    /\ registry' = saved.registry
    /\ tables' = t
    /\ saved' = NoConfig
    /\ frames' = Tail(frames)
    /\ UNCHANGED <<panels, reload_pending, next_timer_id, watched, reloads, session>>

(* LuaConfig::reload, were the hooks of the failed script kept.              *)
LoadFailsKeepingHooks ==
    /\ RollBack([saved.tables EXCEPT !.hooks = tables.hooks])
    /\ mode' = Reapplied(saved.tables)

(* Server::reloadConfig, were it to return when reload() fails.              *)
LoadFailsEarly == RollBack(saved.tables) /\ UNCHANGED mode

(* rc.lua fails half way: its Lua state is closed and the old one restored.  *)
LoadFails == RollBack(saved.tables) /\ mode' = Reapplied(saved.tables)

(* A new output looks for its rule, and prefers a mode where it gets none.   *)
Plug(m) ==
    /\ Idle /\ UsesOutputs /\ mode[m] = "none"
    /\ mode' = [mode EXCEPT ![m] =
          IF RuleFor(tables, m) \in {"none", "keep"} THEN "preferred"
          ELSE RuleFor(tables, m)]
    /\ UNCHANGED <<registry, tables, saved, panels, frames, reload_pending, next_timer_id,
                   watched, reloads, session>>

(* What is on an output that goes stays, without a node, for good.           *)
Unplug(m) ==
    /\ Idle /\ mode[m] # "none"
    /\ mode' = [mode EXCEPT ![m] = "none"]
    /\ panels' = [b \in Panel |-> [panels[b] EXCEPT !.output = IF @ = m THEN "none" ELSE @]]
    /\ UNCHANGED <<registry, tables, saved, frames, reload_pending, next_timer_id, watched,
                   reloads, session>>

RcLua ==
    \/ \E k \in Key : LBind(k)
    \/ \E b \in Button : LMousebind(b)
    \/ \E e \in Event : LHook(e) \/ LFire(e)
    \/ LRule
    \/ \E h \in tables.hooks : LUnhook(h)
    \/ LSetInterval \/ LSetTimeout
    \/ \E x \in tables.timers : LCancel(x)
    \/ \E b \in Bar, m \in Monitor : LBarCreate(b, m)
    \/ \E w \in Window, m \in Monitor : LWidgetWindowCreate(w, m)
    \/ \E b \in Bar : LBarOnClick(b) \/ LBarDestroy(b)
    \/ \E w \in Window : LWidgetOnClick(w) \/ LWidgetWindowDestroy(w)
    \/ \E w \in Window, visible \in BOOLEAN : LShow(w, visible)
    \/ \E name \in Visual \cup Behavior :
          LVisualSet(name) \/ LBehaviorSet(name) \/ LSet(name)
    \/ \E name \in Monitor \cup {"*"}, rule \in Mode \cup {"keep"} : LMonitorSet(name, rule)
    \/ LReload

EventLoop ==
    \/ \E k \in Key : Press(k)
    \/ \E b \in Button : PressButton(b)
    \/ \E b \in Panel : Click(b)
    \/ \E x \in tables.timers : TimerFires(x)
    \/ \E e \in Event : Happens(e)
    \/ \E m \in Monitor : Plug(m) \/ Unplug(m)
    \/ Sighup

Next ==
    \/ RcLua \/ EventLoop
    \/ FireNext \/ FireEnd \/ CallEnd \/ InvokeEnd \/ TrampolineEnd
    \/ LoadOk \/ LoadFails

Spec == Init /\ [][Next]_vars

-----------------------------------------------------------------------------
(* A keybind, hook, timer or bar calls its own function and no other: its    *)
(* registry slot holds what was registered for it, and no released slot is   *)
(* given out twice, whatever is unhooked or cancelled from inside its own    *)
(* call, reloaded or rolled back.                                            *)
OwnSlots(r, t) ==
    /\ \A n \in DOMAIN t.keybinds : At(r, t.keybinds[n].ref) = <<"key", n>>
    /\ \A n \in DOMAIN t.mousebinds : At(r, t.mousebinds[n].ref) = <<"button", n>>
    /\ \A h \in t.hooks : At(r, h.ref) = <<"hook", h.id>>
    /\ \A x \in t.timers : At(r, x.ref) = <<"timer", x.id>>
    /\ \A n \in DOMAIN r.free : At(r, r.free[n]) = Free
    /\ \A m, n \in DOMAIN r.free : r.free[m] = r.free[n] => m = n

RefsOwned ==
    /\ OwnSlots(registry, tables)
    /\ saved # NoConfig => OwnSlots(saved.registry, saved.tables)
    /\ "reload" \notin session =>
          \A b \in Panel : panels[b].ref # NoRef => At(registry, panels[b].ref) = <<"panel", b>>

(* A dispatch that ends has called every hook that was registered when the   *)
(* event happened and still is, the depth cap apart: hooks that unhook       *)
(* themselves or each other, or hook more, make it pass over none.           *)
HooksAllTold ==
    ~ Idle /\ Top.at = "fire" /\ Top.refs = {}
    => Top.due \cap HookIds(tables) \subseteq Top.told

(* Between callbacks every timer in the table waits for its time, and a      *)
(* one-shot that fired is not among them; and a one-shot that the trampoline *)
(* drops has fired, also when its callback reloaded the configuration.       *)
TimersArmed ==
    Idle => \A x \in tables.timers : x.armed /\ (x.fired => x.interval > 0)

TimersFireBeforeTheyGo ==
    [][~ Idle /\ Top.at = "tramp" =>
          \A x \in tables.timers : TimersIn(tables', x.id) = {} => x.fired]_vars

(* An output that has a rule of its own is in the mode that says, also after *)
(* a script that had set another was rolled back.                            *)
RulesInForce ==
    Idle => \A m \in Monitor : tables.rules[m] \in Mode /\ mode[m] # "none"
                                => mode[m] = tables.rules[m]

(* Whoever looks at the configuration sees a reload happen in one step, when *)
(* rc.lua loaded to its end, or not at all.                                  *)
Config ==
    IF saved # NoConfig THEN saved ELSE [registry |-> registry, tables |-> tables]

ReloadIsAtomic ==
    [][\/ saved = NoConfig /\ saved' = NoConfig
       \/ Config' = Config
       \/ Config' = [registry |-> registry, tables |-> tables]]_vars
=============================================================================
