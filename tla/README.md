# uwuwm in TLA+

uwuwm is a tiling Wayland compositor written in C++ on wlroots 0.20, configured
in Lua and controlled over an IPC socket. It is one process with one event
loop: every listener callback (a client's request, an input event, an output's
frame, a timer, an IPC request, a Lua callback) runs to completion before the
next one starts. There are no data races to model. What is hard is the order in
which clients, the user, the hardware and Lua make those callbacks happen, how
many pieces of state one callback has to move together, and what a callback
finds when an earlier one left something half done.

This directory models that state machine in TLA+, checks it with TLC on small
instances and proves the properties that matter most with TLAPS for all sizes.

Paths below are relative to the repository's `src/` directory unless they start
with `lib/`.

## 1. Inventory

| Component | State it keeps | Operations | Hard behaviour | What makes it correct |
|---|---|---|---|---|
| **Server: focus** (`server.cpp`) | `focused_view`, `focused_output`, `session_locked`, the seat's keyboard focus | `focusView`, `getFocusedOrDefaultOutput`, `closeOnTag`, `reloadConfig`, `arrangeAllOutputs` | every way a window goes away has to move keyboard, activated state and announcement together; refusal while locked; hooks that call back | the three parties that learn of focus agree; no window gets keys or focus behind a lock |
| **View** (`view.cpp`) | tags, output, floating, fullscreen, minimized, node enabled, animation, opacity | `setTags`, `setFloating`, `setFullscreen`, `setMinimized`, `close`, `beginInteractiveMove/Resize`, `tickAnimation`, foreign-toplevel requests | setters that have to re-arrange; an animation that ends, later, in disabling the node or sending the close request | what is shown and tiled is what tags, tagset and flags select |
| **XDG toplevels, X11 windows** (`toplevel.cpp`, `xwayland_view.cpp`) | mapped, the pending configure, the parent | map, unmap, destroy, commit, configure requests | a map on no output, an unmap in the middle of a drag, configures acknowledged late | pointers to a window die with it; sizes converge |
| **Output** (`output.cpp`) | tagset, layout tree, usable box, adaptive sync, nodes | connect, mode change, unplug with migration, `setTagset`, frame | hotplug down to no output at all; a tagset switched back while windows slide | no window is lost; adaptive sync follows focus and visibility |
| **Layout** (`layout.cpp`, `dwindle.cpp`) | the layout mode, the dwindle tree of splits | `arrange`, insert, remove, reconcile, five commands | a tree synchronised lazily with the tiled windows | each tiled window has one slot, slots do not overlap |
| **Input** (`input.cpp`) | cursor mode, grabbed view, mousebind flag, active pointer constraint, keyboards, device rules | button, motion, key, constraint create/destroy/commit, device hotplug | press and release paired across grabs, binds and bars; constraints that outlive their surface | each client sees balanced buttons; grabs end with their view |
| **Session lock** (`session_lock.cpp`) | the lock client, one surface and backdrop per output | lock, map surface, unlock, client crash, output hotplug while locked | the session stays locked when the client dies, and through hotplug | no desktop pixel or key while locked |
| **Lua** (`lua_config.cpp`) | the VM, hooks, binds, timers, rules, the reload flag, the watchdog | load, guarded calls, fire events, timers, reload | nested guarded calls, hooks changed during dispatch, reload asked for by a callback of the VM it replaces | no reference is used after its VM or its release; every callback is bounded |
| **IPC** (`ipc.cpp`) | clients, their in and out buffers, subscriptions | accept, read, dispatch, broadcast, flush, drop | partial reads and writes, slow readers, a drop during a broadcast | each request is answered once, in order; buffers are bounded |
| **Layer shell, bars, widgets** (`layershell.cpp`, `bar.cpp`, `widget.cpp`) | surfaces and bars per output and layer, the usable box | commit, map, unmap, destroy, arrange, click | exclusive zones of unmapped surfaces, callbacks of an old VM | the usable box is what the mapped ones leave |
| **Idle inhibition** (`idle.cpp`) | inhibitors, the inhibited flag | create, destroy, recompute | visibility changes that do not recompute | inhibited exactly while an inhibitor is visible |
| **Popups, decorations** (`popup.cpp`, `decoration.cpp`) | ownership only | create, destroy | destroy order | none dangling |
| **Text, wallpaper** (`text.cpp`, `wallpaper.cpp`) | caches and pixels | rasterise | none of interest | none stated |
| **paw, nyaa** (`lib/`) | special workspaces, sugar | Lua functions over the API | special workspaces against hotplug | a workspace that is shown can be hidden again |

How they interact: every handler reaches the others by direct calls. The core
is the cycle *handler → setter of View or Output → `layout::arrange` →
`Output::updateAdaptiveSync`*, with `Server::focusView` called from handlers on
both sides of it. Pointers are raw: `Server` points to the focused view and
output, `View` to its output, the cursor to the grabbed view. Lua is called
from most of these through hooks and calls most of them back.

The `hazards` list of `PROJECT.json` names each of these difficulties at the
line where it bites, with the property that covers it or the reason why none
does.

## 2. Modules

| Module | What it is |
|---|---|
| `Desktop` | windows, outputs, focus, drags and the keyboard side of the lock: state, actions, properties |
| `Desktop_proof` | types, the inductive invariant, focus, pointers and lock |
| `DesktopLayout_proof` | layout, scene and adaptive sync keep up with the windows |
| `Dwindle` | the split tree of one output, what reaches it, and its five commands |
| `Dwindle_proof` | the tree stays a tree and tiles, who moves, rotations and `movetoroot`, for any number of windows |
| `IpcProtocol` | the words of the IPC socket: requests, answers, events |
| `IpcService` | what the socket promises its clients: the abstract specification |
| `Ipc` | connections, buffers, sockets and the event loop, which implement it |
| `Ipc_proof` | output is queued exactly when the loop watches for room; `Ipc` implements `IpcService` |
| `Input` | pointer, buttons, keys, drags, constraints |
| `Input_proof` | constraints, keys and the confined cursor |
| `InputClaims` | what a comment says of releases, and the code does not do |
| `SessionLock` | backdrops, lock surfaces, where outputs are and the keyboard, through hotplug and crashes |
| `SessionLock_proof` | outputs stay covered, the keyboard stays on the prompt, no output points to anything gone |
| `LuaHost` | the Lua registry, hooks, timers, nested calls, reload and rollback |
| `LuaHost_proof` | references, hooks, timers, rules and reload |
| `Configure` | the size negotiation with one xdg or X11 window |
| `Configure_proof` | no tiled client that draws the wrong width is left waiting |
| `MCDesktop`, `MCDwindle`, `MCIpc`, `MCInput`, `MCSessionLock`, `MCLuaHost`, `MCConfigure` | instances for TLC |

How they compose. `Ipc` and `IpcService` share `IpcProtocol`, and the first is
checked and proved to implement the second. The others are modules of one event loop that
meet at a few calls, and each has the others' side of a call as an environment
that may do more than the code: `SessionLock` lets windows gain and lose the
focus at any time (`Server::focusView`, the subject of `Desktop`), `Input` lets
windows be mapped, moved and raised at any time, `Configure` lets `layout::arrange` give any
slot, `Ipc` lets events happen at any time, `LuaHost` lets a function do any
calls in any order.

### How `Desktop` corresponds to the code

State. A *desk* is a record of all views, all outputs and the seat. `view[v]`
holds the fields of `struct View` that steer control (`ViewState`), `out[o]`
those of `struct Output`, `seat` those of `struct Server` and of wlroots' seat.
`older` is the order of `Server::views` and `Server::outputs`, as the set of
pairs whose first element was created before the second: list searches that
return the first match become `FirstOf`, the circular walks of `focus_next` and
`focus_monitor` become `Following`. A view or an output slot is reused after a
destroy, so the pools bound what exists at one time, not how many ever do.

Handlers. A handler calls helpers that change views, outputs and the seat in
turn, and the order matters (the focus search at unmap runs before the
`arrange`, adaptive sync after it). Each helper is an operator from a desk to
the desk it leaves, with the name it has in the code (`Arrange`, `FocusView`,
`SetTags`, `SetFloating`, `SetFullscreen`, `SetMinimized`, `SetTagset`,
`Close`, `UpdateSync`, `StartAnim`), and an action composes them in the order of
its handler and commits the last desk. This keeps one action per handler, and
it gives the proofs one lemma per helper.

| Actions | Handlers |
|---|---|
| `NewView`, `MapView`, `UnmapView`, `DestroyView` | new toplevel, `handleMap`, `handleUnmap`, `handleDestroy`/`~View` |
| `Associate`, `Dissociate` | an X11 window gets its wl_surface, or loses it |
| `RequestFullscreen`, `Activate`, `RequestMinimize`, `RequestClose` | client and foreign-toplevel requests, `xdg_activation`, the same setters from Lua |
| `Focus`, `FocusDirection`, `FocusMonitor` | click, focus-follows-mouse, `client:focus()`, `uwu.focus_next/prev`, `uwu.focus_monitor` |
| `RequestFloating`, `RequestTags`, `MoveToOutput`, `SwitchTagset`, `CloseOnTag`, `PlaceFloating`, `Reload` | Lua and IPC |
| `BeginGrab`, `Drag`, `EndGrab` | interactive move and resize |
| `ConnectOutput`, `RequestState`, `ArrangeOutput`, `DestroyOutput`, `FinishAnim` | hotplug, mode change, `arrangeLayers` and layout commands, frames |
| `Lock`, `MapLockSurface`, `DestroyLockSurface`, `Unlock`, `CrashLock` | session lock |

Abstractions. Geometry is reduced to what computed it last and for which output
(a slot of `arrange`, the whole output, a floating placement); opacity to
"a finished close animation left it at 0" (`faded`); an animation to what it
does when it ends. Tags are a set, a tagset a non-empty set of them. A client is
free in everything the code leaves to it: it maps floating or fullscreen or
neither, obeys a close request by unmapping or never does, unmaps and destroys
when it likes. `surface` is whether a view has a wl_surface, which an X11 window has not
before `Associate` nor after `Dissociate`: `focusView` and `Unlock` give the keyboard to a view
that has one and otherwise leave it where it is. `told` is a history variable: the last view `client::focus`
named, cleared by `client::unfocus` and `client::unmanage`.

`CONSTANT Requests` is the set of request kinds the environment issues in a
run. It narrows the environment, never the code, and each run names its own.
The theorems hold for every value of it, those with a hypothesis (section 4) for every value
the hypothesis allows. `"bare"` is in it where X11 windows may be without a surface, `"sync"` where
a monitor rule may turn adaptive sync on for an output that connects.

Left out of outputs: failing commits, rules that turn an output off (`enabled = false`), and the game content type that lets
`updateAdaptiveSync` turn sync on for a window that is not alone
(`output.cpp:105-120`). The tree of the dwindle layout is not in `Desktop` either:
its `arrange` gives a slot to the tiled views and touches no other, which
`Dwindle` shows is what happens except for stale leaves (section 5).

Hooks do nothing in `Desktop`. Override-redirect X11 windows are outside it:
no handler modelled there touches them.

### How `Dwindle` corresponds to the code

`tree` is `Output::dwindle_root` as the code has it: a root, and for each node
its parent pointer, its two children, orientation, ratio and box. A leaf is
named by its view and an inner node taken from a pool of one less than there
are views, which is all a tree of that many leaves has. Children and parent
pointers are separate, because the code relinks both by hand. `tree.geo` is what
`setGeometry` last gave each view: the box of its leaf less the gap (`Inset`, whose sides are
at least a pixel, as `recalc` has it), or one of three marks for other origins.
`InsertLeaf`, `RemoveLeaf`, `Sync`, `Arrange`, `Recalc` and the five commands have
the names and the order of effects of `dwindle.cpp`. `recalc`, `firstLeaf` and
`collectLeaves` recurse down the tree in the code. Here `Below`, a recursive function
of the depth, is the set of nodes under one; `Recalc` gives each of them the share of the
box that its parent has, and `FirstOf` is the leaf the code's walk meets first, the one
with no other to its left. `DropStale` and `AddMissing` are the two loops of `sync`.
No definition is a recursive operator, which the proofs could not unfold.

`at` reduces the rest of the desktop to what the tree can see: whether
`getTiledViews` counts a view, and whether an arrange of this output followed when
that changed. `Retile` is every handler that ends in `layout::arrange` (map, unmap,
minimize, tags, tagset, floating, a move to this output, fullscreen off, reload).
`EnterFullscreen`, `MoveAway` (`move_to_output`) and `Destroy` (`~View`) are those that do not, and
their leaves become stale. A view that is destroyed has been unmapped, and its leaf is
still there if that arranged another output or the master-stack layout. The commands are given the focused view and, as in
the code, never ask for the layout. `Resize` is a change of the usable box.

A stale leaf may outlive its `View`, and `sync` may lay it out once more before it drops it, which
in the code is a write to freed memory (section 5). What that write does to anything else is
not modelled: the steps after it are those of a build that it does not disturb.

Abstractions: ratios are in tenths; the order of `Server::views` is any
order, for it only matters among views that get a leaf in the same arrange;
the pointer is at one of a few points. A view that comes back after `MoveAway` has
its old leaf, as one moved away and back does in the code. A slot that is used again after
`Destroy` may find the old leaf too, as a `View` allocated at the same address does.

### How `Ipc` corresponds to the code

A line goes over the wire in two halves, so a read or a write can stop inside
it. `up` and `down` are the two directions of a client's socket, `SockCap`
halves each; `inbuf`, `outbuf` and `sub` are those of `IpcServer::Connection`, and
`watching` is whether its event source waits for room to write.

`Accept`, `HangupReady`, `ReadReady` and `WriteReady` are `handleAccept` and the
branches of `handleConnectionReady`. A read handler takes several steps here:
one that reads (`ReadReady`), one per request line (`HandleRequestLine`) and the end
with its flush, or its drop after an end of file (`FinishReading`). Between them the
clients run, as other processes do, and `current` keeps every other handler out.
`TryFlush` is in all of them. `DesktopEvent` is an event the desktop announces outside
a request; `focus_tag` announces one inside it, so that an event line can precede
the answer to the request that caused it, as in the code.

`running` is whether the compositor is there. Nothing in the program ignores or handles SIGPIPE,
so `TryFlush` with something to write to a client that has gone ends the process: no action is
enabled after that. A client may go between the poll and the write, or be gone when an event is
broadcast, before the loop gets to its hang-up.

`IpcService` has no buffers: a client's requests are a queue (`asked`), what it is sent
another (`owed`). `Serve` takes the first request, sends the answer and any event in
one step; `Happens` sends an event to its subscribers. `Admit` lets those that wait in, or
turns them away. `Finish` and `LetGo` end the connection of a client that asks no more,
`HangUp` and `Notice` that of one that hangs up: only the client can, and the service notices
later. They are as weak as the code: a client that shut down its writing end may lose the end
of what it is owed, and while a client that was let in has hung up unnoticed the service may end for
all (`End`). The refinement mapping is in `Ipc` (`Service`): `serving` is `running`,
`admitted` the connections that are open, `asked` what `inbuf` and `up` hold in whole lines, `owed`
`down` followed by `outbuf`, `link` how the connection looks to its client, `heeded` its
subscriptions while it is connected.

Abstractions: commands that act on windows answer without acting; JSON is one
`snapshot` line; read errors other than a hang-up do not happen; a client
connects once.

### How `Input` corresponds to the code

The screen is a row of pixels, because each axis is handled alike, and a window
an interval on it. `Motion` is `cursor_motion` and `cursor_motion_absolute` with all of
`processCursorMotion`: drag, focus-follows-mouse, pointer focus, the switch of the
active constraint and its clamp. Presses and releases of buttons and keys follow the
branches of `cursor_button` and `Keyboard::handleKey`. Windows are mapped and unmapped at
any time and raised within their layer when they get the focus; clients ask for
drags, constraints and inhibitors at any time.

`mapped` is the set of windows in the scene and `above` the pairs of which the first is
drawn over the second: `Raised` is `View::updateZOrder`, and `DesktopViewAt` finds the
topmost window under a pixel (`TopmostAt`).

`held` is the hardware, `seen[v]` a history variable: what client `v` takes for down,
from the events it was sent, with the rules of Wayland for enter and leave.
`Sessions` names the kinds of input of a session. Each session is one of a set of
combinations, so that one run covers all without multiplying them; a session
narrows the environment, never the code.

Abstractions: borders have no width; layer surfaces, popups, scroll, touch, virtual
keyboards and device rules are left out; a window is one surface.

### How `SessionLock` corresponds to the code

A box is a place and a size (`Spot \X Mode`). `place[o]` is the box that `wlr_output_layout` has for
`o`, `layout_box[o]` the one the compositor read last (`updateLayoutBox`, at the output's own
connect and change). They differ because the layout places outputs with no position
in their monitor rule by itself (those not in `Pinned`) and may move them when another output
comes, goes or changes size: `Arranged` lets it move any of them anywhere.

`rect[l][o]` is the rectangle in the scene under lock `l`'s tree for output `o`, of the
box it was last given; `lock_backdrop[o]` and `lock_surface[o]` are the pointers
in `Output`. They are separate because they can disagree: a lock client that
crashes leaks its tree, and the next lock points the outputs to its own. `NewLock`,
`RefuseLock`, `NewSurface`, `MapSurface`, `DestroySurface`, `Unlock` and `LockDies` are the
handlers of `session_lock.cpp` and of `new_session_lock` in `server.cpp`; `Plug`, `Unplug`
and `SetMode` what `Output` does to backdrops. Lock clients and lock surfaces are
each used once, as their objects are in the protocol; an output comes back any
number of times. The keyboard of windows is reduced to whether there is a focused
view and whether a window's surface has the keyboard: that of the focused view, or of another if
that one has no surface yet. No monitor rule turns an output off.

`surf[s].output` is the reference a `SessionLockSurface` keeps to its `Output`, and `Freed` once
that is destroyed. `~SessionLockSurface` reads the output through it: nothing comes of the read, or
the compositor ends there (`Destroys`, `running`), and nothing is modelled after that.

### How `LuaHost` corresponds to the code

`registry` is `luaL_ref`'s table: slots and the list of released ones, the last
released given out first. A slot's content is the owner the function was
registered for, so a call by a stale reference shows as a wrong owner. `frames`
is the C++ and Lua stack: rc.lua being loaded, a function in `guardedCall`, the loop
of `fireClientEvent` with its snapshot of references, what `invoke` does after the
call, the timer trampoline. Each `uwu.*` call is an action (`L...`) that a function
on top of the stack may do, at most `MaxOps` times; events, keys, timers and clicks are
actions of the event loop when the stack is empty. Hooks and timers are sets of records:
`addHook` appends and ids grow, so the list order of hooks is the order of their ids, in
which a dispatch calls them, and an id names one record.

A reload is `BeginReload` (the snapshot, a fresh registry, rc.lua on the stack),
then any calls of rc.lua, then `LoadOk` or `LoadFails`. Settings and monitor rules
keep only whether and what rc.lua has set; `mode` is the mode an output is really in.

Abstractions: a function ends by returning, an error or the watchdog, all the
same to the caller; of a monitor rule the mode is modelled and no rule turns its output off;
times are reduced to one-shot or repeating; `MaxSlots`,
`MaxHooks`, `MaxTimers` and `MaxReloads` bound what grows.

### How `Configure` corresponds to the code

`win` is one window with the sizes that matter: `geo` (the box of the layout or of a
float), `clip`, `recorded` (what the last commit drew), the size last scheduled, the
configures on their way (`asked`) and what the client has drawn. Sizes are widths,
since heights go through the same code. `Draw(n)` is a client that acknowledges the
`n`-th configure on its way, skipping those before, and commits; it runs all of
`handleCommit`. `SendConfigure` is wlroots' idle source that sends one event for all that
was scheduled. The helpers (`SetGeometry`, `ConfigureBackend`, `ApplyBox`, `Arrange`,
`SetFullscreen`, `SetFloating`, `HandleCommit`) have the names and order of the code, with
the differences between the two kinds of windows.

## 3. Runs

Views, outputs, clients, locks and surfaces are model values, symmetric where
only safety is checked. The types of `Ipc` are proved and not checked by a run.

| Run | Instance | Shows |
|---|---|---|
| `focus` | 2 views, 1 output, 1 tag; minimize, focus, lock, reload, grab, float | `FocusCoherent`, `SyncFresh`, `LockKeepsKeyboard`, `LockKeepsFocus` |
| `layout` | 2 views, 1 output, 2 tags; fullscreen, float, tags, tagset | `TypeOK`, `LayoutFresh`, `TiledInSlot`, `ShownIffVisible` |
| `hotplug` | 2 views, 2 outputs, 2 tags; unplug, move, monitor, tags, reload, rules for adaptive sync | `NoDangling`, down to no output at all, `UnplugKeepsWindows` |
| `slide` | 2 views, 1 output, 2 tags, animations on; tagset | `ScreenConverges` (liveness) |
| `close` | 2 views, with and without a surface, 1 output, 2 tags, animations on; tagset, close | `VisibleStaysEnabled` |
| `tree` | 3 views, at most one of them fullscreen or moved away at a time, a wide and a tall usable box, a gap of 1, splits kept, all commands, ratio steps of -0.9 | `TypeOK`, `WellLinked`, `LeavesTile`, `RotationsCancel`, `MovesToRoot`, `OthersStay` |
| `ipc` | 2 clients, 2 and 1 requests (`focus_tag`, `subscribe`), sockets of half a line | `QueuedIffWatched`, `ServiceKept` (refinement), `EveryRequestAnswered` (liveness) |
| `input` | 2 views on 3 pixels, a bar, one button, one key with a keybind, five kinds of sessions | `TypeOK`, `ConstraintFollowsPointer`, `NoStuckKey`, `ConfinedStaysInside` |
| `lock` | 2 outputs, one with a position of its own, 2 places, 2 modes, 2 lock clients, 2 lock surfaces | `TypeOK`, `LockCovers`, `KeyboardOnPrompt`, `PointersLive`, `StaysCovered` |
| `lua` | 1 key, 1 button, 2 events, 3 hooks, 3 timers, a bar, a widget window, 2 reloads, calls nested to 2 | `TypeOK`, `RefsOwned`, `HooksAllTold`, `TimersArmed`, `RulesInForce`, `ReloadIsAtomic`, `TimersFireBeforeTheyGo` |
| `configure` | 1 window of either kind, tiles of 4 and 6, a minimum of 3, 4 requests | `TypeOK`, `AskedWhileWrong`, `Settles` (liveness) |
| `stuck_button` | as `input`, buttons and keys only | violation of `ReleaseBalancesPress`, see section 5 |

Why the bounds are enough. Every handler acts on one view and at most relates it
to one other, the previous or the next focus, so two views give each role an
occupant, and destroying and creating in the same slot gives fresh ones. Two
tags give a window that is on, off or on both of a tagset's tags; the 0 mask is
tried on every setter that takes one. Two outputs give a migration and, both
unplugged, the state with none; they do not give a migration with a choice of
target, which is why `NoDangling` and `UnplugKeepsWindows` are also proved for any number. State spaces
are complete except that of `tree`, whose constraint `OneAside` leaves out states in which two views
at once are fullscreen or moved to another output; any number of them is hidden or gone,
with leaves left behind or not. What a module cannot
bound by its pools it bounds by constants in its guards, all of them declared as bounds:
`MaxAsk` and `MaxQueued` in `Ipc`, `MaxWidth` in `Input`, the `Max` constants of
`LuaHost`, `MaxRequests` in `Configure`.

Three views give the dwindle tree both its shapes and a view two levels down,
which is where `moveToRoot` first does something; the usable box of 8 by 6 or 5
by 6 pixels makes boxes wider than high and the reverse, odd halves and empty
ones, and a gap of 1 leaves nothing of the narrow ones, where a window gets its one pixel. A fourth level, where `moveToRoot` walks up more than once, is beyond the
run. Splits are kept (`dwindle_preserve_split`), the setting under which a command
has a lasting effect; with it off every recalc overwrites the orientation.

A socket of half a line makes every answer and event a partial write; two
clients are a subscriber and the one whose request causes the event, either of
which may be both. Three pixels hold two windows that overlap and a bar; two are the
least for which the pointer of one is not that of the other. Two lock clients
are one that crashes and one that replaces it, or is refused; two
modes make a stale rectangle, and two places with one output of each kind one that is moved by the
other and one that stays. Three hooks of two events are a hook that removes itself, one it
removes and one it adds during the dispatch, with released slots given out again;
two reloads are one from inside a callback and one after it, either of which may
fail. Calls nest to 2 instead of 8, which reaches the cap in two steps. Tiles
of 4 and 6 beside a border of 1 and a minimum of 3 are a tile above and one below the
minimum; four requests let three others overtake the answer to the first.

Deadlock is checked except in `ipc`, `lock`, `lua` and `configure`, where the system may
stop: every client has asked what it may and left, the compositor has ended, the callbacks and reloads of the bounds are
used up and rc.lua has left no key to press, the client has nothing to answer.

What is left out of a run on purpose. The requests of a run are those whose
interleaving its properties are about. `layout` has no `move` requests:
`client:move_to_output` (`lua_config.cpp:606-628`) arranges only the new output,
so with it `LayoutFresh` and `SyncFresh` fail for the output left behind, a
hazard listed without a property. `slide` has no `minimize`: `setTagset` starts a
slide on minimized windows as well and so enables their nodes
(`output.cpp:550`). `slide` has no `close` because the close animation of a
hidden window enables its node until the client unmaps. `focus` has neither `bare` nor `sync`, with which
`FocusCoherent` and `SyncFresh` fail (section 5); `close` has the first, `hotplug` the second.

`input` binds its mouse button to functions that begin a drag and checks no
property about releases, which is the violation. `lua` states `RefsOwned` of panels
in sessions without a reload only (a panel keeps the reference of a closed state,
section 5). `configure` has clients that draw what they are asked for
(`Step = 1`), and `Settles` speaks of tiled windows.

Fairness. `FairSpec` of `Desktop` adds, for each view, that its animation reaches its end or
is started over again and again. `Output::handleFrame` (`output.cpp:376-422`)
ticks the animations of every view on each frame of any output and asks for the
next frame while one is running, so a running animation reaches its end unless
something replaces it; with no output connected there are no frames and
`FinishAnim` is not enabled. While another VT is active `handleFrame` returns early:
the assumption includes that the user comes back. Nothing else is assumed of
clients or of the user.

`FairSpec` of `Ipc` says that a handler that began ends (`[]<>(Idle \/ ~running)`; it runs to
completion in one thread, unless a write in it ends the process) and that each descriptor that stays ready is served: the loop
polls level-triggered and dispatches everything that is ready in each pass. Of
the clients it assumes only that one that is connected reads what has arrived.
They need not ask, finish a line or stay. `Spec` of `Configure` has weak fairness of the idle
source that sends scheduled configures, and that a client which always has
configures to answer answers the last one again and again (`Answers`); a client
that never answers settles nothing. It may skip or answer older ones as it likes.

## 4. Proofs

The eight `*_proof` modules (those of `Desktop` are two) are checked by TLAPS for every value of the constants that
satisfies `DesktopConstants` (the first tag is one, the null values are not views or
outputs, `Requests` is a set of known kinds), `DwindleConstants` (a finite set of windows,
areas at least one pixel wide and high, an integer gap, known commands), `LockAssumption` (null values are
not members, the outputs with a position are outputs), `IpcAssumption` (a socket holds something, tags are positive,
subscriptions are to sets of categories), `InputAssumption` (the screen has a pixel, windows
are at least one wide), `LuaAssumption` (the depth cap is positive, the marks for "no
mode" are not modes) or `ConfigureAssumption` (widths are natural numbers, an output, a window's own
size and a step positive ones, and a client may have no minimum). The pools of views, outputs, tags, lock clients, IPC clients, keys,
hooks and timers may be of any size, infinite ones included; only the windows of a dwindle
tree are finitely many.

| Module | Theorem | States |
|---|---|---|
| `Desktop_proof` | `Typed` | `Spec => []TypeOK` |
| | `FocusIsCoherent` | `Spec => []FocusCoherent`, if `NoneBare` |
| | `PointersLive` | `Spec => []NoDangling` |
| | `LockHoldsKeyboard` | `Spec => []LockKeepsKeyboard` |
| | `LockHoldsFocus` | `Spec => LockKeepsFocus` |
| `DesktopLayout_proof` | `UnpluggedKept` | `Spec => UnplugKeepsWindows` |
| | `SyncAlwaysFresh` | `Spec => []SyncFresh`, if `Decides` |
| | `LayoutAlwaysFresh` | `Spec => []LayoutFresh`, if `Rearranges` |
| | `TiledAlwaysInSlot` | `Spec => []TiledInSlot`, if `Ungrabbed` |
| | `ShownAlwaysVisible` | `Spec => []ShownIffVisible`, if `~AnimEnabled` |
| | `VisibleAlwaysEnabled` | `Spec => []VisibleStaysEnabled`, if `Steady` |
| `Dwindle_proof` | `TypeCorrect` | `Spec => []TypeOK` |
| | `AlwaysLinked` | `Spec => []WellLinked` |
| | `AlwaysTiles` | `Spec => []LeavesTile` |
| | `OthersKeepTheirPlace` | `Spec => OthersStay` |
| | `AlwaysMovesToRoot` | `Spec => []MovesToRoot` |
| | `RotationsAlwaysCancel` | `TypeOK => RotationsCancel` |
| `SessionLock_proof` | `LockShape` | `Spec => []TypeOK` |
| | `LockAlwaysCovers` | `Spec => []LockCovers` |
| | `CoverIsKept` | `Spec => StaysCovered` |
| | `LockHoldsTheKeyboard` | `Spec => []KeyboardOnPrompt` |
| | `OutputsPointToLive` | `Spec => []PointersLive` |
| `Ipc_proof` | `IpcShape` | `Spec => []TypeOK` |
| | `QueuedAlwaysWatched` | `Spec => []QueuedIffWatched` |
| | `IpcKeepsService` | `Spec => ServiceKept`, the refinement of `IpcService` |
| `Input_proof` | `InputShape` | `Spec => []TypeOK` |
| | `ConstraintIsOfPointer` | `Spec => []ConstraintFollowsPointer` |
| | `NoKeyStuck` | `Spec => []NoStuckKey` |
| | `ConfinedCursor` | `Spec => ConfinedStaysInside` |
| `LuaHost_proof` | `LuaShape` | `Spec => []TypeOK` |
| | `RefsAlwaysOwned` | `Spec => [](Apart => RefsOwned)` |
| | `HooksReached` | `Spec => [](Apart => HooksAllTold)` |
| | `TimersAlwaysArmed` | `Spec => []TimersArmed` |
| | `TimersGoFired` | `Spec => TimersFireBeforeTheyGo` |
| | `RulesAlwaysInForce` | `Spec => []RulesInForce` |
| | `ReloadAllOrNothing` | `Spec => ReloadIsAtomic` |
| `Configure_proof` | `TypeCorrect` | `Spec => []TypeOK` |
| | `AlwaysAsked` | `Spec => []AskedWhileWrong`, if `"x11" \in Kind => Step = 1` |

The hypotheses. Nine theorems have one, because without it the property is false of the code
in a way that section 5 or the hazards record. Each leaves out what breaks that property
and nothing else:

* `NoneBare` (no X11 window without a surface): one can be focused from Lua and then has the focus
  and not the keyboard (`server.cpp:736`).
* `Decides` (`Rearranges`, and no rule for adaptive sync): an output that connects with such a
  rule keeps it until something arranges it (`output.cpp:260-264`).
* `Rearranges` (no `client:move_to_output`): it arranges only the new output, so the old
  one keeps a gap and its adaptive sync decision (`lua_config.cpp:606-628`).
* `Ungrabbed` (no interactive drags): a drag goes on with a window that was tiled
  meanwhile, and places it where the cursor is (`input.cpp:834`).
* `~AnimEnabled`: with animations on, nodes lag behind by intent.
* `Steady` (no tag change, no move, no unplug): each of the three can put a window that is
  sliding out back on screen and leaves the slide running, whose end disables the node.
  Everything else may happen, close animations of clients that do not obey included.
* `Apart` (not both click callbacks and reloads in one session): a panel's reference
  outlives the Lua state it is of, and what releases it then frees another's slot.
* `"x11" \in Kind => Step = 1` (X11 clients draw the width they are asked for): one that
  only draws multiples of a cell is asked once, and `pending_configure` then keeps the
  handler quiet (`xwayland_view.cpp:320-327`). Xdg clients may have any step.

They speak of `Requests`, of the animation setting, of `session` or of the client's step, which narrow the
environment and not the code, and the runs of these properties satisfy them. Each is needed: with any one
kind of request it excludes added to such an instance, with animations on, or with an X11
client that draws in steps of 2, TLC finds the property violated.

### The arguments

**Focus and pointers** (`Desktop_proof`). `TypeOK` is inductive by itself: one lemma
per helper (a desk goes to a desk), then one step per action. None of the other invariants
is. The inductive invariant is `IInv == TypeOK /\ Sound(desk)`, and `Sound` has three
parts that need each other:

* `Coherent`: the focused view, if there is one, is activated and was announced,
  and, if no window is without a surface, has the keyboard unless the session is locked.
* `Linked`: every pointer has a live target, the focused output is connected, and
  some output is focused if one is connected. It also says that a free slot names
  no output, which `NoDangling` does not: otherwise an unplug followed by a new
  view could leave a pointer to the old output.
* `Guarded`: while the session is locked no window has the keyboard.

`Unlock` shows why they go together: it gives the keyboard to whatever
`focused_view` is, so it needs `Linked` to know it is a live view, and it
restores the part of `Coherent` that the lock suspended.

The helpers fall in two kinds. Most of them leave phase, output, activated state
and the seat alone (`Kept`), and a lemma says once that `Kept` preserves
`Sound`. `FocusView` and its two callers, `PassFocus` and `SetMinimized`, move all
of focus together; `FocusViewMoves` says what they do. For the lock's action
property each lemma also carries `Behind`: behind the lock the focus stays or
becomes null (`Held`), and no output is unplugged (`Plugged`), which only
`DestroyOutput` does. `StepSound` combines one step per action, and the theorems
follow by PTL.

**Layout, scene and adaptive sync** (`DesktopLayout_proof`). All five properties say that
some cached decision is the one that would be made now: what an output's adaptive sync is,
which windows its slots were computed for, where a tiled window is, whether a node is
enabled. In the middle of a handler they are false, and which of them is depends on
the order of its calls. `Tidy(d, X)` says that a desk is fresh but for the outputs in
`X`, those still to be arranged. A setter makes an output stale, so it goes from `Tidy(d, X)`
to `Tidy(e, X \cup {o})`; `ArrangeTidy` says that `Arrange(d, O)` goes from
`Tidy(d, X \cup O)` to `Tidy(e, X)`; and each handler has to end with
`Tidy(e, Nowhere)`. So the proof of a handler follows the order of its calls, and fails
where a call is missing, which is how `move_to_output` shows.

The inductive invariant adds to it (`Orderly`) that with no drags nothing is grabbed,
and `AnimRight`: with animations off none runs, and in a `Steady` environment a running
animation that will disable the node is of a window that is on no shown tag. Without
the last, the end of an animation could hide a visible window. Animations can replace each
other, so each helper says what it does to them (`AnimKept`, `Calm`).

`UnpluggedKept` looks at one step, since only `DestroyOutput` disconnects an output.
The fold over the windows that migrate is abstracted by what it does for each
window alone (`Unplugging`), and the rest follows from the arrange that comes after it.

**Dwindle.** No invariant of it is inductive as it stands, not even `TypeOK`: that a new leaf
finds a free split needs the count of those in use, and that `recalc` gives a box to each
node needs the links. The inductive
invariant is `IInv`: `TypeOK`, `Sound(tree)` and, in the dwindle layout, `Tiles`. A sound tree is

* `Linked`: the children of a split in use are two and point back at it, what is not in
  use has neither children nor parent. `WellLinked` says this of whole subtrees
  (disjoint, not below themselves); `Linked` says it of single links, which a step changes
  one at a time, and `SoundIsLinked` gets the subtrees from the links.
* `Counted`: there is one leaf more than there are splits in use, so a pool of one split
  less than there are views has one left whenever a view has no leaf.

`Tiles` says that the root has the usable box, every split's children share its box
(`Boxed`), and each tiled view has a leaf and its box. That the boxes then cover each pixel
once is a walk from the root to the one leaf that has the pixel.

Nothing here uses induction over trees. The nodes below one are the least set that holds it
and is closed under children (`BelowLeast`, `UsedLeast`), so what holds of a
node and passes from splits to children holds of all below, by showing one set of nodes
closed. Parents are reached likewise, and who goes on to a child at every split
ends in a leaf: of the nodes passed one has the fewest below it, and it is no split (`Descent`). The recursive functions (`Below`, `Recalc`'s boxes, the loops of `sync`) are only
unfolded one step at a time, under a name for "each entry follows from the one before".

Each operation has a lemma for the links it makes (a leaf enters beside another, a leaf's
sibling takes its parent's slot, two nodes trade places), one that counts and one for the
boxes. `sync` removes and inserts one by one, and `arrange` from any sound tree gives one that
tiles; so commands and handlers only have to leave a sound tree, and those that do not arrange
(`EnterFullscreen`, `MoveAway`, `Destroy`) have to leave tiled views in place. Gaps do not enter into the
tiling: a window has the box of its leaf less the gap (`Inset`), and it is the boxes that tile.

`OthersKeepTheirPlace` looks at one step from a tree that tiles. If a view comes, the only box
that shrinks is the one it shares (`Arrival`); if one goes, the boxes outside its parent are
computed from the same splits as before and only those from its sibling down change (`Departure`).
With splits not kept (`dwindle_preserve_split` off) that needs `Boxed` to say as well that
each split is oriented as its box asks. `MovesToRoot` is of any linked tree: one child of the root is
an ancestor of the view, and only one. `RotationsCancel` needs the types alone: exchanging
two children and flipping an orientation are their own inverses, and a turn and its
complement exchange and flip in the same cases, because the second sees the
orientation that the first left.

**Session lock.** The inductive form of `LockCovers` is `CoverInv`, which is the shapes of what it
reads (`Held`) and three parts. `Settled`: an output with a position of its own is where it was when
it last looked, since the layout moves only the others. `Backed`: what points to a rectangle is
a connected output, and the rectangle has the box the output read last, whichever lock it is of; so
the output's own pointer says which rectangle a mode change or an unplug touches, and the
rectangles that crashed clients leave without a pointer need no invariant of their own. `Behind`:
while a lock is held, the session is locked and every connected output points to its rectangle.
`CoverIsKept` then looks at one step: the only one that takes rectangles away while the session stays
locked is an unplug, of its own output, and one that moves another output is excluded by the
property unless that one reads its box again. `KeyboardOnPrompt` is not inductive: `MapSurface`
gives the keyboard to any surface that maps, so `SurfacesOfHeld` says that surfaces
with a `SessionLockSurface` are of the lock that is held. `PointersLive` needs
`ClientOfHeld` besides: the client that holds the lock is the only one that does, so
the surfaces a crash or an unlock destroys are all that outputs may point to.

**IPC.** `QueuedIffWatched` speaks of connections that are accepted and not being handled.
The inductive form, `WireInv`, drops the first condition: every connection but the
current one has output exactly when it is watched, one that is dropped or not
accepted having neither. `FlushWatches` says that `TryFlush` establishes this for one
connection and leaves the others; `Broadcast` follows from it for all subscribers. The
end of a handler flushes or drops the current connection, which closes the gap.

The refinement needs two more invariants. `ShapeInv` says what a connection holds at each
point of its life, and of the handler in progress that its connection is open and that
an end of file was read only when nothing is left in the socket. `StreamInv` says that
`inbuf` followed by `up` is whole requests and then the half the client is typing: the
mapping halves that sequence, so taking a request off its front is taking one off
`asked`, and the first half of a request maps to a stutter. In the other direction nothing
need be said of the halves: `owed` is `down` followed by `outbuf`, and a partial write
moves the border between the two. `StepService` has one lemma per action; a read, a
flush are stutters, an accept is `Admit`, a request line is `Serve`, and the ways to lose a
connection are `Finish`, `LetGo`, `HangUp` and `Notice`. Each step that writes has two cases: no client
it writes to has gone, or one has and the step is `End` (`KilledService`); `HeardOrEnd` makes that split for
a broadcast. `End` is allowed because the client in question was let in and its link is
`"lost"`, which is what the mapping says of a connection that is open with its peer gone.

**Input.** A handler changes the `State` record in several places, so each operator on it
has a lemma that says what it changes and what it keeps, and handlers are put
together from those. `ConstraintFollowsPointer` is inductive with the types: `PointerFocus` is
called with the constraint's window or together with `Deactivate`. `NoStuckKey` is not:
it needs `KeysIn`, that only the window with the keyboard takes keys for down, or a release
would leave one with a window that is not told. `ConfinedStaysInside` is a property of
`Motion` alone; the point is that the constraint activated by the same motion clamps too,
and that what `Clamp` picks as nearest is inside.

**Lua.** `StackInv` gives the forms the stack can have: what the event loop began is outermost,
rc.lua is outermost or just inside the trampoline of the timer that asked for the reload,
a saved configuration implies rc.lua on the stack, the watchdog a call. With `IdsInv`
(ids of hooks and timers are new, also after a rollback) and `PanelInv` it is
`LuaInv`, which gives the types and the two facts on reload and rules.

`RefsOwned` becomes inductive by reading it from the owner's side (`Owned`): a slot that
someone holds contains that owner, free slots are listed once and contain `Free`, and
so no two owners share a slot; releasing one leaves the others theirs. The saved
state is owned without panels, since those are the server's. For `HooksAllTold` the
dispatch keeps a set of what it is due to call; `HookInv` says that each of those is
gone from the table, has been called or is still in the snapshot (`Reaches`), and
`RefsOwned` that the snapshot's reference calls that hook. For the timers, `TimerInv` says
that a timer whose callback is on the stack has fired with its interval, that every other
waits, and that ids on the stack are older than the next one, so that a timer of
the new configuration is never taken for the one that asked for the reload.

**Configure.** `AskedWhileWrong` is the safety half of `Settles`: when a tiled client draws
another width than its tile says, an event that says so is scheduled or on its way, so the
handlers are never wrong in believing that they asked. For xdg clients it is inductive
with the types. X11 clients have one flag, `pending_configure`, for many
events on their way, and a late answer to an old one may clear or keep it; `Right` says
that the last width such a client was asked for is the one its tile says now, so the
answers before it do not matter. Between a commit and its handler that is weakened
to `Unhandled`, and the handlers of both kinds restore `Right`. Each helper has a lemma that
says whether it leaves the window as it was (`Same`), told (`Told`), or not tiled.

The proof of the initial condition failed at first: the model had windows begin with no
minimum, and no assumption said that none is one of the minima. `ConfigureAssumption` now does.

### Only model-checked

* `ScreenConverges`, `EveryRequestAnswered` and `Settles`: liveness under fairness, out of the
  prover's reach.
* The properties with a hypothesis above, in environments outside it: there they are false.

## 5. Where code and documents disagree

`findings` in `PROJECT.json` has each of these with the lines that disagree. One has a
run of its own, `stuck_button`: a mousebind whose function begins no drag leaves
`mousebind_grab_active` set, and every later release is swallowed. The others were
met while modelling; those marked (m) were also reproduced on the models. Where a property of section 3 has to make
room for one, the invariant that TLC then finds violated on the instance of that run is given.

Focus and windows:

* An X11 window is a live client for Lua before it has a wl_surface. `client:focus()` on it moves the
  focus and leaves the keyboard on the window focused before, also after the map, whose
  `focusView` returns at its "same view" check (m, with `"bare"` in `Requests`:
  `seat.focused_view # NoView /\ Mapped(desk, seat.focused_view) /\ seat.lock = "none" =>
  seat.kb = seat.focused_view`).
* An output that connects with a rule for adaptive sync has it on with nothing on screen until
  something arranges it (m, `SyncFresh` with `"sync"` in `Requests`).
* The focus an unmapped window leaves can go to a minimized one (m).
* When the last focusable window goes, nothing announces it: `focused_view` is nulled
  before `focusView(next)`, which returns at its "same view" check (m).
* `setTags` during a slide-out shows the window again, and the end of the slide
  hides it (m). A client that ignores the close request stays on screen, transparent (m).
* Windows of the last output unplugged are not adopted by the next one (m). A fullscreen
  window that migrates keeps the geometry of the output that is gone (m).
* A window that went fullscreen keeps its leaf; when the window beside it closes,
  it is given a tile (m). The dwindle commands tile an output that is in the
  master-stack layout if it has a tree from before (m).
* A window that is destroyed without an arrange of its dwindle output leaves its leaf, and when the leaf
  beside it is removed the freed `View` is laid out (m:
  `\A v \in With(at, "none") : tree.geo[v] = Elsewhere`).
* A window in a box narrower than two gaps still gets one pixel, which may be its neighbour's.

Sizes (all on `Configure`, with a `Settles` that speaks of all windows, or `Step = 2`):

* A fullscreen xdg window is asked again after every commit, without end (m); so is
  a tiled one that only draws multiples of a cell (m).
* A fullscreen X11 window whose minimum is the output's size is made floating (m); one
  that is floating as well can move itself off the output (m).
* A minimum declared without a change of geometry does not reach the clip (m).
* A fullscreen request between unmap and the next initial commit schedules a
  configure on an uninitialized surface (m).

Input, lock, IPC:

* `Keyboard::handleKey` does not look at `session_locked`; a bar without a click function
  consumes the click.
* An output that the layout places by itself is moved by another that comes, goes or changes size, and
  its `layout_box`, backdrop and windows stay where it was; so does the backdrop of a lock that comes
  later (m: `session_lock # NoLock => \A o \in Connected : lock_surface[o] = NoSurface => Covered(o)`).
* A lock surface keeps a reference to its output, and reads it when it is destroyed after it
  (m: `running` in `SessionLock`).
* Rectangles of a crashed lock client stay after its successor unlocks (m); when the
  prompt that has the keyboard goes, no other gets it (m).
* A client that hangs up while something is to be written to it ends the compositor by SIGPIPE, which a
  comment beside the `write` takes for a harmless EPIPE (m: `running` in `Ipc`).
* A client that shuts down its writing end loses what one flush does not write (m).
  `subscribe` finds category names inside other words.

Lua:

* The snapshot of a dispatch holds references. One that a hook releases is given out again, and the
  dispatch calls the function that got it (m: `\A n \in DOMAIN frames : n > 1 /\ frames[n].at = "fire"
  => \E id \in frames[n].due : frames[n - 1].who = <<"hook", id>>`). `HooksAllTold` is of the hooks
  that are still registered, and `RefsOwned` of the tables, not of the snapshot.
* A nested call takes the watchdog from the outer one (m). One-shot timers keep their
  reference after they fired (m). An interval under a millisecond fires once.
* Bars and widget windows keep a callback of the closed state across a reload (m).
* A reload that fails rolls everything back, which `Server::reloadConfig` does not
  expect; the modes that deleted monitor rules had set stay (m); a `"*"` rule reaches no
  monitor at a cold start (m).
* A handle of a closed window can name a new one at the same address.

Also seen on the models and listed under `hazards` only: a close animation that is
replaced by another one never sends the close request; a drag goes on with a
window tiled meanwhile; the output a window is moved away from is not arranged; a
tagset switch draws minimized windows again; a reload asked for by a hook waits for
an unrelated callback.

## 6. What is not modelled, and what could follow

Not modelled, and why:

* **Layer shell** (`layershell.cpp`): geometry, half of it inside wlroots' scene helper; the
  usable box it computes is any box to `Dwindle`.
* **Idle inhibition** (`idle.cpp`): one flag that seven callers recompute. That tag and
  output changes are not among them is a listed hazard.
* **Popups, decorations**: ownership without state, and a stateless answer.
* **Drawing**: text, wallpaper, bars and widget trees; the widget layout is geometry.
* **Outputs a monitor rule turns off** (`enabled = false`, `output.cpp:172-177`, `561-600`): no module has them.
* **Start-up**, the vendored image loader and the protocol XML.
* **Device rules, cursor images, scroll and touch** (`input.cpp`): settings passed on to
  libinput and wlroots.
* **paw and nyaa** (`lib/`): sugar over the API, apart from special workspaces.

wlroots itself is the environment.

What could follow, by how much depends on it: hooks that call back into
`focusView` (`server.cpp:720-758`), which needs the steps of `Desktop`'s focus handlers split
and `LuaHost`'s calls between them; special workspaces
(`lib/paw/init.lua:567-735`) against hotplug; the slot arithmetic of master-stack.
