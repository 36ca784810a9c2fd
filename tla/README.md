# PeachWM in TLA+

A verification project for PeachWM, a dynamic tiling Wayland compositor in C on
wlroots. Source paths below are relative to the repository; `PROJECT.json` maps
every modelled definition to its lines, lists the runs, the hazards and the
theorems.

## 1. The system

PeachWM is one process and one thread: an event loop dispatches libwayland and
wlroots events to handlers, each of which runs to its end before the next one.
Concurrency is therefore not between threads but between *handlers*: windows,
outputs, keybindings, the pointer, Wayland clients and socket clients call in
any order, and every handler reads global lists that others left behind.
Handlers also call each other deeply (`cleanupmon` removes the output from the
layout, which emits a signal that runs `updatemons`, which closes outputs, which
moves windows, each of which rearranges two outputs and refocuses).

| Component | State | Operations | Talks to |
|---|---|---|---|
| Window-management core (`src/peachwm.c`, `client.c`, `include/*.h`) | `clients`, `fstack`, `mons`, `selmon`, each `Client` and `Monitor`, seat focus, `cursor_mode`/`grabc`, scene nodes | create, commit, map, unmap, destroy, fullscreen requests; `view`, `toggleview`, `tag`, `toggletag`, `tagmon`, `focusmon`, `focusdir`, `swapdir`, `setlayout`, `togglefloating`, ...; button, motion, drag | everything, by direct calls and globals |
| Outputs (`createmon` ... `updatemons`) | list, layout membership, `enabled`, `asleep` | plug, unplug, output-manager apply and test, power | layout-change signal, core, ext-workspace |
| Scratchpad (`scratchpad.c`) | `isscratchpad`; per output visible, current, previous focus | show, hide, send, take, cycle | core focus and layers |
| Layouts (`layout.c`) | per tag: slots, dwindle node array, anchor, master | `dwindle`, `master`, `monocle`, `swaptiled`, removal | `arrange`, core |
| ext-workspace server (`wlr_ext_workspace_v1.c`, `ext_workspace.c`) | groups, workspaces, resources, request queues, idle source | bind, stop, destroy, requests, commit, state events, done | `printstatus`, `createmon`, `cleanupmon`, `view` |
| zpeachwm_ipc (`ipc.c`) | managers, IpcOutputs | `set_tags`, `set_client_tags`, `set_layout`; status events | core |
| IPC socket (`ipc_socket.c`) | per connection: read state, buffer, subscriptions | accept, read, command, subscribe, broadcast, close | `dispatch_action`, `printstatus` |
| Configuration (`parser/`, `do_reload`) | `cfg`, the inotify watch (`watch_fd`) | load, reload, watch start, dispatch, stop | editors, through the file system; core |
| Keyboard arbiters: session lock, layer shell | `locked`, `cur_lock`, its surfaces, the layer lists, the surface the seat has focused | lock, unlock, lock client dies; lock surface create, destroy; layer surface create, commit, unmap, destroy | `focusclient`, `updatemons` |
| Input, rendering, XWayland, `peachmsg` | | | |

### What is hard, and what makes each part correct

- **Core.** The focused window, the focus stack, the scene and the tags are four
  pieces of state that every handler must move together. Correct means: focus is
  on the topmost visible window; it is shown; the scene shows the tags in view;
  each layer holds the windows in its state; a drag ends with its
  window.
- **Outputs.** They come and go in any order, `updatemons` re-enters through its
  own signal, and for a while there may be no output. Correct means: no window is
  lost, none loses its tags, some lit output is selected, a second `updatemons`
  finds nothing to do.
- **Scratchpad.** A second notion of visibility laid over the first, with three
  pointers that outlive what they point at. Correct means: hidden windows are
  hidden, nothing remembers a closed window.
- **Dwindle tree.** An array of nodes referring to each other by index, compacted
  on every removal. Correct means: one tree, right leaves, windows in the order
  the user made, no access outside the array.
- **ext-workspace.** Requests are queued with pointers to handles that may be
  freed before the commit; clients are told changes by events, once. Correct
  means: queues name live handles, what a client was told adds up to the truth,
  every batch is followed by `done`.
- **IPC socket.** Byte streams in both directions with short reads and writes,
  from processes that stall or leave. Correct means: each request is answered
  once, as it was sent; streams are whole messages; sending ends.
- **Reload.** The watch belongs to an inode, the configuration to a path, and an
  editor may put another inode there between any two system calls of the handler.
  Correct means: the watch follows the file, a save that was complete is loaded,
  a reload does not notify itself.
- **Lock and layer shell.** Three parts ask the seat for the keyboard on their own.
  Correct means: a locked session gives it to no window; a panel or launcher above
  the windows keeps it from them; it comes back when such a surface goes, and is
  never with something hidden or gone.

`PROJECT.json` lists the hazards line by line with the properties that cover
them, and says why the rest are not covered yet.

## 2. Modules

| Module | Models |
|---|---|
| `WlLists` | lists of windows and outputs: what the loops over them take out, find and do |
| `WMCore` | the state, and the functions all handlers share: `visibleon`, `focustop`, `arrange`, `dwindle` (leaves only), `monocle`, `focusclient`, `setmon`, `setfloating`, `setfullscreen`, `applyrules` |
| `WMScratchpad` | `scratchpad.c` and the parts of `mapnotify` that serve it |
| `WMWindows` | listeners on windows and outputs |
| `WMBindings` | keybindings, pointer, `zpeachwm_ipc` requests |
| `PeachWM` | composes them: four next-state relations for four kinds of session, and the properties |
| `MCPeachWM` | constants for TLC |
| `WMCore_proofs` | lemmas on lists and on the functions all handlers share |
| `PeachWM_proofs` | theorems about sessions of outputs, of tags and of layouts |
| `WMScratchpad_proofs` | theorems about sessions with scratchpads |
| `DwindleTree` | the node array of one tag's tree and the handlers that drive it |
| `TileOrder`, `DwindleOrder` | the abstract order of the tiles, and the refinement mapping (in-order traversal) |
| `DwindleTree_proofs` | theorems |
| `ExtWorkspace`, `MCExtWorkspace`, `ExtWorkspace_proofs` | the ext-workspace server and its use by the window manager; theorems |
| `IpcSocket`, `MCIpcSocket`, `IpcSocket_proofs` | the connections of the IPC socket and the processes at their other end; theorems |
| `ConfigWatch`, `MCConfigWatch`, `ConfigWatch_proofs` | `config_load`, the watch, `watch_dispatch`, the reload command, and the editors; theorems |
| `SeatFocus`, `MCSeatFocus`, `SeatFocus_proofs` | `focusclient` among windows, layer surfaces and the session lock; theorems |

`PeachWM` EXTENDS `WMWindows` and `WMBindings`, which EXTEND `WMScratchpad`,
which EXTENDS `WMCore`, which EXTENDS `WlLists`.

### How the code maps to them

*One action is one handler.* In the core the C functions call each other and
leave globals behind, so the shared ones are operators from a state record to a
state record under their C names (`Arrange(s, m)`, `SetMon(s, c, m, newtags)`,
...), composed in the order of the calls, loops over lists with `Along`; an
action installs the result (`Become`). Early returns are guards; a handler that
returns without effect is a stuttering step and needs no action.

*Data.* A window or an output is a model value; a tag mask is a set of tags; a
rule is what the rules say together of one window. A monitor's `power` stands for
the combinations of `enabled`, `asleep` and layout membership the code produces.
Geometry is left out, so what it decides is a choice: the neighbour `focusdir`
finds, the window under the pointer (any enabled node), the output under it.

*The dwindle tree appears twice*: in the core as its set of leaves, because
`SceneShowsTags`, `LeavesAreTiled` and others need only that; in `DwindleTree` in
full, with everything else about windows reduced to what each one is to this tag
(away, tiled, floating, fullscreen). There, the two loops of `dwindle()` are
steps, and no handler starts before they end. An access outside the array ends
the modelled behaviour (`shape = "undefined"`); `shape` is a history variable.

*ext-workspace.* An output, its group and its workspaces are plugged and unplugged
together, as `createmon` and `cleanupmon` do. A commit is served request by
request with nothing else in between (`serving`), since the handler may change
tags and so send events between two requests. `sent` is the picture a viewer has
if it believes its events; `undone`, `dropped` are history for the properties.

*The IPC socket.* A stream is a sequence of units, each naming the request and the
place it comes from, so that the reader's buffers show whether it is in step. Each
`sendmsg` is a step, because the peer reads while `ipc_send_raw` loops. `hdr_len`
is the length of `hdr`, `payload_alloc` that of `payload`; the buffer's old
contents stay, and a search that finds no terminator may find anything (`extra`).
`events` counts the `printstatus` broadcasts a command still causes. `heard`,
`torn` and `cut` are history.

*The configuration watch.* `watch_dispatch` reads the queue, loads the file and
calls `inotify_add_watch` again, and editors are other processes: these are three
steps (`DispatchRead`, `DispatchLoad`, `DispatchRewatch`). The editors and inotify
are external: an editor writes in place, beside with a rename, after moving the old
file away as a backup, or after deleting it. A watched regular file reports
`IN_CLOSE_WRITE` and, when its last name and holder are gone, `IN_IGNORED`; the code
looks at no event, so the queue is one flag. A file that is being written has the
text `Part`, which Lua may accept. `missed` is history: a save fell between a load
and the next watch, where nothing can see it.

*Who has the keyboard.* `SeatFocus` keeps everything `focusclient`, `arrangelayers`
and the lock handlers ask, and reduces the rest of the core to what these three see:
each window's output and whether its tags are in view there, the focus stack, the
selected output. Outputs stay plugged, since `PeachWM` models them coming and going.
`order` holds the layer lists in one sequence, from which the topmost level takes
its first surface. `FocusFrom(old, c, fs, sel)` is `focusclient(c, ...)` with the
surface focused before as a parameter, because `updatemons` arranges the layers
first and so changes it. That the dying lock surface has left the lock's list when
`destroylocksurface` runs is wlroots' doing and external; the code presumes it when
it takes any surface of a list that is not empty. The seat drops a surface that is
destroyed (external).

Deliberate simplifications: `sloppyfocus` is on; `can_float` and `can_fullscreen`
are true; output-manager heads take effect together, before one final
`updatemons`; `focusmon` ends on an enabled output when it starts on one; the
cursor stays on the outputs of the layout while one is lit; with no output
selected `focusmon` and `togglegaps`, which read `selmon`, take no step; the
master layout only rearranges; `Select` in `ExtWorkspace` lets any output be
selected at any time. A dereference of a dangling scratchpad pointer changes no
live window. The power manager's commit succeeds; the code ignores its result and sets
`asleep` all the same (`peachwm.c:2699`). In the code each head the output manager
enables runs `updatemons` as it joins the layout (`peachwm.c:2598-2601`), before the
next head is looked at. A monitor rule matches every output, as the default one does:
without one `createmon` leaves the output no layouts at all. What it fills in is the
rule's layout in the first slot of each tag (`DefaultLayout`), or the one configured
for the tag (`WorkspaceLayouts`), and dwindle, or floating beside dwindle, in the
second (`AltLayout`).

## 3. Runs

| Run | Configuration | Bounds | Shows |
|---|---|---|---|
| `desktop` | `MCDesktop.cfg` | 2 windows, 3 outputs, 2 tags | outputs plugged, unplugged, slept, reconfigured around windows |
| `tags` | `MCTags.cfg` | 2 windows (one the other's dialog), 1 output, 2 tags, dwindle and (configured for tag 2) monocle | keybindings and IPC on tags; rules that start windows fullscreen |
| `layouts` | `MCLayouts.cfg` | 2 windows, 1 output, 2 tags, floating, dwindle, monocle | layouts, floating, fullscreen, pointer drags |
| `scratchpad` | `MCScratchpad.cfg` | 2 windows, 1 output, 2 tags, dwindle and (configured for tag 2) master | the scratchpad with tags, layouts and fullscreen |
| `dwindle` | `MCDwindle.cfg` | 3 windows | the tree, its leaves and the tile order |
| `ext_workspace` | `MCExtWorkspace.cfg` | 1 viewer, 2 outputs, 2 tags, 1 queued request, 1 handle given up | what viewers are told, queues, `done` |
| `ipc_socket` | `MCIpcSocket.cfg` | 1 connection, 5 requests, header 2 units, messages 3, 2 fit the socket | reading and sending in pieces |
| `config_watch` | `MCConfigWatch.cfg` | 1 editor with four ways of saving, 3 inodes, 3 texts | saves between any two calls of the reload handler |
| `seat_focus` | `MCSeatFocus.cfg` | 2 windows, 2 layer surfaces, 2 outputs | windows, panels and a lock compete for the keyboard |

The comment above each property says what it states.

- `desktop`: `FocusFollows`, `SceneShowsTags`, `NoOrphans`, `UpdateMonsSettles`,
  `OutputsKeepTags`.
- `tags`: `FocusFollows` and `SceneShowsTags`, under keybindings and IPC.
- `layouts`: the forms of the focus property that survive a pointer which selects
  outputs without focusing (`TopFocus`, `FocusStaysShown`), with
  `LayerFollowsState`, `LeavesAreTiled` and `MonocleShowsOne`. That a drag holds a
  mapped window is part of `PeachWM`'s `TypeOK`.
- `scratchpad`: `FocusFollows`, `HiddenScratchpadIsHidden`.
- `dwindle`: `TreeWellFormed`, `LeavesMatch`, `OnlyTornGoesUndefined` and the
  refinement `TileOrderKept`.
- `ext_workspace`: `QueuesLive`, `ActiveInView`, `PictureFaithful`, `DoneComes`.
- `ipc_socket`: `ReadsInStep`, `AnsweredAsSent`, `WholeMessages`, `ReadsFinish`.
- `config_watch`: `WatchFollows`, `NoSaveUnseen`, and under fairness `SavesArrive`
  and `ReloadsSettle`. The first three are about editors that delete their backup
  when they are done (`DropBackup`), as the four ways of saving do. An editor that keeps
  it, or a user who moves the file away, leaves the watch on the old inode, which still
  has a name and so never reports that it went: `watch_start` and `watch_dispatch`
  (`parser.c:829-1071`) do not notice the new file before something else makes the
  handler run, or the reload command loads it.
- `seat_focus`: `FocusReturns`, and the action properties `LockHolds` and
  `OverlayHolds`.

One run of each module also checks its `TypeOK`.

*Why these bounds.* Three outputs are needed so that one is closed while one of
the others is selected and one is disabled; two windows so that focus has somewhere
to go, one can be another's dialog, and a drop has a target; two tags so that a
view hides something; three windows in the tree so that a removal meets a leaf
under the root, a leaf deeper and a subtree as sibling (and the theorems cover
any number). Two outputs let a viewer's queue outlive one of them while the
other's events go on; viewers do not share state but the idle callback, and the
theorems cover any number of viewers and any queue. A header of two units can
arrive in two pieces, a message of three through a socket that takes two needs
several sends, and the five requests cover the read states: no payload, a payload,
a longer one whose tail stays in the buffer, and noise; four units hold the end of one request and
the start of the next. One connection suffices for these properties, since
connections share only the handler that runs; what is not exercised is a broadcast
to several, which the theorem covers. Three inodes are the file at the path, one
an editor writes beside it and a backup; the theorems hold for any number
of editors, while `SavesArrive` and `ReloadsSettle` are shown for one. Two layer surfaces can compete on one output and across two,
and two outputs let the selected one have a lock surface while the other has none.
Symmetry is used only where the run checks no liveness property and the model
values are interchangeable (windows and outputs in `desktop`; windows, layer
surfaces and outputs in `seat_focus`).

*Deadlock* is checked except in `dwindle`, where an access outside the array ends
the behaviour, and in the runs that end in a violation.

### Violations

Three runs show the code departing from what it says of itself; each checks one
property and `PROJECT.json` quotes the line.

- `scratchpad_refs`: `unmapnotify` says that it clears "any stale scratchpad
  references to this client" and clears those of one output, the one the window is on.
  A window that is focused when a scratchpad is shown, sent to the other output by
  `tagmon` and closed there is still remembered by the first as the one to refocus
  (two outputs are needed, and configured).
- `ipc_hang`: `ipc_send_raw` advances its iovecs by all that was sent instead of
  what was sent last; after two partial sends they run empty and the compositor
  calls `sendmsg` for ever.
- `config_recreate`: `watch_dispatch` says that watching the path again catches a
  file that was deleted and recreated; when it runs between the two, the watch
  fails, no event can come any more, and the new file is never watched.

The passing runs state what holds beside them: `scratchpad` has one output;
`WholeMessages` claims a whole stream until a message was
given up half-way or took a third send, and `ReadsFinish` excepts the endless loop;
`NoSaveUnseen` and `SavesArrive` except a save in the gap between load and watch, and
a watch that could not be placed.

Behaviours met while modelling that no run checks any more, since they restrict
what the other runs can claim:

- any rearrangement shows every window of an open scratchpad, so `scratchpad` claims
  nothing of how many are shown;
- `closemon` takes `mons.next` on every turn of its loop and so tests only the head of
  the output list (`peachwm.c:886`): with the head disabled, closing the selected
  output selects none although another one is lit, so `desktop` does not claim that
  a lit output is always selected;
- with two outputs, what `scratchpad_refs` shows can put out a window that is focused
  next (section 5);
- a window inserted beside itself tears the dwindle tree into two roots, so `dwindle`
  claims a tree, and indices inside the array, only until then (`shape`);
- `swapdirscratchpad` focuses the next window without showing it when `setfloating`
  does not arrange, and hiding the scratchpad under monocle focuses a window without
  rearranging, so `scratchpad` uses the dwindle and master layouts.

## 4. Fairness

In `ExtWorkspace`, `Serve` and `Served` are weakly fair:
a C loop over a finite queue ends. `HandleIdle` is strongly fair: libwayland's
event loop runs pending idle callbacks in every iteration, before it waits, so it
cannot be passed over for ever by commits that keep disabling it. In `IpcSocket`, `Send` is weakly
fair: a handler goes on and `sendmsg` on a non-blocking socket returns.
`HandleReadable` and `CloseHungUp` of each connection are strongly fair: epoll is
level-triggered and the loop calls the handler of every descriptor reported, so a
connection that is ready again and again is not passed over. In `ConfigWatch`,
`Handle` is weakly fair: the loop polls the inotify descriptor, which stays readable
until it is read, and the handler runs to its end. Nothing that a client, an editor
or a user does is fair; `ReloadsSettle` speaks of the behaviours in which the editors
stop.

## 5. Proofs

`DwindleTree_proofs` proves, for any set of windows,

- `TypeCorrect`: `Spec => []TypeOK`, every index stays in the array;
- `TreeStaysWellFormed`: `Spec => []TreeWellFormed`;
- `LeavesAlwaysMatch`: `Spec => []LeavesMatch`;
- `WholeStaysDefined`: `Spec => OnlyTornGoesUndefined`.

The only assumption is that `NoClient` is not a window. The inductive invariant is
`IInv == TypeOK /\ ParentsAreSplits /\ TreeWellFormed`. `TypeOK` alone is not
inductive: removing a leaf reads its parent's children, and only because parents
are splits is the removed pair a leaf and a split, so that the remapping keeps
indices in range; `ParentsAreSplits` survives the torn shape in which
`WellFormed` fails. Well-formedness of a splice rests on lemmas about the
renumbering: `Kept` and `Remap` are inverse to each other and keep the order of
indices (`KeptInverse`, `RemapInverse`, `RemapKeepsOrder`). Handlers that do not
touch the tree are dealt with once (`EnvironmentStep`). `LeavesMatch` speaks of the tree between two calls of
`dwindle()`; `MatchInv` says how far a call is: its first loop ends with no stale
leaf, and while its second adds leaves none becomes so (`InsertMatches`).

`ExtWorkspace_proofs` proves, for any viewers, outputs, tags and bounds,

- `TypeCorrect`, `QueuesStayLive`, `ActiveStaysInView`, `PictureStaysFaithful`.

`TypeOK` is inductive and carries the part that a viewer without a manager has
nothing left. `QueuesLive` and `ActiveInView` are inductive relative to it.
`PictureFaithful` is not: a viewer that binds again must not inherit what it gave
up before, which is `Fresh`. The proof shows step by step that each event changes
the picture as the world changed (`StatesTold`, `PlugTells`, `UnplugTells`,
`BindTells`, `DropTells`). Assumptions: `NamesAssumption`.

`IpcSocket_proofs` proves, for any connections, sizes and bounds, `MessagesWhole`:
`Spec => []WholeMessages`. `WholeMessages` says nothing of how far a message is,
so the invariant `WholeInv` adds `SendInStep` (a message is half sent only while a
handler has something to send, and until its second send the iovecs skip what was
sent) and `StreamsInStep` (a stream that is read and not cut ends where the iovecs
point). Assumption: `ConstantsAssumption`.

The same module proves, for any connections, requests and sizes, `TypeCorrect`,
`ReadsStayInStep` (`Spec => []ReadsInStep`) and `RequestsAnswered`
(`Spec => AnsweredAsSent`). `ReadsInStep` says how one unit of a stream follows
another; what a read of n units finds would need induction over the stream. The
invariant therefore says it for any two units at once (`Runs`): from a unit on, as
long as its request goes, there is this request. From that follow without induction
what a client's write adds (`Joined`), what is left after a read (`RestWhole`), and
that the rest of the request being read is there (`Ahead`); the lemmas `HeaderRead`,
`PayloadRead` and `RequestRead` are the three ways a read can end. The types need
one more fact, that the iovecs are never behind what was sent (`sent =< pos`), and
`WholeInv`. Assumption: `ConstantsAssumption`.

`ConfigWatch_proofs` proves, for any inodes, editors and texts, `TypeCorrect`,
`WatchIsKept` (`Spec => []WatchFollows`) and `SavesAreSeen`
(`Spec => []NoSaveUnseen`). The inductive invariant adds to `TypeOK` four facts.
`Aside`: a file written beside the configuration is not at the path, not watched
and no other editor's. `Awake`: while the handler rests with nothing pending,
something is watched; as only live inodes are, that is the file at the path or one
an editor holds. `UpToDate`: unless a save was missed or is still to be read, what
was loaded last is what the file holds, or the file is being written and its closing
will be heard. `Fits`: an editor's stage fits the files it holds. Editors' steps are
all instances of `Change`, so the proof deals with them in two lemmas (`Shape`,
`ChangeKeeps`). Assumption: `ConfigAssumption`.

`SeatFocus_proofs` proves, for any windows, layer surfaces and outputs,
`TypeCorrect`, `FocusAlwaysReturns` (`Spec => []FocusReturns`), `LockAlwaysHolds`
(`Spec => LockHolds`) and `OverlayAlwaysHolds` (`Spec => OverlayHolds`). The
invariant is `IInv == TypeOK /\ Clean /\ FocusReturns`: `Clean` says that what is
not mapped has no trace of a former life (an unmapped window is on no output and not
shown, an absent surface not mapped), which `FocusReturns` needs when something is
mapped again. The focus stack and the layer lists are sequences without duplicates;
the lemmas `TakenOut`, `PutFirst`, `PutLast` and `Found` say what removing, adding
and searching do to them without induction, and `HeadIsTop`, `FocusMoves`,
`LayerMoves` and `LockMoves` say what each kind of step does to the keyboard, so that
every handler is a use of one of them. Assumption: `SeatAssumption`.

`PeachWM_proofs` proves of the core under `DesktopSpec`, for any windows, outputs,
tags, rules and layouts,

- `DesktopTypeOK`, `DesktopFocusFollows`, `DesktopSceneShowsTags`, `DesktopNoOrphans`,
  `DesktopOutputsKeepTags` and `DesktopUpdateMonsSettles`: every property of the run
  `desktop`,

under `TagsSpec`

- `TagsSceneShowsTags`, `TagsTopFocus` and, with one output, `TagsFocusFollows`,

under `LayoutsSpec`, with any number of outputs,

- `LayoutsTopFocus`, `LayoutsLeavesAreTiled`, `LayoutsMonocleShowsOne`, and with one
  output the action property `LayoutsFocusStaysShown`,

and `TypeOK` and `NoOrphans` under both (`SessionsSound`). When no window has a
parent, `LayerFollowsState` holds in the three kinds of session
(`LayoutsLayerFollowsState`, `DesktopLayerFollowsState`).

They follow from `DesktopInvariant`, `TagsInvariant` and `LayoutsInvariant`: the
invariant `StateInv(k)` of a session of kind `k` holds in every state. No property
of the runs is inductive alone: a window that changes output is shown as its new
output's tags say only if it was on one, or in the tree of one, in the way the next
`arrange` expects. `StateInv` therefore says together that the state is typed and
each list of windows holds every mapped window once (`Sound`), that windows without
a record are in no list, that the scratchpad is unused, that the list of outputs
holds the outputs plugged, that the scene of each lit output agrees with tags,
layout and tree (`Fine`), where the focus is (`Focused`), and that the selected
output is in the layout while some output is, with no window left without one
(`SelmonSettled`). Layers need two more parts: a window on an output, dark or lit, is on the fullscreen
layer exactly when it is fullscreen, and on the tile layer if it is neither
fullscreen nor floating (`Fits`; of a dialog less is said, since its fullscreen parent
lifts it), and on a lit output every window is where the last `arrange` put it
(`Layered`).

`LayoutsFocusStaysShown` compares two states, and needs a fourth kind of session.
In `"front"` the topmost window of each lit output is on display (`TopShown`). It is
no invariant: the end of a tile drag may leave a monocle output without a window on
display. It is kept by every other step, whatever the number of outputs
(`FrontStays`). With one output the focused window is the topmost of the output
(`FocusTop`), so that a state that shows it is of this kind, the step keeps the kind,
and what is then focused is shown (`FrontShowsFocus`). With
two outputs TLC finds the property violated: a drop focuses a window that monocle
hides.

That `updatemons` settles is proved from the same invariant: what the first call
leaves is a fixed point of each of its walks. No window is on an output that is off
(`Emptied`), to arrange an arranged scene is the identity
(`SceneArranged`), so that every step of every walk of the second call changes
nothing (`IdleWalk`), nor does the whole call (`SettledStays`).

The kinds differ in two of these and in one addition. In a `"desktop"` session focus
is on the topmost window of the selected output (`FocusTop`), and the scene is
exactly what the last `arrange` made (`Scene`). A pointer and an IPC request select
outputs and move windows up without an `arrange`: in the other two kinds the focus is
the topmost window of its own output only (`TopFocused`), and a monocle output may
show another of the windows it stacks, or none (`LaxScene`). Requests on an output
that is not selected, and clicks, need more in exchange (`Lit`): plugged outputs are
lit, one of them is selected, every window has one of them or is not shown, and, in
`"layouts"`, the window held by a tile drag is in view. So what a pointer hits is in
view (`EnabledVisible`) and may be focused (`FocusGoes`). `TagsFocusFollows` keeps
`StateInv("tags")` and `StateInv("desktop")` at once: with one output, any output a
request names is the selected one.

The proof has three layers. The first part of `WMCore_proofs` says what taking out,
adding, finding and folding do on lists of any length. Instead of induction over lists it takes the
least index at which a loop departs from what is claimed (`Least`), which is all the
loops of the core need (`SetInduction`, `InductionUpTo`). `WMCore_proofs` says what
each function shared by the handlers changes and what it leaves alone (`SameView`,
`Redrawn`, `Changed`). `PeachWM_proofs` has a lemma for each handler; `updatemons`
is a sequence of walks (`Walk`, `Steps`) over outputs and windows, each with the
invariant of its loop (`EvacuateDoes`, `CloseDisabledDoes`, `ArrangeEnabledDoes`,
`UpdateMonsDoes`). Assumption: `ConstantsAssumption`.

`WMScratchpad_proofs` proves of `ScratchpadSpec`, for any windows, tags, rules and
scratchpads, and under the same assumption,

- `ScratchpadTypeOK` and `ScratchpadStaysHidden`
  (`ScratchpadSpec => []HiddenScratchpadIsHidden`), for any number of outputs,
- `ScratchpadTopFocus` (`ScratchpadSpec => []TopFocus`), for any number of outputs
  and any layouts,
- `ScratchpadFocusFollows` (`ScratchpadSpec => []FocusFollows`), for one output on which
  the first layout of each tag and the layouts `setlayout` is given tile: neither
  `monocle` nor `floating` among them. The second slot, which `createmon` fills with the
  floating layout beside dwindle, is free.

The first two follow from `ScratchpadInvariant`, whose `ScratchpadInv` is
`PadCore(State, {}) /\ WindowsListed`. `PadCore(s, X)` says that the state is sound,
the lists of outputs agree, outputs come but never go or sleep in these sessions
(`AllOn`), no window of a hidden scratchpad has a lit scene node except those of `X`
(`Hidden`), and, with one output, that the windows a scratchpad remembers as its
visible and its last one are mapped and on that output (`RefsHome`). `X` is
for the middle of a handler: `setfloating`, `setmon` and `toggle_scratchpad` light a
window or move it before the scratchpad's own flags follow, and the window they work on
is in transit until then. A handler that neither adds to a scratchpad nor lights a
node of a hidden one is `Quiet`, and quiet steps compose, so `arrange`, `setmon` and
the rules are each proved quiet once. `RefsHome` needs the single output: with two, the
run `scratchpad_refs` shows it violated.

`ScratchpadTopFocus` needs nothing of what a scratchpad remembers. Its invariant adds
`FocusTop(State)` to the one above: focus is on the topmost window in view of the
selected output. Every handler ends by focusing either that window or one in view that
it first moves to the front, and what comes before leaves the view of the outputs as it
was (`Still`). `togglescratchpad` focuses the window it remembers only if that is in view
on its output (`VISIBLEON`), which a closed window, having no output, is not.

`ScratchpadFocusFollows` adds a third invariant, `InFront(State)`: the
lit output is the selected one and its layouts tile (`Setting`), what an output names
its current scratchpad window is one (`CurrentPads`), every window of the tags in view
is lit (`TagsLit`), and focus is on the topmost window in view (`FocusTop`), which is
lit. Of the scratchpad's own windows only that last part speaks: which of them are lit
while it is open depends on what was rearranged since. So each handler must light what it focuses:
`FocusBrings` says when a call of `focusclient` leads back to the invariant, and
`FocusTopBrings` that falling back to the topmost window does when every window in
view is lit (`AllLit`). In between, `Still(s, t, X)` says that a step
leaves lists, focus, outputs and the tags and scratchpad flags of all windows but `X`
alone, `Steady` that it darkens no window in view besides; both compose. The
hypotheses are needed, and TLC has a counterexample without each. With two outputs
(16 states), the first may remember as its current scratchpad window one that was sent
to the other and closed there; when a new window has the same record (in the code, a
`Client` allocated at the freed address) and is mapped fullscreen, so that it stays out
of the open scratchpad, the next window that opens in the scratchpad darkens it, and
hiding the scratchpad focuses it without lighting it. With `monocle`, a
window of the open scratchpad is the topmost when `arrange` runs, so the window that
`togglescratchpad` focuses next is hidden. With `floating`, nothing lights
a window that takes the place of the one `swapdirscratchpad` took out.

*Only model-checked, or false beyond the theorem.* `FocusFollows` fails under
`ScratchpadSpec` without the hypotheses above, and under
`TagsSpec` with two outputs (a request for another output's tags clears the focus), where the
theorem has the hypothesis of one output; and `LayerFollowsState` fails for the
dialog of a fullscreen window, which its theorems exclude. Of the
tree, the refinement `TileOrderKept`, whose mapping is an in-order traversal. The
liveness properties `DoneComes`, `ReadsFinish`, `SavesArrive` and `ReloadsSettle` are
out of the prover's reach.

## 6. Not modelled

The components marked `not_modelled` in `PROJECT.json`, with the reason there:
rendering and effects, input devices, XWayland, the `peachmsg` program, utilities.
Inside the modelled parts: geometry and positions, popups, borders, titles, the
urgent flag, allocation failures, shutdown. Of the configuration: the Lua that
`config_load` runs, what its tables say, and what a reload does to windows that are
open (`reapply_client_rules` changes their tags and state without moving them
between layers or refocusing). Of the lock and the layer shell: unmanaged XWayland
windows, popups and key repeats.

## 7. Plan

1. `MasterStack`: `master_master`, `master_side` and the stack across removal,
   swap and tag changes; the boxes of `dwindle_recalc` as a pass in index order,
   with the lemma that `SplitsAfterParents` makes one pass enough.
2. The effect of a reload on open windows (`reapply_*`) as an action of the core.
3. `IpcSocket`: two connections with a smaller dialogue; a `subscribe` without a
   payload.
4. Proofs: an abstract specification of the ext-workspace server (a viewer sees a sequence of consistent
   snapshots) and its refinement.
