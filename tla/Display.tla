--------------------------------- MODULE Display ---------------------------------
(***************************************************************************)
(* The e-ink display and who draws on it: drivers/display/eink.go and      *)
(* periphery/spi.go below, controllers/gui/render.go and its one drawing   *)
(* context between, and above them GUIRenderer (its loop, and a handler    *)
(* per change of the sensors), the registration of LifecycleManager and    *)
(* the shutdown of main.go, each a goroutine.  Only renderStats holds      *)
(* viewLock while it draws.                                                *)
(*                                                                         *)
(* A frame is a row of sets: what is drawn in each of its rows.  A         *)
(* transfer is two steps, the DC pin and then Tx, for the pin is shared.   *)
(***************************************************************************)
EXTENDS Naturals, FiniteSets

CONSTANTS
    Changes,    \* the changes of the sensors, one handler each
    LastRow,    \* rows of the panel are 0..LastRow
    MaxUnlocked,  \* bound on the painters that draw without the lock at a time
    Scenarios,  \* what may happen besides, together in one behaviour
    Nil

Images == {"qr", "success", "error", "stats", "notice"}

Disturbances == {"registration", "shutdown", "failure"}

ASSUME DisplayAssumption ==
    /\ LastRow \in Nat
    /\ MaxUnlocked \in Nat
    /\ Scenarios \subseteq SUBSET Disturbances
    /\ Nil \notin Changes \cup Images \cup {"lifecycle", "renderer", "shutdown"}
    /\ Changes \cap {"lifecycle", "renderer", "shutdown"} = {}

VARIABLES
    scenario,   \* what may happen in this behaviour
    painter,    \* the goroutines: pc, what they draw, the row and the frame they send
    loggedIn,   \* DeviceLoggedOnNetwork was emitted
    sync,       \* where GUIRenderer.Start is with the login, before it renders
    viewLock,   \* GUIRenderer.viewLock: its holder
    ctx,        \* gui.ctx: what is drawn in it
    dc,         \* the DC pin: "low" for a command, "high" for data
    panel,      \* the chip: the row its pointer is at, its memory, what it shows
    wild,       \* the chip has taken pixels for a command
    active,     \* SPI.active
    exited,     \* the process has ended
    crossed     \* a painter without the lock has drawn while another did

driverVars == <<dc, panel, wild, active>>
vars == <<scenario, painter, loggedIn, sync, viewLock, ctx, driverVars, exited, crossed>>

Painters == Changes \cup {"lifecycle", "renderer", "shutdown"}
Rows     == 0..LastRow
Contents == SUBSET (Images \cup {"noise"})

DrawingPCs == {"context", "draw", "show", "point", "pointing", "pixels", "sending",
               "refresh", "refreshing"}
PCs == {"new", "loggedIn", "waiting", "locking", "close", "gone"} \cup DrawingPCs

PainterRecords == [pc : PCs, image : Images \cup {Nil}, row : Nat, frame : Contents]
PanelRecords   == [row : Rows, ram : [Rows -> Contents], shown : [Rows -> Contents]]

TypeOK ==
    /\ scenario \in Scenarios
    /\ painter \in [Painters -> PainterRecords]
    /\ \A p \in Painters : painter[p].row \in Rows
    /\ loggedIn \in BOOLEAN
    /\ sync \in {"poll", "subscribe", "await"}
    /\ viewLock \in Painters \cup {Nil}
    /\ ctx \in Contents
    /\ dc \in {"low", "high"}
    /\ panel \in PanelRecords
    /\ wild \in BOOLEAN /\ active \in BOOLEAN /\ exited \in BOOLEAN /\ crossed \in BOOLEAN

Blank == [r \in Rows |-> {}]

\* Init of the display has cleared its memory; nothing is drawn yet.
Init ==
    /\ scenario \in Scenarios
    /\ painter = [p \in Painters |-> [pc |-> "new", image |-> Nil, row |-> 0, frame |-> {}]]
    /\ loggedIn = FALSE
    /\ sync = "poll"
    /\ viewLock = Nil
    /\ ctx = {}
    /\ dc = "high"
    /\ panel = [row |-> 0, ram |-> Blank, shown |-> Blank]
    /\ wild = FALSE
    /\ active = TRUE
    /\ exited = FALSE
    /\ crossed = FALSE

\* What the chip does once it has run wild is not modelled: the model stops.
At(p, pc) == ~exited /\ ~wild /\ painter[p].pc = pc

Goto(p, pc) == painter' = [painter EXCEPT ![p].pc = pc]

Drawing(p) == painter[p].pc \in DrawingPCs

\* The painter starts to draw an image at the given step.  Unless both draw the
\* stats, it crosses a painter that draws by now.
Paint(p, pc, image) ==
    /\ painter' = [painter EXCEPT ![p] = [pc |-> pc, image |-> image, row |-> 0, frame |-> {}]]
    /\ crossed' = (crossed \/ \E q \in Painters \ {p} :
                                  Drawing(q) /\ ~(image = "stats" /\ painter[q].image = "stats"))

--------------------------------------------------------------------------------
(* Who draws.                                                               *)

\* The bound MaxUnlocked.
MayStart(p) ==
    Cardinality({q \in Painters \ {p} : Drawing(q) /\ viewLock # q}) < MaxUnlocked

\* EmitEvent of DeviceLoggedOnNetwork: a GUIRenderer that has subscribed to it
\* starts again, one that has not will not hear of it.
Announce ==
    /\ loggedIn' = TRUE
    /\ sync' = IF sync = "await" THEN "poll" ELSE sync

\* LifecycleManager logs in with the identity it has, ...
LogIn ==
    /\ At("lifecycle", "new")
    /\ Announce
    /\ Goto("lifecycle", "loggedIn")
    /\ UNCHANGED <<scenario, viewLock, ctx, driverVars, exited, crossed>>

\* ... or shows the QR code on the context as it is, and waits to be registered.
ShowQR ==
    /\ "registration" \in scenario
    /\ At("lifecycle", "new")
    /\ MayStart("lifecycle")
    /\ IF active THEN Paint("lifecycle", "draw", "qr")
                 ELSE Goto("lifecycle", "waiting") /\ UNCHANGED crossed
    /\ UNCHANGED <<scenario, loggedIn, sync, viewLock, ctx, driverVars, exited>>

\* Registered: the login is announced before the message is drawn.
Registered ==
    /\ At("lifecycle", "waiting")
    /\ MayStart("lifecycle")
    /\ Announce
    /\ Paint("lifecycle", "context", "success")
    /\ UNCHANGED <<scenario, viewLock, ctx, driverVars, exited>>

NotRegistered ==
    /\ At("lifecycle", "waiting")
    /\ MayStart("lifecycle")
    /\ Paint("lifecycle", "context", "error")
    /\ UNCHANGED <<scenario, loggedIn, sync, viewLock, ctx, driverVars, exited>>

\* GUIRenderer.Start: waitUntilDeviceLogged has looked for the last time, ...
PollOver ==
    /\ At("renderer", "new") /\ sync = "poll"
    /\ ~loggedIn
    /\ sync' = "subscribe"
    /\ UNCHANGED <<scenario, painter, loggedIn, viewLock, ctx, driverVars, exited, crossed>>

\* ... and GUIRenderer subscribes to a login that may have come in between, ...
AwaitLogin ==
    /\ At("renderer", "new") /\ sync = "subscribe"
    /\ sync' = "await"
    /\ UNCHANGED <<scenario, painter, loggedIn, viewLock, ctx, driverVars, exited, crossed>>

\* ... or it has seen the login, and renders: renderStats(true), as at every tick
\* of renderLoop.
StartRendering ==
    /\ At("renderer", "new") /\ sync = "poll"
    /\ loggedIn
    /\ Goto("renderer", "locking")
    /\ UNCHANGED <<scenario, loggedIn, sync, viewLock, ctx, driverVars, exited, crossed>>

Tick ==
    /\ At("renderer", "waiting")
    /\ Goto("renderer", "locking")
    /\ UNCHANGED <<scenario, loggedIn, sync, viewLock, ctx, driverVars, exited, crossed>>

\* SensorsRegisterChanged once GUIRenderer has subscribed.
\* renderHotswapNotification locks and unlocks at once: it waits for the lock
\* to be free, and draws without it.
Notify(c) ==
    /\ At(c, "new")
    /\ MayStart(c)
    /\ painter["renderer"].pc # "new"
    /\ viewLock = Nil
    /\ Paint(c, "context", "notice")
    /\ UNCHANGED <<scenario, loggedIn, sync, viewLock, ctx, driverVars, exited>>

\* Six seconds later, the stats again.
StatsAgain(c) ==
    /\ At(c, "waiting")
    /\ Goto(c, "locking")
    /\ UNCHANGED <<scenario, loggedIn, sync, viewLock, ctx, driverVars, exited, crossed>>

\* (mutant: the stats are drawn without the lock)
DrawStats(p) ==
    /\ At(p, "locking")
    /\ Paint(p, "context", "stats")
    /\ UNCHANGED <<scenario, loggedIn, sync, viewLock, ctx, driverVars, exited>>

LockStats(p) ==
    /\ At(p, "locking")
    /\ viewLock = Nil
    /\ viewLock' = p
    /\ Paint(p, "context", "stats")
    /\ UNCHANGED <<scenario, loggedIn, sync, ctx, driverVars, exited>>

\* main.go's shutdown, at any time: ClearAndRefresh ...
ShutDown ==
    /\ "shutdown" \in scenario
    /\ At("shutdown", "new")
    /\ MayStart("shutdown")
    /\ Paint("shutdown", "point", Nil)
    /\ UNCHANGED <<scenario, loggedIn, sync, viewLock, ctx, driverVars, exited>>

\* ... and Close.
CloseDisplay ==
    /\ At("shutdown", "close")
    /\ active' = FALSE
    /\ Goto("shutdown", "gone")
    /\ UNCHANGED <<scenario, loggedIn, sync, viewLock, ctx, dc, panel, wild, exited, crossed>>

\* The process ends, and all of its goroutines.
Ended ==
    /\ exited' = TRUE
    /\ painter' = [p \in Painters |-> [pc |-> "gone", image |-> Nil, row |-> 0, frame |-> {}]]
    /\ viewLock' = Nil
    /\ ctx' = {}

\* The rest of the shutdown.
Exit ==
    /\ At("shutdown", "gone")
    /\ Ended
    /\ UNCHANGED <<scenario, loggedIn, sync, driverVars, crossed>>

\* Drawn, or not to be drawn any more: what the painter does next.
Afterwards(p) ==
    CASE p = "shutdown" -> "close"
      [] p = "renderer" -> "waiting"
      [] p \in Changes /\ painter[p].image = "notice" -> "waiting"
      [] p = "lifecycle" /\ painter[p].image = "qr" -> "waiting"
      [] OTHER -> "gone"

Drawn(p) ==
    /\ painter' = [painter EXCEPT ![p] = [pc |-> Afterwards(p), image |-> Nil,
                                          row |-> 0, frame |-> {}]]
    /\ viewLock' = IF viewLock = p THEN Nil ELSE viewLock

--------------------------------------------------------------------------------
(* render.go: the context all painters share.                               *)

\* (mutant: the stats are drawn over what the context holds)
DrawOver(p) ==
    /\ At(p, "context")
    /\ ctx' = IF painter[p].image = "stats" THEN ctx ELSE {}
    /\ Goto(p, "draw")
    /\ UNCHANGED <<scenario, loggedIn, sync, viewLock, driverVars, exited, crossed>>

InitContext(p) ==
    /\ At(p, "context")
    /\ ctx' = {}
    /\ Goto(p, "draw")
    /\ UNCHANGED <<scenario, loggedIn, sync, viewLock, driverVars, exited, crossed>>

DrawInContext(p) ==
    /\ At(p, "draw")
    /\ ctx' = ctx \cup {painter[p].image}
    /\ Goto(p, "show")
    /\ UNCHANGED <<scenario, loggedIn, sync, viewLock, driverVars, exited, crossed>>

\* ShowFrame: the context's image is copied into the bit map that is sent.
ShowFrame(p) ==
    /\ At(p, "show")
    /\ IF active
       THEN /\ painter' = [painter EXCEPT ![p].pc = "point", ![p].frame = ctx]
            /\ UNCHANGED viewLock
       ELSE Drawn(p)
    /\ UNCHANGED <<scenario, loggedIn, sync, ctx, driverVars, exited, crossed>>

--------------------------------------------------------------------------------
(* eink.go: commands and data.                                              *)

\* SendCommand and SendData: the pin, unless the display is closed ...
SetPin(p, level, sending, closed) ==
    /\ IF active
       THEN dc' = level /\ Goto(p, sending)
       ELSE Goto(p, closed) /\ UNCHANGED dc
    /\ UNCHANGED <<scenario, loggedIn, sync, viewLock, ctx, panel, wild, active, exited, crossed>>

\* ... and the transfer, which fails on a closed port and may fail on an open
\* one: MustExecute then ends the process, Execute of the shutdown goes on.
TxFails(p) ==
    /\ "failure" \in scenario
    /\ \E pc \in {"pointing", "sending", "refreshing"} : At(p, pc)
    /\ IF p = "shutdown"
       THEN Drawn(p) /\ UNCHANGED <<ctx, exited>>
       ELSE Ended
    /\ UNCHANGED <<scenario, loggedIn, sync, driverVars, crossed>>

\* A command the chip takes for data becomes pixels where its pointer is.
Noise == [panel EXCEPT !.ram[panel.row] = {"noise"}]

\* setMemoryPointer of the row and writeRAM.
Point(p) ==
    /\ At(p, "point")
    /\ SetPin(p, "low", "pointing", "pixels")

Pointed(p) ==
    /\ At(p, "pointing")
    /\ active
    /\ panel' = IF dc = "low" THEN [panel EXCEPT !.row = painter[p].row] ELSE Noise
    /\ Goto(p, "pixels")
    /\ UNCHANGED <<scenario, loggedIn, sync, viewLock, ctx, dc, wild, active, exited, crossed>>

\* The bytes of the row.
Pixels(p) ==
    /\ At(p, "pixels")
    /\ SetPin(p, "high", "sending", "refresh")

\* The chip's pointer goes on to another row, and around.
Following(r) == IF r = LastRow THEN 0 ELSE r + 1

\* (mutant: one row too many)
NextRowBeyond(p) ==
    IF painter[p].row > LastRow
    THEN Goto(p, "refresh")
    ELSE painter' = [painter EXCEPT ![p].row = @ + 1,
                                    ![p].pc = IF p = "shutdown" THEN "pixels" ELSE "point"]

\* DrawRaw points at every row, ResetFrameMemory at the first only.
NextRow(p) ==
    IF painter[p].row = LastRow
    THEN Goto(p, "refresh")
    ELSE painter' = [painter EXCEPT ![p].row = @ + 1,
                                    ![p].pc = IF p = "shutdown" THEN "pixels" ELSE "point"]

Sent(p) ==
    /\ At(p, "sending")
    /\ active
    /\ wild' = (wild \/ dc = "low")
    /\ panel' = IF wild' THEN [row |-> 0, ram |-> Blank, shown |-> Blank]
                ELSE [panel EXCEPT !.ram[panel.row] = painter[p].frame,
                                   !.row = Following(panel.row)]
    /\ NextRow(p)
    /\ UNCHANGED <<scenario, loggedIn, sync, viewLock, ctx, dc, active, exited, crossed>>

\* Refresh, and waitUntilIdle.
Refresh(p) ==
    /\ At(p, "refresh")
    /\ IF active
       THEN dc' = "low" /\ Goto(p, "refreshing") /\ UNCHANGED viewLock
       ELSE Drawn(p) /\ UNCHANGED dc
    /\ UNCHANGED <<scenario, loggedIn, sync, ctx, panel, wild, active, exited, crossed>>

Refreshed(p) ==
    /\ At(p, "refreshing")
    /\ active
    /\ panel' = IF dc = "low" THEN [panel EXCEPT !.shown = panel.ram] ELSE Noise
    /\ Drawn(p)
    /\ UNCHANGED <<scenario, loggedIn, sync, ctx, dc, wild, active, exited, crossed>>

--------------------------------------------------------------------------------

Painting(p) ==
    \/ InitContext(p) \/ DrawInContext(p) \/ ShowFrame(p)
    \/ Point(p) \/ Pointed(p) \/ Pixels(p) \/ Sent(p)
    \/ Refresh(p) \/ Refreshed(p) \/ TxFails(p)

Render == \/ PollOver \/ AwaitLogin \/ StartRendering
          \/ Tick \/ LockStats("renderer")
Notice(c) == Notify(c) \/ StatsAgain(c) \/ LockStats(c)
Closing == ShutDown \/ CloseDisplay \/ Exit
Lifecycle == LogIn \/ ShowQR \/ Registered \/ NotRegistered

Next ==
    \/ Lifecycle \/ Render \/ Closing
    \/ \E c \in Changes : Notice(c)
    \/ \E p \in Painters : Painting(p)

Spec == Init /\ [][Next]_vars

\* Go runs what can run, the ticker ticks and the chip becomes idle.  Neither a
\* change of the sensors nor a registration nor a shutdown need come.
FairSpec ==
    /\ Spec
    /\ WF_vars(Render)
    /\ \A c \in Changes : WF_vars(StatsAgain(c) \/ LockStats(c))
    /\ \A p \in Painters : WF_vars(Painting(p))

--------------------------------------------------------------------------------
(* Properties.                                                              *)

Shows(i) == \A r \in Rows : panel.shown[r] = {i}

\* The frames of renderStats never mix with each other, however the loop and
\* the delayed renderStats of the notifications meet: a frame of two images, or
\* pixels taken for a command, need a painter that draws without viewLock
\* (gui_renderer.go:102, 127).
MixedOnlyUnlocked ==
    ~crossed => /\ ~wild
                /\ panel.shown = Blank \/ \E i \in Images : Shows(i)

\* Whatever was drawn over the stats, and however the frames were mixed, the
\* stats come back whole (renderLoop and gui_renderer.go:167-170), unless GUIRenderer
\* awaits a login that does not come or that it has missed, the chip has run wild or
\* the process ends.
StatsReturn ==
    []<>(Shows("stats") \/ sync = "await" \/ wild \/ ~active \/ exited)

================================================================================
