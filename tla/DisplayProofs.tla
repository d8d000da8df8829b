----------------------------- MODULE DisplayProofs -----------------------------
(***************************************************************************)
(* Theorems about Display, for every number of rows and of changes of the  *)
(* sensors: type correctness, and that frames mix only when a painter      *)
(* draws without viewLock.                                                 *)
(***************************************************************************)
EXTENDS Display, TLAPS

--------------------------------------------------------------------------------
(* Types, with what they rest on: everybody but the shutdown draws an       *)
(* image, and the shutdown draws nothing in the context.                    *)

InContext == {"context", "draw", "show"}

PaintersFit ==
    /\ \A p \in Painters \ {"shutdown"} : Drawing(p) => painter[p].image \in Images
    /\ painter["shutdown"].pc \notin InContext

TypeInv == TypeOK /\ PaintersFit

PaintersTyped == /\ painter \in [Painters -> PainterRecords]
                 /\ \A p \in Painters : painter[p].row \in Rows
LockTyped     == viewLock \in Painters \cup {Nil}
FrameTyped    == ctx \in Contents /\ dc \in {"low", "high"} /\ panel \in PanelRecords
LoginTyped    == scenario \in Scenarios /\ loggedIn \in BOOLEAN /\ sync \in {"poll", "subscribe", "await"}
FlagsTyped    == wild \in BOOLEAN /\ active \in BOOLEAN /\ exited \in BOOLEAN
CrossTyped    == crossed \in BOOLEAN

LEMMA TypeParts ==
    TypeOK <=> PaintersTyped /\ LoginTyped /\ LockTyped /\ FrameTyped /\ FlagsTyped /\ CrossTyped
BY Zenon DEF TypeOK, PaintersTyped, LoginTyped, LockTyped, FrameTyped, FlagsTyped, CrossTyped

LEMMA TypePartsNext ==
    TypeOK' <=> PaintersTyped' /\ LoginTyped' /\ LockTyped' /\ FrameTyped' /\ FlagsTyped' /\ CrossTyped'
BY Zenon DEF TypeOK, PaintersTyped, LoginTyped, LockTyped, FrameTyped, FlagsTyped, CrossTyped

LEMMA PartsKept ==
    ASSUME TypeOK
    PROVE  /\ UNCHANGED painter => PaintersTyped'
           /\ UNCHANGED viewLock => LockTyped'
           /\ UNCHANGED <<ctx, dc, panel>> => FrameTyped'
           /\ UNCHANGED <<scenario, loggedIn, sync>> => LoginTyped'
           /\ UNCHANGED <<wild, active, exited>> => FlagsTyped'
           /\ UNCHANGED crossed => CrossTyped'
<1> USE TypeParts
<1>1. UNCHANGED painter => PaintersTyped'
  BY Zenon DEF PaintersTyped
<1>2. UNCHANGED viewLock => LockTyped'
  BY Zenon DEF LockTyped
<1>3. UNCHANGED <<ctx, dc, panel>> => FrameTyped'
  BY Zenon DEF FrameTyped
<1>4. UNCHANGED <<wild, active, exited>> => FlagsTyped'
  BY Zenon DEF FlagsTyped
<1>5. UNCHANGED crossed => CrossTyped'
  BY Zenon DEF CrossTyped
<1>6. UNCHANGED <<scenario, loggedIn, sync>> => LoginTyped'
  BY Zenon DEF LoginTyped
<1> QED BY <1>1, <1>2, <1>3, <1>4, <1>5, <1>6

LEMMA RowsThere == LastRow \in Nat /\ 0 \in Rows /\ Rows \subseteq Nat
BY DisplayAssumption DEF Rows

LEMMA ShutdownPaints == "shutdown" \in Painters /\ "lifecycle" \in Painters /\ "renderer" \in Painters
BY DEF Painters

LEMMA InitTyped == Init => TypeInv
<1> SUFFICES ASSUME Init
             PROVE  TypeInv
  OBVIOUS
<1>1. PaintersTyped /\ PaintersFit
  BY RowsThere, ShutdownPaints DEF Init, PaintersTyped, PaintersFit, PainterRecords, PCs, Contents,
       Drawing, DrawingPCs, InContext
<1>2. LockTyped /\ FrameTyped
  BY RowsThere DEF Init, LockTyped, FrameTyped, Contents, PanelRecords, Blank
<1>3. LoginTyped /\ FlagsTyped /\ CrossTyped
  BY Zenon DEF Init, LoginTyped, FlagsTyped, CrossTyped
<1> QED BY <1>1, <1>2, <1>3, TypeParts DEF TypeInv

--------------------------------------------------------------------------------
(* The shapes of a painter's steps.                                         *)

\* The record of p becomes r, and no other is touched.
Becomes(p, r) ==
    /\ painter' \in [Painters -> PainterRecords]
    /\ painter'[p] = r
    /\ \A q \in Painters \ {p} : painter'[q] = painter[q]

LEMMA BecomesTyped ==
    ASSUME TypeInv, NEW p \in Painters, NEW r \in PainterRecords, r.row \in Rows, Becomes(p, r),
           p # "shutdown" /\ r.pc \in DrawingPCs => r.image \in Images,
           p = "shutdown" => r.pc \notin InContext
    PROVE  PaintersTyped' /\ PaintersFit'
<1>1. PaintersTyped'
  BY DEF TypeInv, TypeOK, Becomes, PaintersTyped
<1>2. PaintersFit'
  BY ShutdownPaints DEF Becomes, TypeInv, PaintersFit, Drawing
<1> QED BY <1>1, <1>2

LEMMA RecordIs ==
    ASSUME TypeOK, NEW p \in Painters
    PROVE  /\ painter[p] \in PainterRecords /\ painter[p].pc \in PCs /\ painter[p].row \in Rows
           /\ painter[p].image \in Images \cup {Nil} /\ painter[p].frame \in Contents
BY DEF TypeOK, PainterRecords

At2(p, pc)       == [painter[p] EXCEPT !.pc = pc]
New(pc, image)   == [pc |-> pc, image |-> image, row |-> 0, frame |-> {}]

LEMMA GotoShape ==
    ASSUME TypeInv, NEW p \in Painters, NEW pc \in PCs, Goto(p, pc)
    PROVE  /\ Becomes(p, At2(p, pc)) /\ At2(p, pc) \in PainterRecords
           /\ At2(p, pc).pc = pc /\ At2(p, pc).image = painter[p].image
           /\ At2(p, pc).row = painter[p].row /\ At2(p, pc).frame = painter[p].frame
BY RecordIs DEF TypeInv, TypeOK, Goto, Becomes, At2, PainterRecords

LEMMA GotoTyped ==
    ASSUME TypeInv, NEW p \in Painters, NEW pc \in PCs, Goto(p, pc),
           pc \in DrawingPCs => Drawing(p),
           pc \in InContext => painter[p].pc \in InContext
    PROVE  PaintersTyped' /\ PaintersFit'
<1> DEFINE r == At2(p, pc)
<1>1. /\ Becomes(p, r) /\ r \in PainterRecords /\ r.pc = pc /\ r.image = painter[p].image
      /\ r.row \in Rows
  BY GotoShape, RecordIs DEF TypeInv
<1> HIDE DEF r
<1>2. p # "shutdown" /\ r.pc \in DrawingPCs => r.image \in Images
  BY <1>1 DEF TypeInv, PaintersFit
<1>3. p = "shutdown" => r.pc \notin InContext
  BY <1>1 DEF TypeInv, PaintersFit
<1> QED BY <1>1, <1>2, <1>3, BecomesTyped

LEMMA NewShape ==
    ASSUME NEW pc \in PCs, NEW image \in Images \cup {Nil}
    PROVE  /\ New(pc, image) \in PainterRecords
           /\ New(pc, image).pc = pc /\ New(pc, image).image = image
           /\ New(pc, image).row = 0 /\ New(pc, image).frame = {}
BY DEF New, PainterRecords, Contents

LEMMA PaintTyped ==
    ASSUME TypeInv, NEW p \in Painters, NEW pc \in {"context", "draw", "point"},
           NEW image \in Images \cup {Nil}, Paint(p, pc, image),
           IF p = "shutdown" THEN pc = "point" ELSE image \in Images
    PROVE  PaintersTyped' /\ PaintersFit' /\ CrossTyped' /\ Becomes(p, New(pc, image))
<1>1. New(pc, image) \in PainterRecords /\ New(pc, image).pc = pc /\ New(pc, image).image = image
      /\ New(pc, image).row \in Rows
  BY NewShape, RowsThere DEF PCs, DrawingPCs
<1>2. Becomes(p, New(pc, image))
  BY <1>1 DEF TypeInv, TypeOK, Paint, Becomes, New
<1>3. PaintersTyped' /\ PaintersFit'
  BY <1>1, <1>2, BecomesTyped DEF InContext
<1>4. CrossTyped'
  BY Zenon DEF TypeInv, TypeOK, Paint, CrossTyped
<1> QED BY <1>2, <1>3, <1>4

LEMMA DrawnTyped ==
    ASSUME TypeInv, NEW p \in Painters, Drawn(p)
    PROVE  /\ PaintersTyped' /\ PaintersFit' /\ LockTyped'
           /\ Becomes(p, New(Afterwards(p), Nil)) /\ Afterwards(p) \in {"close", "waiting", "gone"}
<1>1. Afterwards(p) \in {"close", "waiting", "gone"}
  BY DEF Afterwards
<1>2. Becomes(p, New(Afterwards(p), Nil))
  <2>1. New(Afterwards(p), Nil) \in PainterRecords
    BY <1>1, NewShape DEF PCs
  <2> QED BY <2>1 DEF TypeInv, TypeOK, Drawn, Becomes, New
<1>3. PaintersTyped' /\ PaintersFit'
  <2> DEFINE r == New(Afterwards(p), Nil)
  <2>1. r \in PainterRecords /\ r.pc = Afterwards(p) /\ r.row \in Rows
    BY <1>1, NewShape, RowsThere DEF PCs
  <2> HIDE DEF r
  <2>2. r.pc \notin DrawingPCs /\ r.pc \notin InContext
    BY <1>1, <2>1 DEF DrawingPCs, InContext
  <2> QED BY <1>2, <2>1, <2>2, BecomesTyped DEF r
<1>4. LockTyped'
  BY DEF Drawn, TypeInv, TypeOK, LockTyped
<1> QED BY <1>1, <1>2, <1>3, <1>4

LEMMA EndedTyped ==
    ASSUME TypeInv, Ended, UNCHANGED <<scenario, loggedIn, sync, driverVars, crossed>>
    PROVE  TypeInv'
<1>0. TypeOK /\ UNCHANGED <<scenario, loggedIn, sync, dc, panel, wild, active, crossed>> /\ exited' = TRUE
  BY DEF TypeInv, Ended, driverVars
<1>1. PaintersTyped' /\ PaintersFit'
  BY RowsThere, ShutdownPaints DEF Ended, PaintersTyped, PaintersFit, PainterRecords, PCs, Contents,
       Drawing, DrawingPCs, InContext
<1>2. LockTyped' /\ FrameTyped'
  BY <1>0 DEF Ended, LockTyped, FrameTyped, Contents, TypeOK
<1>3. FlagsTyped'
  BY Zenon, <1>0 DEF FlagsTyped, TypeOK
<1> QED BY <1>0, <1>1, <1>2, <1>3, PartsKept, TypePartsNext DEF TypeInv

--------------------------------------------------------------------------------
(* Who draws.                                                               *)

LEMMA StartsTyped ==
    ASSUME TypeInv, Lifecycle \/ Render \/ Closing \/ (\E c \in Changes : Notice(c))
    PROVE  TypeInv'
<1>0. TypeOK
  BY DEF TypeInv
<1>1. ASSUME UNCHANGED <<dc, panel, ctx, wild, exited>>, LoginTyped',
             active' \in {active, FALSE}, PaintersTyped', PaintersFit', LockTyped', CrossTyped'
      PROVE  TypeInv'
  <2>1. FlagsTyped'
    BY Zenon, <1>0, <1>1 DEF FlagsTyped, TypeOK
  <2> QED BY <1>0, <1>1, <2>1, PartsKept, TypePartsNext DEF TypeInv
<1>2. ASSUME NEW p \in Painters \ {"shutdown"}, NEW pc \in {"context", "draw"}, NEW image \in Images,
             Paint(p, pc, image)
      PROVE  PaintersTyped' /\ PaintersFit' /\ CrossTyped'
  BY <1>2, PaintTyped
<1>3. ASSUME NEW p \in Painters, NEW pc \in {"loggedIn", "waiting", "locking", "gone"}, Goto(p, pc),
             UNCHANGED crossed
      PROVE  PaintersTyped' /\ PaintersFit' /\ CrossTyped'
  BY <1>0, <1>3, GotoTyped, PartsKept DEF PCs, DrawingPCs, InContext
<1>4. CASE Lifecycle
  <2>1. /\ UNCHANGED <<dc, panel, ctx, wild, exited, viewLock, active>>
    BY <1>4 DEF Lifecycle, LogIn, ShowQR, Registered, NotRegistered, driverVars
  <2>2. PaintersTyped' /\ PaintersFit' /\ CrossTyped'
    <3>1. "lifecycle" \in Painters \ {"shutdown"} /\ {"qr", "success", "error"} \subseteq Images
      BY DEF Painters, Images
    <3>2. CASE \E pc \in {"context", "draw"}, image \in Images : Paint("lifecycle", pc, image)
      BY <1>2, <3>1, <3>2
    <3>3. CASE (\E pc \in {"loggedIn", "waiting"} : Goto("lifecycle", pc)) /\ UNCHANGED crossed
      BY <1>3, <3>1, <3>3
    <3> QED BY <1>4, <3>1, <3>2, <3>3 DEF Lifecycle, LogIn, ShowQR, Registered, NotRegistered
  <2>3. UNCHANGED scenario /\ (UNCHANGED <<loggedIn, sync>> \/ Announce)
    BY <1>4 DEF Lifecycle, LogIn, ShowQR, Registered, NotRegistered
  <2>4. LoginTyped'
    BY <1>0, <2>3 DEF Announce, LoginTyped, TypeOK
  <2> QED BY <1>0, <1>1, <2>1, <2>2, <2>4, PartsKept
<1>5. ASSUME NEW p \in Painters \ {"shutdown"}, LockStats(p)
      PROVE  TypeInv'
  <2>1. LockTyped' /\ UNCHANGED <<dc, panel, ctx, wild, exited, scenario, loggedIn, sync, active>>
    BY <1>5 DEF LockStats, LockTyped, driverVars
  <2>2. PaintersTyped' /\ PaintersFit' /\ CrossTyped'
    BY <1>2, <1>5 DEF LockStats, Images
  <2> QED BY <1>0, <1>1, <2>1, <2>2, PartsKept
<1>6. CASE Render
  <2>1. "renderer" \in Painters \ {"shutdown"}
    BY DEF Painters
  <2>2. CASE StartRendering \/ Tick
    BY <1>0, <1>1, <1>3, <2>1, <2>2, PartsKept DEF StartRendering, Tick, driverVars
  <2>3. CASE PollOver \/ AwaitLogin
    <3>1. UNCHANGED <<painter, viewLock, ctx, dc, panel, wild, active, exited, crossed>>
      BY <2>3 DEF PollOver, AwaitLogin, driverVars
    <3>2. LoginTyped'
      BY <1>0, <2>3 DEF PollOver, AwaitLogin, LoginTyped, TypeOK
    <3> QED BY <1>0, <3>1, <3>2, PartsKept, TypePartsNext DEF TypeInv, PaintersFit, Drawing
  <2> QED BY <1>5, <1>6, <2>1, <2>2, <2>3 DEF Render
<1>7. ASSUME NEW c \in Changes, Notice(c)
      PROVE  TypeInv'
  <2>1. c \in Painters \ {"shutdown"}
    BY DisplayAssumption DEF Painters
  <2>2. CASE Notify(c)
    <3>1. UNCHANGED <<dc, panel, ctx, wild, exited, scenario, loggedIn, sync, active, viewLock>> /\ Paint(c, "context", "notice")
      BY <2>2 DEF Notify, driverVars
    <3> QED BY <1>0, <1>1, <1>2, <2>1, <3>1, PartsKept DEF Images
  <2>3. CASE StatsAgain(c)
    BY <1>0, <1>1, <1>3, <2>1, <2>3, PartsKept DEF StatsAgain, driverVars
  <2> QED BY <1>5, <1>7, <2>1, <2>2, <2>3 DEF Notice
<1>8. CASE Closing
  <2>1. CASE ShutDown
    <3>1. UNCHANGED <<dc, panel, ctx, wild, exited, scenario, loggedIn, sync, active, viewLock>> /\ Paint("shutdown", "point", Nil)
      BY <2>1 DEF ShutDown, driverVars
    <3>2. PaintersTyped' /\ PaintersFit' /\ CrossTyped'
      BY <3>1, ShutdownPaints, PaintTyped
    <3> QED BY <1>0, <1>1, <3>1, <3>2, PartsKept
  <2>2. CASE CloseDisplay
    <3>1. UNCHANGED <<dc, panel, ctx, wild, exited, scenario, loggedIn, sync, viewLock>> /\ active' = FALSE
      BY <2>2 DEF CloseDisplay
    <3>2. PaintersTyped' /\ PaintersFit' /\ CrossTyped'
      BY <1>3, <2>2, ShutdownPaints DEF CloseDisplay
    <3> QED BY <1>0, <1>1, <3>1, <3>2, PartsKept
  <2>3. CASE Exit
    BY <2>3, EndedTyped DEF Exit
  <2> QED BY <1>8, <2>1, <2>2, <2>3 DEF Closing
<1> QED BY <1>4, <1>6, <1>7, <1>8

--------------------------------------------------------------------------------
(* Drawing.                                                                 *)

\* SetPin takes a painter that draws to another step of drawing.
LEMMA SetPinShape ==
    ASSUME TypeInv, NEW p \in Painters, NEW level \in {"low", "high"},
           NEW sending \in DrawingPCs \ InContext, NEW closed \in DrawingPCs \ InContext,
           Drawing(p), SetPin(p, level, sending, closed)
    PROVE  /\ UNCHANGED <<scenario, loggedIn, sync, viewLock, ctx, panel, wild, active, exited, crossed>>
           /\ dc' \in {dc, level} /\ (active => dc' = level)
           /\ Becomes(p, At2(p, IF active THEN sending ELSE closed))
           /\ PaintersTyped' /\ PaintersFit'
<1>1. Goto(p, IF active THEN sending ELSE closed)
  BY DEF SetPin
<1>2. (IF active THEN sending ELSE closed) \in PCs \cap (DrawingPCs \ InContext)
  BY DEF PCs
<1>3. Becomes(p, At2(p, IF active THEN sending ELSE closed)) /\ PaintersTyped' /\ PaintersFit'
  BY <1>1, <1>2, GotoShape, GotoTyped
<1>4. /\ UNCHANGED <<scenario, loggedIn, sync, viewLock, ctx, panel, wild, active, exited, crossed>>
      /\ dc' \in {dc, level} /\ (active => dc' = level)
  BY Zenon DEF SetPin
<1> QED BY <1>3, <1>4

\* ShowFrame and NextRow leave a painter with a row and a frame.
LEMMA ShowShape ==
    ASSUME TypeInv, NEW p \in Painters, At(p, "show"),
           painter' = [painter EXCEPT ![p].pc = "point", ![p].frame = ctx]
    PROVE  \E r \in PainterRecords :
               /\ Becomes(p, r) /\ r.pc = "point" /\ r.frame = ctx
               /\ r.row = painter[p].row /\ r.image = painter[p].image
<1> DEFINE r == [pc |-> "point", image |-> painter[p].image, row |-> painter[p].row, frame |-> ctx]
<1>1. painter[p] \in PainterRecords
  BY RecordIs DEF TypeInv
<1>2. r \in PainterRecords
  BY <1>1 DEF TypeInv, TypeOK, PainterRecords, PCs, DrawingPCs
<1>3. [[painter[p] EXCEPT !.pc = "point"] EXCEPT !.frame = ctx] = r
  <2> DEFINE s == [painter[p] EXCEPT !.pc = "point"]
  <2>1. /\ s \in PainterRecords
        /\ s.pc = "point" /\ s.image = painter[p].image /\ s.row = painter[p].row
    BY <1>1 DEF PainterRecords, PCs, DrawingPCs
  <2> HIDE DEF s
  <2>2. [s EXCEPT !.frame = ctx] = r
    BY <2>1 DEF PainterRecords
  <2> QED BY <2>2 DEF s
<1>4. painter'[p] = r
  BY <1>1, <1>3 DEF TypeInv, TypeOK
<1> HIDE DEF r
<1>5. Becomes(p, r)
  BY <1>1, <1>2, <1>4 DEF TypeInv, TypeOK, Becomes
<1> QED BY <1>2, <1>5 DEF r

LEMMA NextRowShape ==
    ASSUME TypeInv, NEW p \in Painters, NextRow(p)
    PROVE  \E r \in PainterRecords :
               /\ Becomes(p, r) /\ r.frame = painter[p].frame /\ r.image = painter[p].image
               /\ r.row \in Rows
               /\ \/ painter[p].row = LastRow /\ r.pc = "refresh" /\ r.row = painter[p].row
                  \/ /\ painter[p].row # LastRow /\ r.row = painter[p].row + 1
                     /\ r.pc = IF p = "shutdown" THEN "pixels" ELSE "point"
<1>1. painter[p] \in PainterRecords /\ painter[p].row \in Rows
  BY RecordIs DEF TypeInv
<1>2. CASE painter[p].row = LastRow
  <2>1. Goto(p, "refresh") /\ "refresh" \in PCs
    BY <1>2 DEF NextRow, PCs, DrawingPCs
  <2> QED BY <1>1, <1>2, <2>1, GotoShape
<1>3. CASE painter[p].row # LastRow
  <2> DEFINE pc == IF p = "shutdown" THEN "pixels" ELSE "point"
             r  == [pc |-> pc, image |-> painter[p].image, row |-> painter[p].row + 1,
                    frame |-> painter[p].frame]
  <2>1. r \in PainterRecords /\ r.row \in Rows
    BY <1>1, <1>3, RowsThere DEF PainterRecords, PCs, DrawingPCs, Rows
  <2>2. [[painter[p] EXCEPT !.row = @ + 1] EXCEPT !.pc = pc] = r
    <3> DEFINE s == [painter[p] EXCEPT !.row = @ + 1]
    <3>1. /\ s \in PainterRecords
          /\ s.row = painter[p].row + 1 /\ s.image = painter[p].image /\ s.frame = painter[p].frame
      BY <1>1 DEF PainterRecords
    <3> HIDE DEF s
    <3>2. [s EXCEPT !.pc = pc] = r
      BY <3>1 DEF PainterRecords
    <3> QED BY <3>2 DEF s
  <2>3. painter'[p] = r
    BY <1>1, <1>3, <2>2 DEF NextRow, TypeInv, TypeOK
  <2>4. r.pc = pc /\ r.row = painter[p].row + 1 /\ r.image = painter[p].image /\ r.frame = painter[p].frame
    OBVIOUS
  <2> HIDE DEF r
  <2>5. Becomes(p, r)
    BY <1>3, <2>1, <2>3 DEF NextRow, TypeInv, TypeOK, Becomes
  <2> QED BY <1>3, <2>1, <2>4, <2>5
<1> QED BY <1>2, <1>3

LEMMA PanelIs ==
    ASSUME TypeOK
    PROVE  /\ panel.row \in Rows /\ panel.ram \in [Rows -> Contents] /\ panel.shown \in [Rows -> Contents]
           /\ Noise \in PanelRecords
           /\ \A r \in Rows : Following(r) \in Rows
<1>1. panel.row \in Rows /\ panel.ram \in [Rows -> Contents] /\ panel.shown \in [Rows -> Contents]
  BY DEF TypeOK, PanelRecords
<1>2. Noise \in PanelRecords
  BY <1>1 DEF TypeOK, Noise, PanelRecords, Contents
<1>3. \A r \in Rows : Following(r) \in Rows
  BY RowsThere DEF Following, Rows
<1> QED BY <1>1, <1>2, <1>3

LEMMA PaintingTyped ==
    ASSUME TypeInv, NEW p \in Painters, Painting(p)
    PROVE  TypeInv'
<1>0. TypeOK /\ PaintersFit
  BY DEF TypeInv
<1>1. ASSUME PaintersTyped', PaintersFit', LockTyped', FrameTyped',
             UNCHANGED <<scenario, loggedIn, sync, active, exited, crossed>>, wild' \in {wild, TRUE}
      PROVE  TypeInv'
  <2>1. FlagsTyped'
    BY Zenon, <1>0, <1>1 DEF FlagsTyped, TypeOK
  <2> QED BY <1>0, <1>1, <2>1, PartsKept, TypePartsNext DEF TypeInv
<1>2. CASE InitContext(p) \/ DrawInContext(p)
  <2>1. painter[p].pc \in InContext /\ Drawing(p) /\ p # "shutdown"
    BY <1>0, <1>2 DEF InitContext, DrawInContext, At, InContext, Drawing, DrawingPCs, PaintersFit
  <2>2. PaintersTyped' /\ PaintersFit'
    BY <1>2, <2>1, GotoTyped DEF InitContext, DrawInContext, PCs, DrawingPCs
  <2>3. painter[p].image \in Images
    BY <1>0, <2>1 DEF PaintersFit
  <2>4. FrameTyped'
    BY <1>0, <1>2, <2>3 DEF InitContext, DrawInContext, driverVars, FrameTyped, TypeOK, Contents
  <2> QED BY <1>0, <1>1, <1>2, <2>2, <2>4, PartsKept DEF InitContext, DrawInContext, driverVars
<1>3. CASE ShowFrame(p)
  <2>1. UNCHANGED <<ctx, dc, panel, wild, active, loggedIn, sync, exited, crossed>> /\ At(p, "show")
    BY <1>3 DEF ShowFrame, driverVars
  <2>2. CASE active
    <3>1. PICK r \in PainterRecords :
              /\ Becomes(p, r) /\ r.pc = "point" /\ r.frame = ctx
              /\ r.row = painter[p].row /\ r.image = painter[p].image
      BY <1>3, <2>2, ShowShape DEF ShowFrame
    <3>2. p # "shutdown" => r.image \in Images
      BY <1>0, <2>1, <3>1 DEF At, PaintersFit, Drawing, DrawingPCs
    <3>3. r.row \in Rows
      BY <1>0, <3>1, RecordIs
    <3>4. PaintersTyped' /\ PaintersFit'
      BY <3>1, <3>2, <3>3, BecomesTyped DEF InContext
    <3> QED BY <1>0, <1>1, <1>3, <2>1, <2>2, <3>4, PartsKept DEF ShowFrame
  <2>3. CASE ~active
    BY <1>0, <1>1, <1>3, <2>1, <2>3, DrawnTyped, PartsKept DEF ShowFrame
  <2> QED BY <2>2, <2>3
<1>4. CASE Point(p) \/ Pixels(p)
  <2>1. PICK level \in {"low", "high"}, sending \in DrawingPCs \ InContext, closed \in DrawingPCs \ InContext :
            Drawing(p) /\ SetPin(p, level, sending, closed)
    <3>1. {"pointing", "pixels", "sending", "refresh"} \subseteq DrawingPCs \ InContext /\ Drawing(p)
      BY <1>4 DEF Point, Pixels, At, Drawing, DrawingPCs, InContext
    <3>2. SetPin(p, "low", "pointing", "pixels") \/ SetPin(p, "high", "sending", "refresh")
      BY <1>4 DEF Point, Pixels
    <3>3. CASE SetPin(p, "low", "pointing", "pixels")
      BY Zenon, <3>1, <3>3 DEF InContext
    <3>4. CASE SetPin(p, "high", "sending", "refresh")
      BY Zenon, <3>1, <3>4 DEF InContext
    <3> QED BY <3>2, <3>3, <3>4
  <2>2. /\ UNCHANGED <<scenario, loggedIn, sync, viewLock, ctx, panel, wild, active, exited, crossed>>
        /\ dc' \in {dc, level} /\ PaintersTyped' /\ PaintersFit'
    BY <2>1, SetPinShape
  <2>3. FrameTyped'
    BY <1>0, <2>2 DEF FrameTyped, TypeOK
  <2> QED BY <1>0, <1>1, <2>2, <2>3, PartsKept
<1>5. CASE Pointed(p)
  <2>1. UNCHANGED <<scenario, loggedIn, sync, viewLock, ctx, dc, wild, active, exited, crossed>> /\ Goto(p, "pixels")
    BY <1>5 DEF Pointed
  <2>2. PaintersTyped' /\ PaintersFit'
    BY <1>5, <2>1, GotoTyped DEF Pointed, At, PCs, Drawing, DrawingPCs, InContext
  <2>3. FrameTyped'
    BY <1>0, <1>5, <2>1, PanelIs, RecordIs DEF Pointed, FrameTyped, TypeOK, PanelRecords
  <2> QED BY <1>0, <1>1, <2>1, <2>2, <2>3, PartsKept
<1>6. CASE Sent(p)
  <2>1. UNCHANGED <<scenario, loggedIn, sync, viewLock, ctx, dc, active, exited, crossed>> /\ NextRow(p)
    BY <1>6 DEF Sent
  <2>2. wild' \in {wild, TRUE}
    <3>1. wild' = (wild \/ dc = "low")
      BY <1>6 DEF Sent
    <3> QED BY Zenon, <1>0, <3>1 DEF TypeOK
  <2>3. PICK r \in PainterRecords :
            /\ Becomes(p, r) /\ r.image = painter[p].image /\ r.row \in Rows
            /\ r.pc \in {"refresh", "pixels", "point"}
    BY <2>1, NextRowShape
  <2>4. p # "shutdown" => r.image \in Images
    BY <1>0, <1>6, <2>3 DEF Sent, At, PaintersFit, Drawing, DrawingPCs
  <2>5. PaintersTyped' /\ PaintersFit'
    BY <2>3, <2>4, BecomesTyped DEF InContext
  <2>6. panel' \in PanelRecords
    <3>1. /\ panel' = [row |-> 0, ram |-> Blank, shown |-> Blank]
          \/ panel' = [panel EXCEPT !.ram[panel.row] = painter[p].frame, !.row = Following(panel.row)]
      BY <1>6 DEF Sent
    <3>2. [row |-> 0, ram |-> Blank, shown |-> Blank] \in PanelRecords
      BY RowsThere DEF Blank, PanelRecords, Contents
    <3>3. [panel EXCEPT !.ram[panel.row] = painter[p].frame, !.row = Following(panel.row)] \in PanelRecords
      BY <1>0, PanelIs, RecordIs DEF TypeOK, PanelRecords
    <3> QED BY <3>1, <3>2, <3>3
  <2>7. FrameTyped'
    BY <1>0, <2>1, <2>6 DEF FrameTyped, TypeOK
  <2> QED BY <1>0, <1>1, <2>1, <2>2, <2>5, <2>7, PartsKept
<1>7. CASE Refresh(p)
  <2>1. UNCHANGED <<scenario, loggedIn, sync, ctx, panel, wild, active, exited, crossed>> /\ dc' \in {dc, "low"}
    BY Zenon, <1>7 DEF Refresh
  <2>2. FrameTyped'
    BY <1>0, <2>1 DEF FrameTyped, TypeOK
  <2>3. PaintersTyped' /\ PaintersFit' /\ LockTyped'
    <3>1. CASE Goto(p, "refreshing") /\ UNCHANGED viewLock
      BY <1>0, <1>7, <3>1, GotoTyped, PartsKept DEF Refresh, At, PCs, Drawing, DrawingPCs, InContext
    <3>2. CASE Drawn(p)
      BY <3>2, DrawnTyped
    <3> QED BY <1>7, <3>1, <3>2 DEF Refresh
  <2> QED BY <1>1, <2>1, <2>2, <2>3
<1>8. CASE Refreshed(p)
  <2>1. UNCHANGED <<scenario, loggedIn, sync, ctx, dc, wild, active, exited, crossed>> /\ Drawn(p)
    BY <1>8 DEF Refreshed
  <2>2. FrameTyped'
    BY <1>0, <1>8, <2>1, PanelIs DEF Refreshed, FrameTyped, TypeOK, PanelRecords
  <2> QED BY <1>1, <2>1, <2>2, DrawnTyped
<1>9. CASE TxFails(p)
  <2>1. UNCHANGED <<scenario, loggedIn, sync, dc, panel, wild, active, crossed>>
    BY <1>9 DEF TxFails, driverVars
  <2>2. CASE Drawn(p) /\ UNCHANGED <<ctx, exited>>
    BY <1>0, <1>1, <2>1, <2>2, DrawnTyped, PartsKept
  <2>3. CASE Ended
    BY <1>9, <2>3, EndedTyped DEF TxFails
  <2> QED BY <1>9, <2>2, <2>3 DEF TxFails
<1> QED BY <1>2, <1>3, <1>4, <1>5, <1>6, <1>7, <1>8, <1>9 DEF Painting

LEMMA StepTyped == TypeInv /\ [Next]_vars => TypeInv'
<1> SUFFICES ASSUME TypeInv, [Next]_vars
             PROVE  TypeInv'
  OBVIOUS
<1>1. CASE Lifecycle \/ Render \/ Closing \/ (\E c \in Changes : Notice(c))
  BY <1>1, StartsTyped
<1>2. CASE \E p \in Painters : Painting(p)
  BY <1>2, PaintingTyped
<1>3. CASE UNCHANGED vars
  BY <1>3, PartsKept, TypePartsNext DEF vars, driverVars, TypeInv, PaintersFit, Drawing
<1> QED BY <1>1, <1>2, <1>3 DEF Next

\* The painters, the context they share, the pin and the memory of the chip stay within
\* their types: no transfer leaves the rows of the panel, whoever meets whom
\* (render.go, eink.go).
THEOREM TypeCorrect == Spec => []TypeOK
<1>1. TypeInv => TypeOK
  BY DEF TypeInv
<1> QED BY <1>1, InitTyped, StepTyped, PTL DEF Spec

--------------------------------------------------------------------------------
(* Who draws alone.  The context, the pin and the memory of the chip are    *)
(* what the one painter that draws has made of them.                        *)

FrameOf(p) == IF p = "shutdown" THEN {} ELSE {painter[p].image}

\* How far the painter has come: in the context and in what it sends, ...
InFrame(p) ==
    /\ painter[p].pc = "draw" => ctx = {}
    /\ painter[p].pc = "show" => ctx = FrameOf(p)
    /\ painter[p].pc \in InContext => painter[p].row = 0
    /\ painter[p].pc \notin InContext => painter[p].frame = FrameOf(p)

\* ... and on the panel.
OnPanel(p) ==
    /\ painter[p].pc \in {"point", "pointing", "pixels", "sending"} =>
           \A r \in Rows : r < painter[p].row => panel.ram[r] = FrameOf(p)
    /\ painter[p].pc \in {"pixels", "sending"} => panel.row = painter[p].row
    /\ painter[p].pc \in {"refresh", "refreshing"} => \A r \in Rows : panel.ram[r] = FrameOf(p)
    /\ painter[p].pc = "sending" => dc = "high"
    /\ painter[p].pc \in {"pointing", "refreshing"} => dc = "low"

OnTrack(p) == InFrame(p) /\ (active => OnPanel(p))

\* The stats are drawn under the lock, by one at a time.
StatsLocked == \A p \in Painters : Drawing(p) /\ painter[p].image = "stats" => viewLock = p

\* Until the device has logged in, or has begun to show its code, nobody uses
\* the context.
FirstAlone ==
    painter["lifecycle"].pc = "new" =>
        /\ ~loggedIn
        /\ ctx = {}
        /\ \A p \in Painters \ {"shutdown"} : painter[p].pc = "new"

OneDraws == ~crossed => \A p, q \in Painters : Drawing(p) /\ Drawing(q) => p = q
Tracked  == ~crossed => \A p \in Painters : Drawing(p) => OnTrack(p)

MixedInv == StatsLocked /\ FirstAlone /\ OneDraws /\ Tracked /\ MixedOnlyUnlocked

LEMMA InitMixed == Init => MixedInv
<1> SUFFICES ASSUME Init
             PROVE  MixedInv
  OBVIOUS
<1>1. \A p \in Painters : painter[p].pc = "new" /\ ~Drawing(p)
  BY DEF Init, Drawing, DrawingPCs
<1>2. FirstAlone /\ MixedOnlyUnlocked
  BY <1>1 DEF Init, FirstAlone, MixedOnlyUnlocked
<1> QED BY <1>1, <1>2 DEF MixedInv, StatsLocked, OneDraws, Tracked

LEMMA EndedMixed ==
    ASSUME MixedInv, Ended, UNCHANGED <<loggedIn, driverVars, crossed>>
    PROVE  MixedInv'
<1>1. \A p \in Painters : painter'[p].pc = "gone" /\ ~Drawing(p)'
  BY DEF Ended, Drawing, DrawingPCs
<1>2. FirstAlone'
  BY <1>1, ShutdownPaints DEF FirstAlone
<1>3. MixedOnlyUnlocked'
  BY DEF driverVars, MixedInv, MixedOnlyUnlocked, Shows, Blank
<1> QED BY <1>1, <1>2, <1>3 DEF MixedInv, StatsLocked, OneDraws, Tracked

\* What another does with its own record leaves a painter on its track.
LEMMA TrackKept ==
    ASSUME NEW q \in Painters, painter'[q] = painter[q], UNCHANGED <<ctx, dc, panel>>,
           active' \in {active, FALSE}, OnTrack(q)
    PROVE  OnTrack(q)'
<1>1. InFrame(q)'
  BY DEF OnTrack, InFrame, FrameOf
<1>2. active' => active
  BY Zenon
<1>3. OnPanel(q) => OnPanel(q)'
  BY DEF OnPanel, FrameOf
<1> QED BY Zenon, <1>1, <1>2, <1>3 DEF OnTrack

\* A painter that does not draw goes on not drawing.
LEMMA GoesMixed ==
    ASSUME TypeInv, MixedInv, NEW p \in Painters, NEW pc \in PCs \ (DrawingPCs \cup {"new"}), Goto(p, pc),
           ~Drawing(p), UNCHANGED <<viewLock, ctx, dc, panel, wild, crossed>>, active' \in {active, FALSE},
           p = "lifecycle" \/ (loggedIn' = loggedIn /\ (painter["lifecycle"].pc = "new" => p = "shutdown"))
    PROVE  MixedInv'
<1>1. /\ Becomes(p, At2(p, pc)) /\ At2(p, pc).pc = pc
  BY GotoShape
<1>2. /\ painter'[p].pc = pc /\ ~Drawing(p)'
      /\ \A q \in Painters \ {p} : painter'[q] = painter[q] /\ (Drawing(q)' <=> Drawing(q))
      /\ \A q \in Painters : Drawing(q)' => Drawing(q) /\ painter'[q] = painter[q]
  BY <1>1 DEF Becomes, Drawing
<1>3. StatsLocked' /\ OneDraws'
  BY <1>2 DEF MixedInv, StatsLocked, OneDraws
<1>4. FirstAlone'
  BY <1>2, ShutdownPaints DEF MixedInv, FirstAlone
<1>5. \A q \in Painters : Drawing(q)' /\ OnTrack(q) => OnTrack(q)'
  BY <1>2, TrackKept
<1>6. Tracked'
  BY <1>2, <1>5 DEF MixedInv, Tracked
<1>7. MixedOnlyUnlocked'
  BY DEF MixedInv, MixedOnlyUnlocked, Shows, Blank
<1> QED BY <1>3, <1>4, <1>6, <1>7 DEF MixedInv

\* A painter begins to draw.
LEMMA PaintMixed ==
    ASSUME TypeInv, MixedInv, NEW p \in Painters, NEW pc \in {"context", "draw", "point"},
           NEW image \in Images \cup {Nil}, Paint(p, pc, image), ~Drawing(p),
           IF p = "shutdown" THEN pc = "point" /\ image = Nil ELSE pc # "point" /\ image \in Images,
           pc = "draw" => ctx = {},
           UNCHANGED <<ctx, driverVars>>,
           p = "shutdown" \/ image # "stats" => UNCHANGED viewLock,
           p # "shutdown" /\ image = "stats" => viewLock = Nil /\ viewLock' = p,
           p = "lifecycle" \/ (loggedIn' = loggedIn /\ (painter["lifecycle"].pc = "new" => p = "shutdown"))
    PROVE  MixedInv'
<1>0. UNCHANGED <<dc, panel, wild, active>> /\ Nil \notin Painters
  BY DisplayAssumption DEF driverVars, Painters
<1>1. /\ painter'[p].pc = pc /\ painter'[p].image = image /\ painter'[p].row = 0 /\ painter'[p].frame = {}
      /\ \A q \in Painters \ {p} : painter'[q] = painter[q] /\ (Drawing(q)' <=> Drawing(q))
      /\ Drawing(p)'
  <2>1. Becomes(p, New(pc, image))
    BY PaintTyped
  <2> QED BY <2>1, NewShape DEF Becomes, Drawing, DrawingPCs, PCs
<1>2. /\ ~crossed' => ~crossed
      /\ ~crossed' => \A q \in Painters \ {p} : Drawing(q) => image = "stats" /\ painter[q].image = "stats"
  BY Zenon DEF Paint
<1>3. StatsLocked'
  <2>1. CASE p # "shutdown" /\ image = "stats"
    BY <1>0, <1>1, <2>1 DEF MixedInv, StatsLocked
  <2>2. CASE p = "shutdown" \/ image # "stats"
    <3>1. image # "stats"
      BY <2>2, DisplayAssumption DEF Images
    <3> QED BY <1>1, <2>2, <3>1 DEF MixedInv, StatsLocked
  <2> QED BY <2>1, <2>2
<1>4. ~crossed' => \A q \in Painters \ {p} : ~Drawing(q)
  <2>1. CASE p # "shutdown" /\ image = "stats"
    BY <1>0, <1>2, <2>1 DEF MixedInv, StatsLocked
  <2>2. CASE p = "shutdown" \/ image # "stats"
    <3>1. image # "stats"
      BY <2>2, DisplayAssumption DEF Images
    <3> QED BY Zenon, <1>2, <3>1
  <2> QED BY <2>1, <2>2
<1>5. OneDraws'
  BY <1>1, <1>4 DEF OneDraws
<1>6. OnTrack(p)'
  <2>1. InFrame(p)'
    BY <1>1 DEF InFrame, FrameOf, InContext
  <2>2. OnPanel(p)'
    BY <1>1, RowsThere DEF OnPanel
  <2> QED BY Zenon, <2>1, <2>2 DEF OnTrack
<1>7. Tracked'
  BY <1>1, <1>4, <1>6 DEF Tracked
<1>8. FirstAlone'
  BY <1>1, ShutdownPaints DEF MixedInv, FirstAlone
<1>9. MixedOnlyUnlocked'
  BY <1>0, <1>2 DEF MixedInv, MixedOnlyUnlocked, Shows, Blank
<1> QED BY <1>3, <1>5, <1>7, <1>8, <1>9 DEF MixedInv

\* A step that touches none of them.
LEMMA AsideMixed ==
    ASSUME MixedInv, UNCHANGED <<painter, loggedIn, viewLock, ctx, dc, panel, wild, active, crossed>>
    PROVE  MixedInv'
<1>1. \A p \in Painters : (Drawing(p)' <=> Drawing(p)) /\ (OnTrack(p) => OnTrack(p)')
  BY TrackKept DEF Drawing
<1>2. MixedOnlyUnlocked'
  BY DEF MixedInv, MixedOnlyUnlocked, Shows, Blank
<1>3. StatsLocked' /\ FirstAlone' /\ OneDraws' /\ Tracked'
  BY <1>1 DEF MixedInv, StatsLocked, FirstAlone, OneDraws, Tracked
<1> QED BY <1>2, <1>3 DEF MixedInv

LEMMA StartsMixed ==
    ASSUME TypeInv, MixedInv, Lifecycle \/ Render \/ Closing \/ (\E c \in Changes : Notice(c))
    PROVE  MixedInv'
<1>1. CASE Lifecycle
  <2>1. "lifecycle" \in Painters \ {"shutdown"} /\ {"qr", "success", "error"} \subseteq Images \ {"stats"}
    BY DEF Painters, Images
  <2>2. ~Drawing("lifecycle") /\ UNCHANGED <<viewLock, ctx, driverVars>>
    BY <1>1 DEF Lifecycle, LogIn, ShowQR, Registered, NotRegistered, At, Drawing, DrawingPCs
  <2>3. CASE ShowQR /\ active
    <3>1. ctx = {}
      BY <2>3 DEF ShowQR, At, MixedInv, FirstAlone
    <3> QED BY <2>1, <2>2, <2>3, <3>1, PaintMixed DEF ShowQR
  <2>4. CASE Registered \/ NotRegistered
    BY <2>1, <2>2, <2>4, PaintMixed DEF Registered, NotRegistered
  <2>5. CASE LogIn \/ (ShowQR /\ ~active)
    <3>1. (Goto("lifecycle", "loggedIn") \/ Goto("lifecycle", "waiting")) /\ UNCHANGED crossed
      BY <2>5 DEF LogIn, ShowQR
    <3>2. {"loggedIn", "waiting"} \subseteq PCs \ (DrawingPCs \cup {"new"})
      BY DEF PCs, DrawingPCs
    <3> QED BY <2>1, <2>2, <3>1, <3>2, GoesMixed DEF driverVars
  <2> QED BY <1>1, <2>3, <2>4, <2>5 DEF Lifecycle
<1>2. ASSUME NEW p \in Painters \ {"shutdown", "lifecycle"}, LockStats(p)
      PROVE  MixedInv'
  <2>1. painter["lifecycle"].pc # "new" /\ ~Drawing(p)
    BY <1>2 DEF LockStats, At, MixedInv, FirstAlone, Drawing, DrawingPCs
  <2> QED BY <1>2, <2>1, PaintMixed DEF LockStats, Images
<1>3. CASE Render
  <2>1. "renderer" \in Painters \ {"shutdown", "lifecycle"}
    BY DEF Painters
  <2>2. CASE StartRendering \/ Tick
    <3>1. /\ Goto("renderer", "locking") /\ ~Drawing("renderer")
          /\ UNCHANGED <<viewLock, ctx, dc, panel, wild, crossed, active, loggedIn>>
      BY <2>2 DEF StartRendering, Tick, At, Drawing, DrawingPCs, driverVars
    <3>2. painter["lifecycle"].pc # "new"
      BY <2>1, <2>2 DEF StartRendering, Tick, At, MixedInv, FirstAlone
    <3>3. "locking" \in PCs \ (DrawingPCs \cup {"new"})
      BY DEF PCs, DrawingPCs
    <3> QED BY <2>1, <3>1, <3>2, <3>3, GoesMixed
  <2>3. CASE PollOver \/ AwaitLogin
    <3>1. UNCHANGED <<painter, loggedIn, viewLock, ctx, dc, panel, wild, active, exited, crossed>>
      BY <2>3 DEF PollOver, AwaitLogin, driverVars
    <3> QED BY <3>1, AsideMixed
  <2> QED BY <1>2, <1>3, <2>1, <2>2, <2>3 DEF Render
<1>4. ASSUME NEW c \in Changes, Notice(c)
      PROVE  MixedInv'
  <2>1. c \in Painters \ {"shutdown", "lifecycle"} /\ "renderer" \in Painters \ {"shutdown"}
    BY DisplayAssumption DEF Painters
  <2>2. CASE Notify(c)
    <3>1. painter["lifecycle"].pc # "new"
      BY <2>1, <2>2 DEF Notify, MixedInv, FirstAlone
    <3>2. ~Drawing(c) /\ Paint(c, "context", "notice") /\ UNCHANGED <<loggedIn, viewLock, ctx, driverVars>>
      BY <2>2 DEF Notify, At, Drawing, DrawingPCs
    <3> QED BY <2>1, <3>1, <3>2, PaintMixed DEF Images
  <2>3. CASE StatsAgain(c)
    <3>1. /\ Goto(c, "locking") /\ ~Drawing(c)
          /\ UNCHANGED <<viewLock, ctx, dc, panel, wild, crossed, active, loggedIn>>
      BY <2>3 DEF StatsAgain, At, Drawing, DrawingPCs, driverVars
    <3>2. painter["lifecycle"].pc # "new"
      BY <2>1, <2>3 DEF StatsAgain, At, MixedInv, FirstAlone
    <3>3. "locking" \in PCs \ (DrawingPCs \cup {"new"})
      BY DEF PCs, DrawingPCs
    <3> QED BY <2>1, <3>1, <3>2, <3>3, GoesMixed
  <2> QED BY <1>2, <1>4, <2>1, <2>2, <2>3 DEF Notice
<1>5. CASE Closing
  <2>1. CASE ShutDown
    <3>1. ~Drawing("shutdown") /\ Paint("shutdown", "point", Nil)
          /\ UNCHANGED <<loggedIn, viewLock, ctx, driverVars>>
      BY <2>1 DEF ShutDown, At, Drawing, DrawingPCs
    <3>2. Nil # "stats"
      BY DisplayAssumption DEF Images
    <3> QED BY ShutdownPaints, <3>1, <3>2, PaintMixed
  <2>2. CASE CloseDisplay
    <3>1. /\ Goto("shutdown", "gone") /\ ~Drawing("shutdown") /\ active' = FALSE
          /\ UNCHANGED <<viewLock, ctx, dc, panel, wild, crossed, loggedIn>>
      BY <2>2 DEF CloseDisplay, At, Drawing, DrawingPCs
    <3>2. "gone" \in PCs \ (DrawingPCs \cup {"new"})
      BY DEF PCs, DrawingPCs
    <3> QED BY <3>1, <3>2, ShutdownPaints, GoesMixed
  <2>3. CASE Exit
    BY <2>3, EndedMixed DEF Exit
  <2> QED BY <1>5, <2>1, <2>2, <2>3 DEF Closing
<1> QED BY <1>1, <1>3, <1>4, <1>5

\* A step of a painter that draws: it is on its track, or has done.
LEMMA OneMixed ==
    ASSUME TypeInv, MixedInv, NEW p \in Painters, Drawing(p), NEW r \in PainterRecords, Becomes(p, r),
           r.pc # "new", UNCHANGED <<loggedIn, crossed>>,
           p = "shutdown" => UNCHANGED ctx,
           \/ r.pc \in DrawingPCs /\ r.image = painter[p].image /\ UNCHANGED viewLock
           \/ r.pc \notin DrawingPCs /\ viewLock' = IF viewLock = p THEN Nil ELSE viewLock,
           ~crossed /\ Drawing(p)' => OnTrack(p)',
           MixedOnlyUnlocked'
    PROVE  MixedInv'
<1>1. /\ painter'[p] = r /\ (Drawing(p)' <=> r.pc \in DrawingPCs)
      /\ \A q \in Painters \ {p} : painter'[q] = painter[q] /\ (Drawing(q)' <=> Drawing(q))
  BY DEF Becomes, Drawing
<1>2. StatsLocked'
  BY <1>1 DEF MixedInv, StatsLocked
<1>3. OneDraws'
  BY <1>1 DEF MixedInv, OneDraws
<1>4. Tracked'
  BY <1>1 DEF MixedInv, OneDraws, Tracked
<1>5. FirstAlone'
  <2> SUFFICES ASSUME painter'["lifecycle"].pc = "new"
               PROVE  /\ ~loggedIn' /\ ctx' = {}
                      /\ \A q \in Painters \ {"shutdown"} : painter'[q].pc = "new"
    BY DEF FirstAlone
  <2>1. painter["lifecycle"].pc = "new"
    BY <1>1, ShutdownPaints
  <2>2. p = "shutdown"
    BY <2>1 DEF MixedInv, FirstAlone, Drawing, DrawingPCs
  <2> QED BY <1>1, <2>1, <2>2 DEF MixedInv, FirstAlone
<1> QED BY <1>2, <1>3, <1>4, <1>5 DEF MixedInv

LEMMA ShownKept ==
    ASSUME MixedInv, UNCHANGED <<crossed, wild>>, panel'.shown = panel.shown
    PROVE  MixedOnlyUnlocked'
BY DEF MixedInv, MixedOnlyUnlocked, Shows, Blank

\* A step of a painter that goes on drawing what it draws.
LEMMA GoesOnMixed ==
    ASSUME TypeInv, MixedInv, NEW p \in Painters, Drawing(p), NEW pc \in DrawingPCs, Goto(p, pc),
           UNCHANGED <<loggedIn, crossed, viewLock, wild>>, panel'.shown = panel.shown,
           p = "shutdown" => UNCHANGED ctx,
           ~crossed => OnTrack(p)'
    PROVE  MixedInv'
<1> DEFINE r == At2(p, pc)
<1>1. Becomes(p, r) /\ r \in PainterRecords /\ r.pc = pc /\ r.image = painter[p].image
  BY GotoShape DEF PCs
<1> HIDE DEF r
<1>2. r.pc # "new"
  BY <1>1 DEF DrawingPCs
<1>3. MixedOnlyUnlocked'
  BY ShownKept
<1> QED BY <1>1, <1>2, <1>3, OneMixed

LEMMA DrawnMixed ==
    ASSUME TypeInv, MixedInv, NEW p \in Painters, Drawing(p), Drawn(p),
           UNCHANGED <<loggedIn, crossed, ctx>>, MixedOnlyUnlocked'
    PROVE  MixedInv'
<1> DEFINE r == New(Afterwards(p), Nil)
<1>1. Becomes(p, r) /\ r \in PainterRecords /\ r.pc \in {"close", "waiting", "gone"}
  BY DrawnTyped, NewShape DEF PCs
<1> HIDE DEF r
<1>2. r.pc \notin DrawingPCs /\ r.pc # "new" /\ ~Drawing(p)'
  BY <1>1 DEF DrawingPCs, Drawing, Becomes
<1> QED BY <1>1, <1>2, OneMixed DEF Drawn

\* The fields of a painter that has gone on.
LEMMA GotoFields ==
    ASSUME TypeInv, NEW p \in Painters, NEW pc \in PCs, Goto(p, pc)
    PROVE  /\ painter'[p].pc = pc /\ painter'[p].image = painter[p].image
           /\ painter'[p].row = painter[p].row /\ painter'[p].frame = painter[p].frame
           /\ FrameOf(p)' = FrameOf(p)
BY GotoShape DEF Becomes, FrameOf

LEMMA ContextMixed ==
    ASSUME TypeInv, MixedInv, NEW p \in Painters, InitContext(p) \/ DrawInContext(p) \/ ShowFrame(p)
    PROVE  MixedInv'
<1>0. /\ Drawing(p) /\ p # "shutdown" /\ painter[p].pc \in InContext
      /\ UNCHANGED <<loggedIn, crossed, dc, panel, wild, active>>
      /\ ~crossed => OnTrack(p)
  BY DEF InitContext, DrawInContext, ShowFrame, At, Drawing, DrawingPCs, TypeInv, PaintersFit, InContext,
         driverVars, MixedInv, Tracked
<1>1. CASE InitContext(p)
  <2>1. Goto(p, "draw") /\ ctx' = {} /\ UNCHANGED viewLock /\ "draw" \in DrawingPCs /\ "draw" \in PCs
    BY <1>1 DEF InitContext, DrawingPCs, PCs
  <2>2. ~crossed => OnTrack(p)'
    BY <1>0, <2>1, GotoFields DEF OnTrack, InFrame, OnPanel, InContext
  <2> QED BY <1>0, <2>1, <2>2, GoesOnMixed
<1>2. CASE DrawInContext(p)
  <2>1. /\ Goto(p, "show") /\ ctx' = ctx \cup {painter[p].image} /\ painter[p].pc = "draw"
        /\ UNCHANGED viewLock /\ "show" \in DrawingPCs /\ "show" \in PCs
    BY <1>2 DEF DrawInContext, At, DrawingPCs, PCs
  <2>2. ~crossed => OnTrack(p)'
    BY <1>0, <2>1, GotoFields DEF OnTrack, InFrame, OnPanel, InContext, FrameOf
  <2> QED BY <1>0, <2>1, <2>2, GoesOnMixed
<1>3. CASE ShowFrame(p) /\ active
  <2>1. PICK r \in PainterRecords :
            /\ Becomes(p, r) /\ r.pc = "point" /\ r.frame = ctx
            /\ r.row = painter[p].row /\ r.image = painter[p].image
    BY <1>3, ShowShape DEF ShowFrame
  <2>2. painter[p].pc = "show" /\ UNCHANGED <<viewLock, ctx>>
    BY <1>3 DEF ShowFrame, At
  <2>3. ~crossed => OnTrack(p)'
    <3> SUFFICES ASSUME OnTrack(p)
                 PROVE  OnTrack(p)'
      BY <1>0
    <3>1. InFrame(p)'
      BY <2>1, <2>2 DEF Becomes, OnTrack, InFrame, InContext, FrameOf
    <3>2. OnPanel(p)'
      BY <2>1, <2>2, RowsThere DEF Becomes, OnTrack, InFrame, InContext, OnPanel
    <3> QED BY Zenon, <3>1, <3>2 DEF OnTrack
  <2>4. r.pc \in DrawingPCs /\ r.pc # "new"
    BY <2>1 DEF DrawingPCs
  <2>5. MixedOnlyUnlocked'
    BY <1>0, ShownKept
  <2> QED BY <1>0, <2>1, <2>2, <2>3, <2>4, <2>5, OneMixed
<1>4. CASE ShowFrame(p) /\ ~active
  <2>1. MixedOnlyUnlocked'
    BY <1>0, ShownKept
  <2> QED BY <1>0, <1>4, <2>1, DrawnMixed DEF ShowFrame
<1> QED BY <1>1, <1>2, <1>3, <1>4

LEMMA PinMixed ==
    ASSUME TypeInv, MixedInv, NEW p \in Painters, Point(p) \/ Pixels(p)
    PROVE  MixedInv'
<1>0. /\ Drawing(p) /\ UNCHANGED <<loggedIn, crossed, viewLock, ctx, panel, wild, active>>
      /\ ~crossed => OnTrack(p)
  BY DEF Point, Pixels, SetPin, At, Drawing, DrawingPCs, MixedInv, Tracked
<1>1. ASSUME NEW pc \in DrawingPCs \ InContext, Goto(p, pc), ~active
      PROVE  MixedInv'
  <2>1. ~crossed => OnTrack(p)'
    <3>1. painter[p].pc \notin InContext
      BY DEF Point, Pixels, At, InContext
    <3> QED BY <1>0, <1>1, <3>1, GotoFields DEF OnTrack, InFrame, InContext, PCs
  <2> QED BY <1>0, <1>1, <2>1, GoesOnMixed
<1>2. CASE ~active
  <2>1. Goto(p, "pixels") \/ Goto(p, "refresh")
    BY <1>2 DEF Point, Pixels, SetPin
  <2> QED BY <1>1, <1>2, <2>1 DEF DrawingPCs, InContext
<1>3. CASE active /\ Point(p)
  <2>1. Goto(p, "pointing") /\ dc' = "low" /\ painter[p].pc = "point" /\ "pointing" \in PCs \cap DrawingPCs
    BY <1>3 DEF Point, SetPin, At, PCs, DrawingPCs
  <2>2. ~crossed => OnTrack(p)'
    BY <1>0, <1>3, <2>1, GotoFields DEF OnTrack, InFrame, OnPanel, InContext
  <2> QED BY <1>0, <2>1, <2>2, GoesOnMixed
<1>4. CASE active /\ Pixels(p)
  <2>1. Goto(p, "sending") /\ dc' = "high" /\ painter[p].pc = "pixels" /\ "sending" \in PCs \cap DrawingPCs
    BY <1>4 DEF Pixels, SetPin, At, PCs, DrawingPCs
  <2>2. ~crossed => OnTrack(p)'
    BY <1>0, <1>4, <2>1, GotoFields DEF OnTrack, InFrame, OnPanel, InContext
  <2> QED BY <1>0, <2>1, <2>2, GoesOnMixed
<1> QED BY <1>2, <1>3, <1>4

LEMMA PointedMixed ==
    ASSUME TypeInv, MixedInv, NEW p \in Painters, Pointed(p)
    PROVE  MixedInv'
<1>0. /\ Drawing(p) /\ active /\ UNCHANGED <<loggedIn, viewLock, ctx, dc, wild, active, crossed>>
      /\ Goto(p, "pixels") /\ painter[p].pc = "pointing" /\ "pixels" \in PCs \cap DrawingPCs
      /\ ~crossed => OnTrack(p)
  BY DEF Pointed, At, Drawing, DrawingPCs, PCs, MixedInv, Tracked
<1>1. panel'.shown = panel.shown
  BY DEF Pointed, Noise, TypeInv, TypeOK, PanelRecords
<1>2. ~crossed => OnTrack(p)'
  <2> SUFFICES ASSUME OnTrack(p)
               PROVE  OnTrack(p)'
    BY <1>0
  <2>1. dc = "low" /\ OnPanel(p) /\ InFrame(p)
    BY <1>0 DEF OnTrack, OnPanel
  <2>2. panel'.row = painter[p].row /\ panel'.ram = panel.ram
    BY <2>1, PanelIs DEF Pointed, TypeInv, TypeOK, PanelRecords
  <2>3. InFrame(p)'
    BY <1>0, <2>1, GotoFields DEF InFrame, InContext
  <2>4. OnPanel(p)'
    BY <1>0, <2>1, <2>2, GotoFields DEF OnPanel
  <2> QED BY <2>3, <2>4 DEF OnTrack
<1> QED BY <1>0, <1>1, <1>2, GoesOnMixed

LEMMA SentMixed ==
    ASSUME TypeInv, MixedInv, NEW p \in Painters, Sent(p)
    PROVE  MixedInv'
<1>0. /\ TypeOK /\ Drawing(p) /\ active /\ UNCHANGED <<loggedIn, viewLock, ctx, dc, active, crossed>>
      /\ NextRow(p) /\ painter[p].pc = "sending"
      /\ ~crossed => OnTrack(p)
  BY DEF Sent, At, Drawing, DrawingPCs, MixedInv, Tracked, TypeInv
<1>1. PICK r \in PainterRecords :
          /\ Becomes(p, r) /\ r.frame = painter[p].frame /\ r.image = painter[p].image
          /\ r.row \in Rows
          /\ \/ painter[p].row = LastRow /\ r.pc = "refresh" /\ r.row = painter[p].row
             \/ /\ painter[p].row # LastRow /\ r.row = painter[p].row + 1
                /\ r.pc = IF p = "shutdown" THEN "pixels" ELSE "point"
  BY <1>0, NextRowShape
<1>2. r.pc \in DrawingPCs \ InContext /\ r.pc # "new"
  BY <1>1 DEF DrawingPCs, InContext
<1>3. ASSUME ~crossed
      PROVE  OnTrack(p)' /\ MixedOnlyUnlocked'
  <2>1. dc = "high" /\ panel.row = painter[p].row /\ OnPanel(p) /\ InFrame(p) /\ ~wild
    BY <1>0, <1>3 DEF OnTrack, OnPanel, MixedInv, MixedOnlyUnlocked
  <2>2. ~wild' /\ painter[p].frame = FrameOf(p) /\ FrameOf(p)' = FrameOf(p)
    BY <1>0, <1>1, <2>1 DEF Sent, InFrame, InContext, FrameOf, Becomes
  <2>3. /\ panel'.ram[painter[p].row] = FrameOf(p) /\ panel'.row = Following(painter[p].row)
        /\ \A q \in Rows \ {painter[p].row} : panel'.ram[q] = panel.ram[q]
        /\ panel'.shown = panel.shown
    BY <1>0, <2>1, <2>2, PanelIs, RecordIs DEF Sent, TypeOK, PanelRecords
  <2>4. MixedOnlyUnlocked'
    BY <2>2, <2>3, <1>0 DEF MixedInv, MixedOnlyUnlocked, Shows, Blank
  <2>5. InFrame(p)'
    BY <1>1, <1>2, <2>2 DEF InFrame, Becomes
  <2>6. OnPanel(p)'
    <3>1. painter[p].row \in Rows /\ \A q \in Rows : q < painter[p].row => panel.ram[q] = FrameOf(p)
      BY <1>0, <2>1, RecordIs DEF OnPanel
    <3>2. \A q \in Rows : q <= painter[p].row => panel'.ram[q] = FrameOf(p)
      <4> SUFFICES ASSUME NEW q \in Rows, q <= painter[p].row
                   PROVE  panel'.ram[q] = FrameOf(p)
        OBVIOUS
      <4>1. q \in Nat /\ painter[p].row \in Nat
        BY <3>1, RowsThere
      <4>2. CASE q = painter[p].row
        BY <2>3, <4>2
      <4>3. CASE q < painter[p].row
        BY <2>3, <3>1, <4>1, <4>3
      <4> QED BY <4>1, <4>2, <4>3
    <3>3. CASE painter[p].row = LastRow
      BY <1>1, <2>2, <3>2, <3>3, RowsThere DEF OnPanel, Becomes, Rows
    <3>4. CASE painter[p].row # LastRow
      <4>1. \A q \in Rows : q < painter[p].row + 1 => q <= painter[p].row
        <5> SUFFICES ASSUME NEW q \in Rows, q < painter[p].row + 1
                     PROVE  q <= painter[p].row
          OBVIOUS
        <5>1. q \in Nat /\ painter[p].row \in Nat
          BY <3>1, RowsThere
        <5> QED BY <5>1
      <4>2. panel'.row = painter[p].row + 1
        BY <2>3, <3>4 DEF Following
      <4> QED BY <1>1, <2>2, <3>2, <3>4, <4>1, <4>2 DEF OnPanel, Becomes
    <3> QED BY <3>3, <3>4
  <2> QED BY <2>4, <2>5, <2>6 DEF OnTrack
<1>4. MixedOnlyUnlocked'
  BY <1>0, <1>3 DEF MixedOnlyUnlocked
<1> QED BY <1>0, <1>1, <1>2, <1>3, <1>4, OneMixed

LEMMA RefreshMixed ==
    ASSUME TypeInv, MixedInv, NEW p \in Painters, Refresh(p)
    PROVE  MixedInv'
<1>0. /\ Drawing(p) /\ UNCHANGED <<loggedIn, ctx, panel, wild, active, crossed>>
      /\ painter[p].pc = "refresh" /\ "refreshing" \in PCs \cap DrawingPCs
      /\ ~crossed => OnTrack(p)
  BY DEF Refresh, At, Drawing, DrawingPCs, PCs, MixedInv, Tracked
<1>1. CASE active
  <2>1. dc' = "low" /\ Goto(p, "refreshing") /\ UNCHANGED viewLock
    BY <1>1 DEF Refresh
  <2>2. ~crossed => OnTrack(p)'
    BY <1>0, <1>1, <2>1, GotoFields DEF OnTrack, InFrame, OnPanel, InContext
  <2> QED BY <1>0, <2>1, <2>2, GoesOnMixed
<1>2. CASE ~active
  BY <1>0, <1>2, DrawnMixed, ShownKept DEF Refresh
<1> QED BY <1>1, <1>2

LEMMA RefreshedMixed ==
    ASSUME TypeInv, MixedInv, NEW p \in Painters, Refreshed(p)
    PROVE  MixedInv'
<1>0. /\ TypeOK /\ PaintersFit /\ Drawing(p) /\ active /\ UNCHANGED <<loggedIn, ctx, dc, wild, crossed>> /\ Drawn(p)
      /\ painter[p].pc = "refreshing"
      /\ ~crossed => OnTrack(p)
  BY DEF Refreshed, At, Drawing, DrawingPCs, MixedInv, Tracked, TypeInv
<1>1. ASSUME ~crossed
      PROVE  MixedOnlyUnlocked'
  <2>1. dc = "low" /\ ~wild /\ \A r \in Rows : panel.ram[r] = FrameOf(p)
    BY <1>0, <1>1 DEF OnTrack, OnPanel, MixedInv, MixedOnlyUnlocked
  <2>2. panel'.shown = panel.ram /\ panel.ram \in [Rows -> Contents]
    BY <1>0, <2>1, PanelIs DEF Refreshed, TypeOK, PanelRecords
  <2>3. CASE p = "shutdown"
    <3>1. \A r \in Rows : panel'.shown[r] = {}
      BY <2>1, <2>2, <2>3 DEF FrameOf
    <3>2. panel'.shown = Blank
      BY <2>2, <3>1 DEF Blank
    <3> QED BY <1>0, <2>1, <3>2 DEF MixedOnlyUnlocked, Blank
  <2>4. CASE p # "shutdown"
    <3>1. painter[p].image \in Images
      BY <1>0, <2>4 DEF PaintersFit
    <3>2. \A r \in Rows : panel'.shown[r] = {painter[p].image}
      BY <2>1, <2>2, <2>4 DEF FrameOf
    <3> QED BY <1>0, <2>1, <3>1, <3>2 DEF MixedOnlyUnlocked, Shows
  <2> QED BY <2>3, <2>4
<1>2. MixedOnlyUnlocked'
  BY <1>0, <1>1 DEF MixedOnlyUnlocked
<1> QED BY <1>0, <1>2, DrawnMixed

LEMMA StepMixed == TypeInv /\ MixedInv /\ [Next]_vars => MixedInv'
<1> SUFFICES ASSUME TypeInv, MixedInv, [Next]_vars
             PROVE  MixedInv'
  OBVIOUS
<1>1. CASE Lifecycle \/ Render \/ Closing \/ (\E c \in Changes : Notice(c))
  BY <1>1, StartsMixed
<1>2. ASSUME NEW p \in Painters, TxFails(p)
      PROVE  MixedInv'
  <2>1. CASE Ended
    BY <1>2, <2>1, EndedMixed DEF TxFails
  <2>2. CASE ~Ended
    <3>1. /\ Drawing(p) /\ Drawn(p) /\ UNCHANGED <<ctx, loggedIn, crossed, wild, panel>>
      BY <1>2, <2>2 DEF TxFails, At, Drawing, DrawingPCs, driverVars
    <3> QED BY <3>1, DrawnMixed, ShownKept
  <2> QED BY <2>1, <2>2
<1>3. ASSUME NEW p \in Painters, Painting(p)
      PROVE  MixedInv'
  BY <1>2, <1>3, ContextMixed, PinMixed, PointedMixed, SentMixed, RefreshMixed, RefreshedMixed
     DEF Painting
<1>4. CASE UNCHANGED vars
  BY <1>4, AsideMixed DEF vars, driverVars
<1> QED BY <1>1, <1>3, <1>4 DEF Next

\* As long as nobody draws without viewLock beside another, the panel shows one whole
\* image or nothing, and no pixels are taken for commands: the loop and the delayed
\* renderStats of any number of notifications, a registration and a shutdown that follow
\* each other share the context, the DC pin and the memory of the chip
\* (gui_renderer.go: renderStats; render.go: ShowFrame; eink.go: DrawRaw).
THEOREM LockedFramesWhole == Spec => []MixedOnlyUnlocked
<1>1. MixedInv => MixedOnlyUnlocked
  BY DEF MixedInv
<1> QED BY <1>1, InitTyped, StepTyped, InitMixed, StepMixed, PTL DEF Spec

================================================================================
