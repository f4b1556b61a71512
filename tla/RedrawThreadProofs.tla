------------------------- MODULE RedrawThreadProofs -------------------------
(***************************************************************************)
(* Theorems about RedrawThread, for every number of layers, every set of   *)
(* viewport sizes, every size of the image cache, with a worker or none,   *)
(* and however many requests are made.                                     *)
(*                                                                         *)
(* The properties of the runs follow from one invariant, DrawingInv, which *)
(* says of every point of do_start which entries of the picture are in     *)
(* doubt (Doubtful) and what is known of the others (Kept), where the      *)
(* picture is (PlaceInv), and that the tasks of the job cover what is      *)
(* blank (TaskInv).  One lemma per action shows that the action keeps it.  *)
(***************************************************************************)
EXTENDS RedrawThread, NumberInduction

-----------------------------------------------------------------------------
(* Pictures: what matters of an entry's bitmap is where it is blank and    *)
(* whether it is clean, that is, holds nothing old.                        *)

Colours == {"blank", "good", "stale"}
Bitmaps == UNION {[Cells(vp) -> Colours] : vp \in Viewports}
Pictures ==
  {p \in [vp : Viewports, pix : [Entries -> Bitmaps]] :
     \A e \in Entries : p.pix[e] \in [Cells(p.vp) -> Colours]}

Blanks(p, e) == {c \in Cells(p.vp) : p.pix[e][c] = "blank"}
Clean(p, e) == \A c \in Cells(p.vp) : p.pix[e][c] # "stale"

LEMMA PictureMade ==
  ASSUME NEW vp \in Viewports, NEW pix,
         pix = [e \in Entries |-> pix[e]],
         \A e \in Entries : pix[e] \in [Cells(vp) -> Colours]
  PROVE  [vp |-> vp, pix |-> pix] \in Pictures
<1>1. \A e \in Entries : pix[e] \in Bitmaps
  BY DEF Bitmaps
<1>2. pix \in [Entries -> Bitmaps]
  BY <1>1
<1> QED  BY <1>2 DEF Pictures

LEMMA PictureParts ==
  ASSUME NEW p \in Pictures
  PROVE  /\ p = [vp |-> p.vp, pix |-> p.pix]
         /\ p.vp \in Viewports /\ p.pix = [e \in Entries |-> p.pix[e]]
         /\ \A e \in Entries : p.pix[e] \in [Cells(p.vp) -> Colours]
BY DEF Pictures

LEMMA GoodIsNotBlank ==
  ASSUME NEW p \in Pictures, NEW e \in Entries, Clean(p, e), Blanks(p, e) = {}
  PROVE  Good(p, e)
<1>1. p.pix[e] \in [Cells(p.vp) -> Colours]
  BY PictureParts
<1>2. \A c \in Cells(p.vp) : p.pix[e][c] \in Colours /\ p.pix[e][c] # "blank" /\ p.pix[e][c] # "stale"
  BY <1>1 DEF Clean, Blanks
<1> QED  BY <1>2 DEF Good, Colours

\* A new picture is blank.
LEMMA BlankPicture ==
  ASSUME NEW vp \in Viewports
  PROVE  /\ Blank(vp) \in Pictures /\ Blank(vp).vp = vp
         /\ \A e \in Entries : Clean(Blank(vp), e)
<1> DEFINE pix == [e \in Entries |-> [c \in Cells(vp) |-> "blank"]]
<1>1. \A e \in Entries : pix[e] \in [Cells(vp) -> Colours]
  BY DEF Colours
<1>2. Blank(vp) = [vp |-> vp, pix |-> pix]
  BY DEF Blank
<1>3. pix = [e \in Entries |-> pix[e]]
  OBVIOUS
<1>4. Blank(vp) \in Pictures
  <2> HIDE DEF pix
  <2> QED  BY <1>1, <1>2, <1>3, PictureMade
<1>5. Blank(vp).vp = vp /\ Blank(vp).pix = pix
  BY <1>2
<1>6. \A e \in Entries : Clean(Blank(vp), e)
  BY <1>5 DEF Clean
<1> QED  BY <1>4, <1>5, <1>6

\* Drawing an entry in some cells takes these from its blank ones.
LEMMA DrawnPicture ==
  ASSUME NEW p \in Pictures, NEW e \in Entries, NEW cells
  PROVE  /\ Drawn(p, e, cells) \in Pictures /\ Drawn(p, e, cells).vp = p.vp
         /\ Blanks(Drawn(p, e, cells), e) = Blanks(p, e) \ cells
         /\ \A f \in Entries \ {e} : Blanks(Drawn(p, e, cells), f) = Blanks(p, f)
         /\ \A f \in Entries : Clean(p, f) => Clean(Drawn(p, e, cells), f)
<1> DEFINE new == [c \in Cells(p.vp) |->
                     IF c \in cells /\ p.pix[e][c] = "blank" THEN "good" ELSE p.pix[e][c]]
           pix == [p.pix EXCEPT ![e] = new]
           q == Drawn(p, e, cells)
<1>0. /\ p = [vp |-> p.vp, pix |-> p.pix]
      /\ p.vp \in Viewports /\ p.pix = [f \in Entries |-> p.pix[f]]
      /\ \A f \in Entries : p.pix[f] \in [Cells(p.vp) -> Colours]
  BY PictureParts
<1>1. DOMAIN p.pix[e] = Cells(p.vp)
  BY <1>0
<1>2. q = [p EXCEPT !.pix = pix]
  BY <1>1 DEF Drawn
<1>3. q = [vp |-> p.vp, pix |-> pix]
  BY <1>0, <1>2
<1>4. new \in [Cells(p.vp) -> Colours]
  BY <1>0 DEF Colours
<1>5. \A f \in Entries : pix[f] = IF f = e THEN new ELSE p.pix[f]
  BY <1>0
<1>6. pix = [f \in Entries |-> pix[f]]
  BY <1>0
<1>7. q \in Pictures
  <2>1. \A f \in Entries : pix[f] \in [Cells(p.vp) -> Colours]
    BY <1>0, <1>4, <1>5
  <2> HIDE DEF pix, q, new
  <2> QED  BY <1>0, <1>3, <1>6, <2>1, PictureMade
<1>8. q.vp = p.vp /\ q.pix = pix
  BY <1>3
<1>9. \A c \in Cells(p.vp) :
        new[c] = IF c \in cells /\ p.pix[e][c] = "blank" THEN "good" ELSE p.pix[e][c]
  OBVIOUS
<1> HIDE DEF q, pix, new
<1>10. Blanks(q, e) = Blanks(p, e) \ cells
  BY <1>5, <1>8, <1>9 DEF Blanks
<1>11. \A f \in Entries \ {e} : Blanks(q, f) = Blanks(p, f)
  BY <1>5, <1>8 DEF Blanks
<1>12. \A f \in Entries : Clean(p, f) => Clean(q, f)
  BY <1>5, <1>8, <1>9 DEF Clean
<1> QED  BY <1>7, <1>8, <1>10, <1>11, <1>12 DEF q

\* A change of some entries leaves the others as they are.
LEMMA OutdatedPicture ==
  ASSUME NEW p \in Pictures, NEW es
  PROVE  /\ Outdated(p, es) \in Pictures /\ Outdated(p, es).vp = p.vp
         /\ \A f \in Entries \ es : /\ Blanks(Outdated(p, es), f) = Blanks(p, f)
                                    /\ Clean(p, f) => Clean(Outdated(p, es), f)
<1> DEFINE new(e) == [c \in DOMAIN p.pix[e] |-> IF p.pix[e][c] = "good" THEN "stale" ELSE p.pix[e][c]]
           pix == [e \in Entries |-> IF e \in es THEN new(e) ELSE p.pix[e]]
           q == Outdated(p, es)
<1>0. /\ p = [vp |-> p.vp, pix |-> p.pix]
      /\ p.vp \in Viewports /\ p.pix = [f \in Entries |-> p.pix[f]]
      /\ \A f \in Entries : p.pix[f] \in [Cells(p.vp) -> Colours]
  BY PictureParts
<1>1. q = [p EXCEPT !.pix = pix]
  BY DEF Outdated
<1>2. q = [vp |-> p.vp, pix |-> pix]
  BY <1>0, <1>1
<1>3. \A e \in Entries : new(e) \in [Cells(p.vp) -> Colours]
  BY <1>0 DEF Colours
<1>4. \A e \in Entries : pix[e] = IF e \in es THEN new(e) ELSE p.pix[e]
  OBVIOUS
<1>5. pix = [f \in Entries |-> pix[f]]
  OBVIOUS
<1> HIDE DEF new, pix, q
<1>6. \A f \in Entries : pix[f] \in [Cells(p.vp) -> Colours]
  BY <1>0, <1>3, <1>4
<1>7. q \in Pictures
  BY <1>0, <1>2, <1>5, <1>6, PictureMade
<1>8. q.vp = p.vp /\ q.pix = pix
  BY <1>2
<1>9. \A f \in Entries \ es : Blanks(q, f) = Blanks(p, f) /\ (Clean(p, f) => Clean(q, f))
  BY <1>4, <1>8 DEF Blanks, Clean
<1> QED  BY <1>7, <1>8, <1>9 DEF q

\* Clearing planes leaves the others as they are.
LEMMA ClearedPicture ==
  ASSUME NEW p \in Pictures, NEW es
  PROVE  /\ Cleared(p, es) \in Pictures /\ Cleared(p, es).vp = p.vp
         /\ \A f \in Entries \ es : Blanks(Cleared(p, es), f) = Blanks(p, f)
         /\ \A f \in Entries : f \in es \/ Clean(p, f) => Clean(Cleared(p, es), f)
<1> DEFINE new(e) == [c \in DOMAIN p.pix[e] |-> "blank"]
           pix == [e \in Entries |-> IF e \in es THEN new(e) ELSE p.pix[e]]
           q == Cleared(p, es)
<1>0. /\ p = [vp |-> p.vp, pix |-> p.pix]
      /\ p.vp \in Viewports /\ p.pix = [f \in Entries |-> p.pix[f]]
      /\ \A f \in Entries : p.pix[f] \in [Cells(p.vp) -> Colours]
  BY PictureParts
<1>1. q = [p EXCEPT !.pix = pix]
  BY DEF Cleared
<1>2. q = [vp |-> p.vp, pix |-> pix]
  BY <1>0, <1>1
<1>3. \A e \in Entries : new(e) \in [Cells(p.vp) -> Colours] /\ \A c \in Cells(p.vp) : new(e)[c] = "blank"
  BY <1>0 DEF Colours
<1>4. \A e \in Entries : pix[e] = IF e \in es THEN new(e) ELSE p.pix[e]
  OBVIOUS
<1>5. pix = [f \in Entries |-> pix[f]]
  OBVIOUS
<1> HIDE DEF new, pix, q
<1>6. \A f \in Entries : pix[f] \in [Cells(p.vp) -> Colours]
  BY <1>0, <1>3, <1>4
<1>7. q \in Pictures
  BY <1>0, <1>2, <1>5, <1>6, PictureMade
<1>8. q.vp = p.vp /\ q.pix = pix
  BY <1>2
<1>9. \A f \in Entries \ es : Blanks(q, f) = Blanks(p, f)
  BY <1>4, <1>8 DEF Blanks
<1>10. \A f \in Entries : f \in es \/ Clean(p, f) => Clean(q, f)
  BY <1>3, <1>4, <1>8 DEF Clean
<1> QED  BY <1>7, <1>8, <1>9, <1>10 DEF q

\* Moved by as much as the viewport has moved, a picture keeps what is in both
\* viewports where it is.
LEMMA ShiftedPicture ==
  ASSUME NEW p \in Pictures, NEW vp \in Viewports, NEW by \in Int
  PROVE  /\ Shifted(p, vp, by) \in Pictures /\ Shifted(p, vp, by).vp = vp
         /\ by = vp.at - p.vp.at => \A f \in Entries :
              /\ Blanks(Shifted(p, vp, by), f) \subseteq (Cells(vp) \ Cells(p.vp)) \cup Blanks(p, f)
              /\ Clean(p, f) => Clean(Shifted(p, vp, by), f)
<1> DEFINE src(c) == c - vp.at + p.vp.at + by
           new(f, c) == IF src(c) \notin DOMAIN f THEN "blank"
                        ELSE IF src(c) = c \/ f[src(c)] = "blank" THEN f[src(c)] ELSE "stale"
           row(e) == [c \in Cells(vp) |-> new(p.pix[e], c)]
           pix == [e \in Entries |-> row(e)]
           q == Shifted(p, vp, by)
<1>0. p.vp \in Viewports /\ \A f \in Entries : p.pix[f] \in [Cells(p.vp) -> Colours]
  BY PictureParts
<1>1. q = [vp |-> vp, pix |-> pix]
  BY DEF Shifted
<1>2. \A e \in Entries : row(e) \in [Cells(vp) -> Colours]
  <2>1. ASSUME NEW e \in Entries, NEW c \in Cells(vp) PROVE new(p.pix[e], c) \in Colours
    <3>1. DOMAIN p.pix[e] = Cells(p.vp)
      BY <1>0
    <3>2. \A d \in Cells(p.vp) : p.pix[e][d] \in Colours
      BY <1>0
    <3> HIDE DEF src
    <3> QED  BY <3>1, <3>2 DEF Colours
  <2> HIDE DEF new
  <2> QED  BY <2>1
<1>3. pix = [f \in Entries |-> pix[f]] /\ \A f \in Entries : pix[f] = row(f)
  OBVIOUS
<1>4. \A e \in Entries : \A c \in Cells(vp) : row(e)[c] = new(p.pix[e], c)
  OBVIOUS
<1> HIDE DEF new, row, pix, q
<1>5. q \in Pictures
  BY <1>1, <1>2, <1>3, PictureMade
<1>6. q.vp = vp /\ q.pix = pix
  BY <1>1
<1>7. ASSUME by = vp.at - p.vp.at, NEW f \in Entries
      PROVE  /\ Blanks(q, f) \subseteq (Cells(vp) \ Cells(p.vp)) \cup Blanks(p, f)
             /\ Clean(p, f) => Clean(q, f)
  <2>1. \A c \in Cells(vp) : c \in Int
    BY DEF Cells, Viewports
  <2>2. vp.at \in Int /\ p.vp.at \in Int
    BY <1>0 DEF Viewports
  <2>3. \A c \in Cells(vp) : src(c) = c
    BY <1>7, <2>1, <2>2
  <2>4. DOMAIN p.pix[f] = Cells(p.vp)
    BY <1>0
  <2> HIDE DEF src
  <2>5. \A c \in Cells(vp) : q.pix[f][c] = IF c \in Cells(p.vp) THEN p.pix[f][c] ELSE "blank"
    BY <1>3, <1>4, <1>6, <2>3, <2>4 DEF new
  <2> QED  BY <1>6, <2>5 DEF Blanks, Clean
<1> QED  BY <1>5, <1>6, <1>7 DEF q

-----------------------------------------------------------------------------
(* Types, with all fields, and what the helpers do to each of them         *)

AllCells == UNION {Cells(vp) : vp \in Viewports}

Canvases == [need : BOOLEAN, clearing : BOOLEAN, force : BOOLEAN, list : SUBSET Entries,
             vp : Viewports, visible : SUBSET Layers]
Threads  == [vp : Viewports, last : Int, valid : SUBSET AllCells, stored : Sizes \cup {0},
             region : SUBSET AllCells, todo : SUBSET Entries, visible : SUBSET Layers,
             initial : BOOLEAN, sentinel : BOOLEAN]
Jobs     == [queue : Seq(Entries), current : Entries \cup {None}, running : BOOLEAN]
Calls    == [clear : BOOLEAN, shift : BOOLEAN, by : Int, list : SUBSET Entries]
Images   == [open : BOOLEAN, vp : Viewports, visible : SUBSET Layers, planes : Pictures,
             missed : SUBSET Entries]

MainTypes ==
  /\ canvas \in Canvases /\ thr \in Threads /\ call \in Calls
  /\ pc \in {"idle", "updating", "started", "waiting", "woken", "hung"}
FlagTypes ==
  /\ later \in BOOLEAN /\ ended \in BOOLEAN /\ halted \in BOOLEAN /\ nested \in BOOLEAN
  /\ missed \in SUBSET Entries /\ shown \in SUBSET Layers
Types ==
  /\ MainTypes /\ FlagTypes
  /\ job \in Jobs /\ planes \in Pictures /\ cache \in Seq(Images)

LEMMA RedrawAllFields ==
  ASSUME NEW c \in Canvases, NEW force \in BOOLEAN
  PROVE  /\ RedrawAll(c, force) \in Canvases
         /\ RedrawAll(c, force).need /\ RedrawAll(c, force).clearing
         /\ RedrawAll(c, force).force <=> c.force \/ force
         /\ RedrawAll(c, force).list = IF c.need THEN c.list ELSE {}
         /\ RedrawAll(c, force).vp = c.vp /\ RedrawAll(c, force).visible = c.visible
BY DEF RedrawAll, Canvases

LEMMA RedrawSelectedFields ==
  ASSUME NEW c \in Canvases, NEW es \in SUBSET Entries
  PROVE  /\ RedrawSelected(c, es) \in Canvases
         /\ RedrawSelected(c, es).need /\ RedrawSelected(c, es).force
         /\ RedrawSelected(c, es).clearing <=> c.need /\ c.clearing
         /\ RedrawSelected(c, es).list = IF c.need THEN c.list \cup es ELSE es
         /\ RedrawSelected(c, es).vp = c.vp /\ RedrawSelected(c, es).visible = c.visible
BY DEF RedrawSelected, Canvases

LEMMA ChangeVisibilityFields ==
  ASSUME NEW c \in Canvases, NEW vs \in SUBSET Layers
  PROVE  /\ ChangeVisibility(c, vs) \in Canvases
         /\ ChangeVisibility(c, vs).need
         /\ ChangeVisibility(c, vs).force <=> c.force
         /\ ChangeVisibility(c, vs).clearing <=> c.need /\ c.clearing
         /\ ChangeVisibility(c, vs).list = {}
         /\ ChangeVisibility(c, vs).vp = c.vp /\ ChangeVisibility(c, vs).visible = vs
BY DEF ChangeVisibility, Canvases

LEMMA PrepareEndFields ==
  ASSUME NEW c \in Canvases
  PROVE  /\ PrepareEnd(c) \in Canvases
         /\ ~ PrepareEnd(c).need /\ ~ PrepareEnd(c).force
         /\ PrepareEnd(c).clearing <=> c.clearing
         /\ PrepareEnd(c).list = c.list
         /\ PrepareEnd(c).vp = c.vp /\ PrepareEnd(c).visible = c.visible
BY DEF PrepareEnd, Canvases

LEMMA ThreadFields ==
  ASSUME NEW t \in Threads
  PROVE  /\ /\ Woken(t) \in Threads
            /\ Woken(t).vp = t.vp /\ Woken(t).last = t.last /\ Woken(t).valid = t.valid
            /\ Woken(t).region = t.region /\ Woken(t).todo = t.todo
            /\ Woken(t).visible = t.visible /\ Woken(t).sentinel = t.sentinel
         /\ \A e : /\ TaskFinished(t, e) \in Threads
                   /\ TaskFinished(t, e).vp = t.vp /\ TaskFinished(t, e).last = t.last
                   /\ TaskFinished(t, e).valid = t.valid /\ TaskFinished(t, e).region = t.region
                   /\ TaskFinished(t, e).todo = t.todo \ {e}
                   /\ TaskFinished(t, e).visible = t.visible /\ TaskFinished(t, e).sentinel = t.sentinel
         /\ /\ Stopped(t) \in Threads
            /\ Stopped(t).vp = t.vp /\ Stopped(t).last = t.last
            /\ Stopped(t).valid = t.valid \cap Cells(t.vp)
            /\ Stopped(t).region = t.region /\ Stopped(t).todo = t.todo
            /\ Stopped(t).visible = t.visible /\ Stopped(t).sentinel = t.sentinel
<1>1. /\ Woken(t) \in Threads
      /\ Woken(t).vp = t.vp /\ Woken(t).last = t.last /\ Woken(t).valid = t.valid
      /\ Woken(t).region = t.region /\ Woken(t).todo = t.todo
      /\ Woken(t).visible = t.visible /\ Woken(t).sentinel = t.sentinel
  BY DEF Woken, Threads
<1>2. ASSUME NEW e
      PROVE  /\ TaskFinished(t, e) \in Threads
             /\ TaskFinished(t, e).vp = t.vp /\ TaskFinished(t, e).last = t.last
             /\ TaskFinished(t, e).valid = t.valid /\ TaskFinished(t, e).region = t.region
             /\ TaskFinished(t, e).todo = t.todo \ {e}
             /\ TaskFinished(t, e).visible = t.visible /\ TaskFinished(t, e).sentinel = t.sentinel
  BY DEF TaskFinished, Threads
<1>3. t.vp.size \in Sizes /\ t.valid \cap Cells(t.vp) \in SUBSET AllCells
  BY DEF Threads, Viewports
<1>4. /\ Stopped(t) \in Threads
      /\ Stopped(t).vp = t.vp /\ Stopped(t).last = t.last
      /\ Stopped(t).valid = t.valid \cap Cells(t.vp)
      /\ Stopped(t).region = t.region /\ Stopped(t).todo = t.todo
      /\ Stopped(t).visible = t.visible /\ Stopped(t).sentinel = t.sentinel
  BY <1>3 DEF Stopped, Woken, Threads
<1> QED  BY <1>1, <1>2, <1>4

\* start and restart up to do_start: what is not valid is to be drawn.
LEMMA PreparedFields ==
  ASSUME thr \in Threads, canvas \in Canvases
  PROVE  /\ Prepared \in Threads /\ Prepared.sentinel
         /\ Prepared.todo = thr.todo /\ Prepared.visible = thr.visible
         /\ canvas.clearing => Prepared.vp = canvas.vp /\ Prepared.last = canvas.vp.at
         /\ ~ canvas.clearing => Prepared.vp = thr.vp /\ Prepared.last = thr.last
         /\ Prepared.valid = IF canvas.clearing /\ CanShift THEN thr.valid ELSE {}
         /\ Prepared.region = Cells(Prepared.vp) \ Prepared.valid
<1>1. /\ canvas.vp \in Viewports /\ canvas.vp.at \in Int /\ thr.vp \in Viewports
      /\ Cells(canvas.vp) \in SUBSET AllCells /\ Cells(canvas.vp) \ thr.valid \in SUBSET AllCells
      /\ Cells(thr.vp) \in SUBSET AllCells
  BY DEF Threads, Canvases, Viewports, AllCells
<1>2. CASE canvas.clearing /\ CanShift
  BY <1>1, <1>2 DEF Prepared, Threads
<1>3. CASE canvas.clearing /\ ~ CanShift
  BY <1>1, <1>3 DEF Prepared, Threads
<1>4. CASE ~ canvas.clearing
  BY <1>1, <1>4 DEF Prepared, Threads
<1> QED  BY <1>2, <1>3, <1>4


\* stop: the task under way is aborted or done before.
LEMMA StopEffect ==
  ASSUME Types, NEW s \in StopOutcomes
  PROVE  /\ s.thr \in Threads /\ s.planes \in Pictures /\ s.ended \in BOOLEAN
         /\ s.thr.vp = thr.vp /\ s.thr.last = thr.last /\ s.thr.region = thr.region
         /\ s.thr.visible = thr.visible /\ s.thr.sentinel = thr.sentinel
         /\ ~ job.running => s.thr = thr /\ s.planes = planes /\ s.ended = ended
         /\ job.running => s.thr.valid = thr.valid \cap Cells(thr.vp)
         /\ \/ s.thr.todo = thr.todo /\ s.planes = planes
            \/ /\ job.running /\ job.current \in Entries
               /\ s.thr.todo = thr.todo \ {job.current}
               /\ s.planes = Drawn(planes, job.current, Extent(job.current))
<1>1. thr \in Threads /\ planes \in Pictures /\ ended \in BOOLEAN /\ job.current \in Entries \cup {None}
  BY DEF Types, MainTypes, FlagTypes, Jobs
<1>2. CASE ~ job.running
  <2>1. s = [thr |-> thr, planes |-> planes, ended |-> ended]
    BY <1>2 DEF StopOutcomes
  <2>2. s.thr = thr /\ s.planes = planes /\ s.ended = ended
    BY <2>1
  <2> QED  BY <1>1, <1>2, <2>2
<1>3. CASE job.running
  <2>1. \/ s = [thr |-> Stopped(thr), planes |-> planes, ended |-> TRUE]
        \/ \E e \in {job.current} \ {None} :
             s = [thr |-> Stopped(TaskFinished(thr, e)), planes |-> Drawn(planes, e, Extent(e)), ended |-> TRUE]
    BY <1>3 DEF StopOutcomes
  <2>2. CASE s = [thr |-> Stopped(thr), planes |-> planes, ended |-> TRUE]
    <3>1. s.thr = Stopped(thr) /\ s.planes = planes /\ s.ended = TRUE
      BY <2>2
    <3>2. /\ s.thr \in Threads /\ s.thr.vp = thr.vp /\ s.thr.last = thr.last /\ s.thr.region = thr.region
          /\ s.thr.visible = thr.visible /\ s.thr.sentinel = thr.sentinel
          /\ s.thr.valid = thr.valid \cap Cells(thr.vp) /\ s.thr.todo = thr.todo
      BY <1>1, <3>1, ThreadFields
    <3>3. s.ended \in BOOLEAN
      BY <3>1
    <3> QED  BY <1>1, <1>3, <3>1, <3>2, <3>3
  <2>3. CASE \E e \in {job.current} \ {None} :
               s = [thr |-> Stopped(TaskFinished(thr, e)), planes |-> Drawn(planes, e, Extent(e)), ended |-> TRUE]
    <3>1. job.current \in Entries
      BY <1>1, <2>3
    <3>2. /\ s.thr = Stopped(TaskFinished(thr, job.current)) /\ s.ended = TRUE
          /\ s.planes = Drawn(planes, job.current, Extent(job.current))
      BY <2>3
    <3>3. s.planes \in Pictures
      BY <1>1, <3>1, <3>2, DrawnPicture
    <3>4. TaskFinished(thr, job.current) \in Threads
      BY <1>1, ThreadFields
    <3>5. /\ s.thr \in Threads /\ s.thr.vp = thr.vp /\ s.thr.last = thr.last /\ s.thr.region = thr.region
          /\ s.thr.visible = thr.visible /\ s.thr.sentinel = thr.sentinel
          /\ s.thr.valid = thr.valid \cap Cells(thr.vp)
          /\ s.thr.todo = thr.todo \ {job.current}
      BY <1>1, <3>2, <3>4, ThreadFields
    <3> QED  BY <1>3, <3>1, <3>2, <3>3, <3>5
  <2> QED  BY <2>1, <2>2, <2>3
<1> QED  BY <1>2, <1>3

-----------------------------------------------------------------------------
(* What happens to the entries of the image cache                          *)

Closed(c) == {c[k] : k \in {j \in DOMAIN c : ~ c[j].open}}

LEMMA DiscardOpenEffect ==
  ASSUME NEW c \in Seq(Images)
  PROVE  /\ DiscardOpen(c) \in Seq(Images) /\ Len(DiscardOpen(c)) <= Len(c)
         /\ \A k \in DOMAIN DiscardOpen(c) : ~ DiscardOpen(c)[k].open /\ DiscardOpen(c)[k] \in Closed(c)
<1> DEFINE I == {k \in DOMAIN c : ~ c[k].open}
           d == DiscardOpen(c)
<1>1. d = Part(c, I)
  BY DEF DiscardOpen
<1> HIDE DEF I, d
<1>2. /\ d \in Seq(Images) /\ Len(d) <= Len(c)
      /\ \A k \in 1..Len(d) : \E i \in 1..Len(c) : i \in I /\ d[k] = c[i]
  BY <1>1, PartProperties
<1>3. DOMAIN d = 1..Len(d)
  BY <1>2
<1>4. \A i \in I : ~ c[i].open /\ c[i] \in Closed(c)
  BY DEF I, Closed
<1> QED  BY <1>2, <1>3, <1>4 DEF d

LEMMA OpenEntryFields ==
  ASSUME Types
  PROVE  /\ OpenEntry \in Images /\ OpenEntry.open
         /\ OpenEntry.vp = canvas.vp /\ OpenEntry.visible = canvas.visible
BY DEF Types, MainTypes, Canvases, OpenEntry, Images

\* A new entry is opened at the end, and no other one is for this view.
LEMMA NewCacheEffect ==
  ASSUME Types, NEW new, new = NewCache
  PROVE  /\ new \in Seq(Images) /\ Len(new) <= CacheSize
         /\ \A k \in DOMAIN new :
              \/ k = Len(new) /\ new[k] = OpenEntry
              \/ ~ new[k].open /\ ~ ServedBy(new[k]) /\ new[k] \in Closed(cache)
<1> DEFINE I == {k \in DOMAIN cache : ~ cache[k].open /\ ~ ServedBy(cache[k])}
           kept == Part(cache, I)
           first == IF Len(kept) > CacheSize - 1 THEN Len(kept) - (CacheSize - 1) + 1 ELSE 1
           young == SubSeq(kept, first, Len(kept))
<1>0. CacheSize \in Nat /\ cache \in Seq(Images) /\ OpenEntry \in Images
  BY RedrawAssumption, OpenEntryFields DEF Types
<1>1. CASE CacheSize = 0
  <2>1. new = <<>> /\ <<>> \in Seq(Images) /\ Len(<<>>) = 0
    BY <1>1, EmptySeq DEF NewCache
  <2>2. DOMAIN new = 1..0
    BY <2>1
  <2> QED  BY <1>1, <2>1, <2>2
<1>2. CASE CacheSize # 0
  <2>1. new = Append(young, OpenEntry)
    BY <1>2 DEF NewCache
  <2>2. \A i \in I : ~ cache[i].open /\ ~ ServedBy(cache[i]) /\ cache[i] \in Closed(cache)
    BY DEF Closed
  <2> HIDE DEF I
  <2>3. /\ kept \in Seq(Images)
        /\ \A k \in 1..Len(kept) : \E i \in 1..Len(cache) : i \in I /\ kept[k] = cache[i]
    BY <1>0, PartProperties
  <2> HIDE DEF kept
  <2>4. /\ Len(kept) \in Nat /\ first \in 1..(Len(kept) + 1)
        /\ Len(kept) - first + 1 <= CacheSize - 1
    BY <1>0, <1>2, <2>3
  <2> HIDE DEF first
  <2>5. \A i \in first..Len(kept) : kept[i] \in Images
    BY <2>3, <2>4
  <2>6. /\ young \in Seq(Images) /\ Len(young) = Len(kept) - first + 1
        /\ \A i \in 1..Len(young) : young[i] = kept[first + i - 1]
    <3>1. /\ young \in Seq(Images)
          /\ Len(young) = IF first <= Len(kept) THEN Len(kept) - first + 1 ELSE 0
          /\ \A i \in 1..(Len(kept) - first + 1) : young[i] = kept[first + i - 1]
      BY <2>4, <2>5, SubSeqProperties
    <3> HIDE DEF young
    <3> QED  BY <2>4, <3>1
  <2> HIDE DEF young
  <2>7. /\ new \in Seq(Images) /\ Len(new) = Len(young) + 1 /\ Len(young) \in Nat
        /\ \A i \in 1..Len(young) : new[i] = young[i]
        /\ new[Len(young) + 1] = OpenEntry
    BY <1>0, <2>1, <2>6
  <2>8. ASSUME NEW k \in 1..Len(young)
        PROVE  ~ new[k].open /\ ~ ServedBy(new[k]) /\ new[k] \in Closed(cache)
    <3>1. first + k - 1 \in 1..Len(kept)
      BY <2>4, <2>6
    <3>2. new[k] = kept[first + k - 1]
      BY <2>6, <2>7
    <3> QED  BY <2>2, <2>3, <3>1, <3>2
  <2>9. DOMAIN new = 1..(Len(young) + 1)
    BY <2>7
  <2>10. Len(new) <= CacheSize
    BY <1>0, <2>4, <2>6, <2>7
  <2> QED  BY <2>7, <2>8, <2>9, <2>10
<1> QED  BY <1>1, <1>2

\* The entry used last goes to the end.
LEMMA MovedEffect ==
  ASSUME NEW c \in Seq(Images), NEW k \in DOMAIN c
  PROVE  LET new == Append(Part(c, DOMAIN c \ {k}), c[k])
         IN  /\ new \in Seq(Images) /\ Len(new) <= Len(c)
             /\ \A j \in DOMAIN new : \E i \in DOMAIN c : new[j] = c[i]
<1> DEFINE I == DOMAIN c \ {k}
           rest == Part(c, I)
           moved == c[k]
           new == Append(rest, moved)
<1>1. DOMAIN c = 1..Len(c) /\ k \in 1..Len(c) /\ Len(c) \in Nat
  OBVIOUS
<1>2. k \notin I
  OBVIOUS
<1>3. moved \in Images
  BY <1>1
<1>4. new = Append(rest, moved)
  OBVIOUS
<1> HIDE DEF I
<1>5. /\ rest \in Seq(Images)
      /\ \A i \in 1..Len(c) : i \notin I => Len(rest) < Len(c)
      /\ \A j \in 1..Len(rest) : \E i \in 1..Len(c) : i \in I /\ rest[j] = c[i]
  BY PartProperties
<1>6. Len(rest) < Len(c)
  BY <1>1, <1>2, <1>5
<1> HIDE DEF rest, moved, new
<1>7. /\ new \in Seq(Images) /\ Len(new) = Len(rest) + 1 /\ Len(rest) \in Nat
      /\ \A i \in 1..Len(rest) : new[i] = rest[i]
      /\ new[Len(rest) + 1] = moved
  BY <1>3, <1>4, <1>5
<1>8. DOMAIN new = 1..(Len(rest) + 1)
  BY <1>7
<1>9. ASSUME NEW j \in DOMAIN new PROVE \E i \in DOMAIN c : new[j] = c[i]
  <2>1. CASE j = Len(rest) + 1
    BY <1>7, <2>1 DEF moved
  <2>2. CASE j # Len(rest) + 1
    <3>1. j \in 1..Len(rest)
      BY <1>7, <1>8, <2>2
    <3> QED  BY <1>1, <1>5, <1>7, <3>1
  <2> QED  BY <2>1, <2>2
<1>10. Len(new) <= Len(c)
  BY <1>1, <1>6, <1>7
<1> QED  BY <1>7, <1>9, <1>10 DEF new, rest, moved, I

\* do_end_of_drawing closes the open entry with the picture there is.
ClosedEntry(i) == [i EXCEPT !.open = FALSE, !.planes = planes, !.missed = missed]

LEMMA ClosedEntryFields ==
  ASSUME Types, NEW i \in Images
  PROVE  /\ ClosedEntry(i) \in Images /\ ~ ClosedEntry(i).open
         /\ ClosedEntry(i).vp = i.vp /\ ClosedEntry(i).visible = i.visible
         /\ ClosedEntry(i).planes = planes /\ ClosedEntry(i).missed = missed
BY DEF Types, FlagTypes, Images, ClosedEntry

LEMMA EndEffect ==
  ASSUME Types, EndOfDrawing, \A k \in DOMAIN cache : cache[k].open => k = Len(cache)
  PROVE  /\ cache' \in Seq(Images) /\ Len(cache') <= Len(cache)
         /\ \A k \in DOMAIN cache' :
              \/ cache'[k] \in Closed(cache)
              \/ \E i \in DOMAIN cache : /\ cache[i].open /\ ServedBy(cache[i])
                                         /\ cache'[k] = ClosedEntry(cache[i])
         /\ \A k \in DOMAIN cache' : ~ cache'[k].open
<1> DEFINE I == {k \in DOMAIN cache : cache[k].open => ServedBy(cache[k])}
           kept == Part(cache, I)
<1>0. cache \in Seq(Images) /\ DOMAIN cache = 1..Len(cache)
  BY DEF Types
<1>1. cache' = IF \E k \in DOMAIN kept : kept[k].open
               THEN [kept EXCEPT ![Len(kept)] = ClosedEntry(kept[Len(kept)])]
               ELSE kept
  BY DEF EndOfDrawing, ClosedEntry
<1>2. \A i \in I : cache[i].open => ServedBy(cache[i])
  OBVIOUS
<1> HIDE DEF I
<1>3. /\ kept \in Seq(Images) /\ Len(kept) <= Len(cache)
      /\ \A k \in 1..Len(kept) : \E i \in 1..Len(cache) :
           i \in I /\ kept[k] = cache[i] /\ (i = Len(cache) => k = Len(kept))
  BY <1>0, PartProperties
<1> HIDE DEF kept
<1>4. DOMAIN kept = 1..Len(kept) /\ Len(kept) \in Nat
  BY <1>3
<1>5. \A k \in DOMAIN kept : ~ kept[k].open => kept[k] \in Closed(cache)
  BY <1>0, <1>3, <1>4 DEF Closed
<1>6. \A k \in DOMAIN kept : kept[k].open =>
        k = Len(kept) /\ \E i \in DOMAIN cache : cache[i].open /\ ServedBy(cache[i]) /\ kept[k] = cache[i]
  BY <1>0, <1>2, <1>3, <1>4
<1>7. CASE \E k \in DOMAIN kept : kept[k].open
  <2>1. Len(kept) \in DOMAIN kept /\ kept[Len(kept)].open
    BY <1>6, <1>7
  <2>2. PICK i \in DOMAIN cache : cache[i].open /\ ServedBy(cache[i]) /\ kept[Len(kept)] = cache[i]
    BY <1>6, <2>1
  <2>3. cache[i] \in Images
    BY <1>0
  <2>4. ClosedEntry(cache[i]) \in Images /\ ~ ClosedEntry(cache[i]).open
    BY <2>3, ClosedEntryFields
  <2>5. cache' = [kept EXCEPT ![Len(kept)] = ClosedEntry(cache[i])]
    BY <1>1, <1>7, <2>2
  <2> DEFINE closed == ClosedEntry(cache[i])
  <2>6. /\ cache' \in Seq(Images) /\ Len(cache') = Len(kept)
        /\ \A k \in 1..Len(kept) : cache'[k] = IF k = Len(kept) THEN closed ELSE kept[k]
    <3>1. closed \in Images /\ Len(kept) \in 1..Len(kept) /\ cache' = [kept EXCEPT ![Len(kept)] = closed]
      BY <1>4, <2>1, <2>4, <2>5
    <3> HIDE DEF closed
    <3> QED  BY <1>3, <3>1
  <2>7. DOMAIN cache' = DOMAIN kept
    <3>1. DOMAIN cache' = 1..Len(cache')
      BY <2>6
    <3> QED  BY <1>4, <2>6, <3>1
  <2> QED  BY <1>3, <1>4, <1>5, <1>6, <2>2, <2>4, <2>6, <2>7
<1>8. CASE ~ \E k \in DOMAIN kept : kept[k].open
  <2>1. cache' = kept
    BY <1>1, <1>8
  <2> QED  BY <1>3, <1>5, <1>8, <2>1
<1> QED  BY <1>7, <1>8

-----------------------------------------------------------------------------
(* The control part of the inductive invariant                             *)

Agreement == thr.visible = canvas.visible /\ thr.last = thr.vp.at

(* The main thread is in do_start.                                         *)
Starting == pc \notin {"idle", "hung"}

(* Nothing is drawn while a request is pending, do_start is before the job *)
(* or was left by an exception.                                            *)
PhaseInv ==
  /\ pc # "idle" => thr.sentinel
  /\ Starting => ~ halted
  /\ pc = "updating" \/ Stuck => ~ ended /\ ~ job.running
  /\ pc = "idle" /\ canvas.need => ~ job.running
  /\ job.running => ~ halted
  /\ ~ job.running => job = NoJob

(* Requests for some layers are forced, and so is a resize in do_start,    *)
(* which asks for everything.                                              *)
RequestInv ==
  /\ canvas.need /\ ~ canvas.force => canvas.list = {}
  /\ Starting /\ nested => canvas.need /\ canvas.clearing /\ canvas.force
  /\ pc = "idle" /\ ~ Stuck => ~ nested

(* The list that restart was called with may become empty on the way.      *)
CallInv ==
  /\ call.clear => call.list = {}
  /\ call.shift => call.clear
  /\ pc = "updating" /\ ~ call.clear => canvas.list \in {call.list, {}}

(* What is not valid is to be drawn; only a shift leaves something valid.  *)
UpdatingInv ==
  pc = "updating" =>
    /\ shown = {}
    /\ thr.region = Cells(thr.vp) \ thr.valid
    /\ ~ call.shift => thr.valid = {}

(* What is drawn is the view of the canvas, unless a change of it waits to *)
(* be painted or was forgotten.                                            *)
ViewInv ==
  /\ pc = "idle" /\ ~ Stuck /\ ~ (canvas.need /\ canvas.clearing) =>
       missed = Entries \/ thr.vp = canvas.vp
  /\ Starting => nested \/ missed = Entries \/ thr.vp = canvas.vp
  /\ pc = "updating" => missed = Entries \/ thr.vp.at = canvas.vp.at

(* An open entry of the cache is the last one and for the present view,    *)
(* which no other entry serves.                                            *)
OpenInv ==
  /\ Len(cache) <= CacheSize
  /\ \A k \in DOMAIN cache : cache[k].open =>
       /\ k = Len(cache) /\ cache[k].vp = canvas.vp /\ cache[k].visible = canvas.visible
       /\ \A i \in Closed(cache) : ~ ServedBy(i)

(* When the end of a drawing is announced and an entry is open, the        *)
(* drawing has come to its end.                                            *)
FinishedInv ==
  ended /\ ~ later /\ (\E k \in DOMAIN cache : cache[k].open) =>
    ~ job.running /\ ~ halted /\ (pc = "idle" => ~ canvas.need)

ControlInv ==
  /\ Agreement /\ PhaseInv /\ RequestInv /\ CallInv /\ UpdatingInv /\ ViewInv
  /\ OpenInv /\ FinishedInv

-----------------------------------------------------------------------------
(* The pictures part of it                                                 *)

Shown == thr.visible \cup {Custom}
Tasked == {job.queue[k] : k \in DOMAIN job.queue} \cup ({job.current} \ {None})

(* The entries of which nothing can be said: the ones a request has been   *)
(* overtaken or is pending for; none after an exception in do_start.       *)
Doubtful ==
  IF later \/ Stuck THEN Entries
  ELSE IF pc = "idle" THEN missed \cup Asked
  ELSE IF pc = "updating" THEN IF Resizes THEN Entries ELSE missed \cup call.list
  ELSE missed

(* What a picture p is to the members t of RedrawThread: it has nothing    *)
(* old, what is marked and what is valid is drawn.                         *)
Kept(t, p, doubtful, unseen) ==
  /\ \A e \in Entries \ doubtful : Clean(p, e)
  /\ \A e \in Entries \ (doubtful \cup t.todo) : Blanks(p, e) = {}
  /\ \A e \in (t.visible \cup {Custom}) \ (doubtful \cup unseen) : Blanks(p, e) \cap t.valid = {}

(* Where the picture is: before the planes are moved in do_start they are  *)
(* by as much behind as do_start is told.                                  *)
InPlace(t, p) == p.vp = t.vp /\ t.valid \subseteq Cells(t.vp)
PlaceInv ==
  Doubtful # Entries =>
    /\ pc # "updating" => planes.vp = thr.vp
    /\ pc # "updating" /\ ~ job.running => InPlace(thr, planes)
    /\ pc = "updating" =>
         IF call.shift THEN call.by = thr.vp.at - planes.vp.at /\ thr.valid \subseteq Cells(planes.vp)
         ELSE thr.vp.at = planes.vp.at

(* The tasks of the job are what is not marked, and draw all that is blank.*)
TaskInv ==
  job.running =>
    /\ thr.todo \cap Shown \subseteq Tasked
    /\ \A e \in Tasked \ Doubtful : Blanks(planes, e) \subseteq Extent(e)

(* A job that came to its end has drawn everything.                        *)
RestInv ==
  ~ job.running /\ ~ halted /\ pc # "updating" /\ (pc = "idle" => ~ canvas.need) =>
    \A e \in Shown \ Doubtful : Blanks(planes, e) = {}

(* A closed entry of the cache is a complete picture.                      *)
Complete(i) ==
  \A e \in Entries \ i.missed :
    /\ i.planes.vp = i.vp /\ Clean(i.planes, e)
    /\ e \in i.visible \cup {Custom} => Blanks(i.planes, e) = {}
ImageInv == ~ later => \A i \in Closed(cache) : Complete(i)

PictureInv ==
  Kept(thr, planes, Doubtful, shown) /\ PlaceInv /\ TaskInv /\ RestInv /\ ImageInv

DrawingInv == Types /\ ControlInv /\ PictureInv

-----------------------------------------------------------------------------
(* Requests: the drawing is stopped, and something is asked for            *)

LEMMA DoubtfulType ==
  ASSUME Types
  PROVE  Asked \in SUBSET Entries /\ Doubtful \in SUBSET Entries /\ Shown \in SUBSET Entries
<1>1. /\ canvas.list \in SUBSET Entries /\ call.list \in SUBSET Entries
      /\ missed \in SUBSET Entries /\ thr.visible \in SUBSET Entries /\ Custom \in Entries
  BY DEF Types, MainTypes, FlagTypes, Canvases, Calls, Threads, Entries
<1>2. Asked \in SUBSET Entries
  BY <1>1 DEF Asked
<1>3. Doubtful \in SUBSET Entries
  BY <1>1, <1>2 DEF Doubtful
<1> QED  BY <1>1, <1>2, <1>3 DEF Shown

LEMMA DoubtfulTypeNext ==
  ASSUME Types'
  PROVE  (Asked \in SUBSET Entries /\ Doubtful \in SUBSET Entries /\ Shown \in SUBSET Entries)'
<1>1. /\ canvas'.list \in SUBSET Entries /\ call'.list \in SUBSET Entries
      /\ missed' \in SUBSET Entries /\ thr'.visible \in SUBSET Entries /\ Custom \in Entries
  BY DEF Types, MainTypes, FlagTypes, Canvases, Calls, Threads, Entries
<1>2. Asked' \in SUBSET Entries
  BY <1>1 DEF Asked
<1>3. Doubtful' \in SUBSET Entries
  BY <1>1, <1>2 DEF Doubtful
<1> QED  BY <1>1, <1>2, <1>3 DEF Shown

\* What holds of some entries and layers holds of fewer.
LEMMA KeptWeaker ==
  ASSUME NEW t, NEW p, NEW d1, NEW u1, Kept(t, p, d1, u1),
         NEW d2, d1 \subseteq d2, NEW u2, u1 \subseteq u2 \cup d2
  PROVE  Kept(t, p, d2, u2)
BY DEF Kept

\* What a stop leaves, whether the task under way is done or aborted.
LEMMA StopKeeps ==
  ASSUME DrawingInv, pc = "idle", NEW s \in StopOutcomes
  PROVE  /\ Kept(s.thr, s.planes, Doubtful, shown)
         /\ Doubtful # Entries => InPlace(s.thr, s.planes)
<1>0. Types /\ PhaseInv /\ Kept(thr, planes, Doubtful, shown) /\ PlaceInv /\ TaskInv
  BY DEF DrawingInv, ControlInv, PictureInv
<1>1. CASE ~ job.running
  <2>1. s.thr = thr /\ s.planes = planes
    BY <1>0, <1>1, StopEffect
  <2> QED  BY <1>0, <1>1, <2>1 DEF PlaceInv
<1>2. CASE job.running
  <2>1. /\ s.thr.vp = thr.vp /\ s.thr.visible = thr.visible
        /\ s.thr.valid = thr.valid \cap Cells(thr.vp)
    BY <1>0, <1>2, StopEffect
  <2>2. thr \in Threads /\ planes \in Pictures
    BY <1>0 DEF Types, MainTypes
  <2>3. Doubtful # Entries => planes.vp = thr.vp
    BY <1>0 DEF PlaceInv
  <2>4. CASE s.thr.todo = thr.todo /\ s.planes = planes
    <3>1. Kept(s.thr, s.planes, Doubtful, shown)
      BY <1>0, <2>1, <2>4 DEF Kept
    <3> QED  BY <2>1, <2>3, <2>4, <3>1 DEF InPlace
  <2>5. CASE /\ job.current \in Entries /\ s.thr.todo = thr.todo \ {job.current}
             /\ s.planes = Drawn(planes, job.current, Extent(job.current))
    <3> DEFINE e == job.current
    <3>1. /\ s.planes.vp = planes.vp
          /\ Blanks(s.planes, e) = Blanks(planes, e) \ Extent(e)
          /\ \A f \in Entries \ {e} : Blanks(s.planes, f) = Blanks(planes, f)
          /\ \A f \in Entries : Clean(planes, f) => Clean(s.planes, f)
      BY <2>2, <2>5, DrawnPicture
    <3>2. e \in Tasked
      BY <2>5 DEF Tasked, None, Entries, Layers, Custom
    <3>3. e \notin Doubtful => Blanks(s.planes, e) = {}
      BY <1>0, <1>2, <3>1, <3>2 DEF TaskInv
    <3>4. \A f \in Entries : Blanks(s.planes, f) \subseteq Blanks(planes, f)
      BY <3>1
    <3> HIDE DEF e
    <3>5. s.thr.visible \cup {Custom} \subseteq Entries /\ s.thr.todo = thr.todo \ {e}
      BY <2>1, <2>2, <2>5 DEF Threads, Entries, e
    <3>6. Kept(s.thr, s.planes, Doubtful, shown)
      <4>1. \A f \in Entries \ Doubtful : Clean(s.planes, f)
        BY <1>0, <3>1 DEF Kept
      <4>2. \A f \in Entries \ (Doubtful \cup s.thr.todo) : Blanks(s.planes, f) = {}
        BY <1>0, <3>1, <3>3, <3>5 DEF Kept
      <4>3. \A f \in (s.thr.visible \cup {Custom}) \ (Doubtful \cup shown) : Blanks(s.planes, f) \cap s.thr.valid = {}
        <5>1. \A f \in (s.thr.visible \cup {Custom}) \ (Doubtful \cup shown) : Blanks(planes, f) \cap thr.valid = {}
          BY <1>0, <2>1 DEF Kept
        <5> QED  BY <2>1, <3>4, <3>5, <5>1
      <4> QED  BY <4>1, <4>2, <4>3 DEF Kept
    <3> QED  BY <2>1, <2>3, <3>1, <3>6 DEF InPlace
  <2> QED  BY <1>0, <2>4, <2>5, StopEffect
<1> QED  BY <1>1, <1>2

\* Requests and the deferred redraw: the drawing is over, and the picture is to
\* be changed.
LEMMA Requested ==
  ASSUME DrawingInv, pc = "idle", pc' = "idle", job' = NoJob, UNCHANGED <<call, nested>>,
         NEW s \in StopOutcomes, ended' = s.ended,
         thr'.vp = thr.vp, thr'.last = thr.last, thr'.sentinel = thr.sentinel,
         canvas' \in Canvases, thr'.visible = canvas'.visible,
         canvas'.need /\ ~ canvas'.force => canvas'.list = {},
         canvas'.need \/ halted' \/ later',
         (Doubtful # Entries => InPlace(thr, planes))'
  PROVE  (Agreement /\ PhaseInv /\ RequestInv /\ CallInv /\ UpdatingInv /\ PlaceInv /\ TaskInv /\ RestInv)'
<1>0. Types /\ Agreement /\ PhaseInv /\ RequestInv /\ CallInv
  BY DEF DrawingInv, ControlInv
<1>1. Agreement'
  BY <1>0 DEF Agreement
<1>2. ~ job'.running
  BY DEF NoJob
<1>3. Stuck' <=> Stuck
  BY DEF Stuck
<1>4. ended' => ended \/ job.running
  BY <1>0, StopEffect
<1>5. PhaseInv'
  BY <1>0, <1>2, <1>3, <1>4 DEF PhaseInv, Starting
<1>6. RequestInv'
  BY <1>0, <1>3 DEF RequestInv, Starting
<1>7. CallInv' /\ UpdatingInv'
  BY <1>0 DEF CallInv, UpdatingInv
<1>8. TaskInv'
  BY <1>2 DEF TaskInv
<1>9. PlaceInv'
  BY DEF PlaceInv, InPlace
<1>10. RestInv'
  <2>1. CASE later'
    <3>1. Doubtful' = Entries
      BY <2>1 DEF Doubtful
    <3>2. Shown' \subseteq Entries
      BY DEF Shown, Canvases, Entries
    <3> QED  BY <3>1, <3>2 DEF RestInv
  <2> QED  BY <2>1 DEF RestInv
<1> QED  BY <1>1, <1>5, <1>6, <1>7, <1>8, <1>9, <1>10

LEMMA NoJobType == NoJob \in Jobs /\ ~ NoJob.running
<1>1. <<>> \in Seq(Entries)
  BY EmptySeq
<1> QED  BY <1>1 DEF NoJob, Jobs

LEMMA NoImages ==
  ASSUME cache' = <<>>
  PROVE  cache' \in Seq(Images) /\ (OpenInv /\ FinishedInv /\ ImageInv)'
<1>1. cache' \in Seq(Images) /\ Len(cache') = 0 /\ DOMAIN cache' = {}
  BY EmptySeq
<1>2. Closed(cache') = {}
  BY <1>1 DEF Closed
<1> QED  BY <1>1, <1>2, RedrawAssumption DEF OpenInv, FinishedInv, ImageInv

LEMMA OpenDiscarded ==
  ASSUME DrawingInv, cache' = DiscardOpen(cache), later' = later
  PROVE  cache' \in Seq(Images) /\ (OpenInv /\ FinishedInv /\ ImageInv)'
<1>0. cache \in Seq(Images) /\ OpenInv /\ ImageInv /\ Len(cache) \in Nat
  BY DEF DrawingInv, Types, ControlInv, PictureInv
<1>1. /\ cache' \in Seq(Images) /\ Len(cache') <= Len(cache) /\ Len(cache') \in Nat
      /\ \A k \in DOMAIN cache' : ~ cache'[k].open /\ cache'[k] \in Closed(cache)
  BY <1>0, DiscardOpenEffect
<1>2. Closed(cache') \subseteq Closed(cache)
  BY <1>1 DEF Closed
<1>3. OpenInv'
  BY <1>0, <1>1, RedrawAssumption DEF OpenInv
<1>4. FinishedInv' /\ ImageInv'
  BY <1>0, <1>1, <1>2 DEF FinishedInv, ImageInv, Complete
<1> QED  BY <1>1, <1>3, <1>4

LEMMA RequestKeeps ==
  ASSUME DrawingInv, Types', pc = "idle", pc' = "idle", job' = NoJob, UNCHANGED <<call, nested>>,
         NEW s \in StopOutcomes, ended' = s.ended,
         thr' = [s.thr EXCEPT !.visible = canvas'.visible],
         NEW es \in SUBSET Doubtful', planes' = s.planes \/ planes' = Outdated(s.planes, es),
         canvas'.need /\ ~ canvas'.force => canvas'.list = {},
         canvas'.need \/ halted' \/ later',
         Doubtful \subseteq Doubtful', shown \cup (canvas'.visible \ canvas.visible) \subseteq shown'
  PROVE  /\ (Agreement /\ PhaseInv /\ RequestInv /\ CallInv /\ UpdatingInv)'
         /\ Kept(thr, planes, Doubtful, shown)' /\ (PlaceInv /\ TaskInv /\ RestInv)'
<1>0. Types /\ Agreement
  BY DEF DrawingInv, ControlInv
<1>1. /\ s.thr \in Threads /\ s.planes \in Pictures
      /\ s.thr.vp = thr.vp /\ s.thr.last = thr.last
      /\ s.thr.visible = thr.visible /\ s.thr.sentinel = thr.sentinel
  BY <1>0, StopEffect
<1>2. canvas' \in Canvases /\ canvas'.visible \in SUBSET Layers
  BY DEF Types, MainTypes, Canvases
<1>3. /\ thr'.vp = s.thr.vp /\ thr'.last = s.thr.last /\ thr'.sentinel = s.thr.sentinel
      /\ thr'.valid = s.thr.valid /\ thr'.todo = s.thr.todo
      /\ thr'.visible = canvas'.visible
  BY <1>1, <1>2 DEF Threads
<1>4. /\ planes'.vp = s.planes.vp
      /\ \A f \in Entries \ Doubtful' : Blanks(planes', f) = Blanks(s.planes, f)
      /\ \A f \in Entries \ Doubtful' : Clean(s.planes, f) => Clean(planes', f)
  BY <1>1, OutdatedPicture
<1>5. Kept(s.thr, s.planes, Doubtful, shown) /\ (Doubtful # Entries => InPlace(s.thr, s.planes))
  BY StopKeeps
<1>6. Doubtful' \in SUBSET Entries
  BY DoubtfulTypeNext
<1>7. thr'.visible \cup {Custom} \subseteq Entries
  BY <1>2, <1>3 DEF Entries
<1>8. Kept(thr, planes, Doubtful, shown)'
  <2>1. \A e \in Entries \ Doubtful' : Clean(planes', e)
    BY <1>4, <1>5 DEF Kept
  <2>2. \A e \in Entries \ (Doubtful' \cup thr'.todo) : Blanks(planes', e) = {}
    BY <1>3, <1>4, <1>5 DEF Kept
  <2>3. \A e \in (thr'.visible \cup {Custom}) \ (Doubtful' \cup shown') : Blanks(planes', e) \cap thr'.valid = {}
    <3>1. ASSUME NEW e \in (thr'.visible \cup {Custom}) \ (Doubtful' \cup shown')
          PROVE  Blanks(planes', e) \cap thr'.valid = {}
      <4>1. e \in (s.thr.visible \cup {Custom}) \ (Doubtful \cup shown)
        BY <1>0, <1>1, <1>3, <3>1 DEF Agreement
      <4>2. Blanks(s.planes, e) \cap s.thr.valid = {}
        BY <1>5, <4>1 DEF Kept
      <4>3. e \in Entries \ Doubtful'
        BY <1>7, <3>1
      <4> QED  BY <1>3, <1>4, <4>2, <4>3
    <3> QED  BY <3>1
  <2> QED  BY <2>1, <2>2, <2>3 DEF Kept, Clean, Blanks
<1>9. (Doubtful # Entries => InPlace(thr, planes))'
  BY <1>3, <1>4, <1>5, <1>6 DEF InPlace
<1>10. (Agreement /\ PhaseInv /\ RequestInv /\ CallInv /\ UpdatingInv /\ PlaceInv /\ TaskInv /\ RestInv)'
  BY <1>1, <1>2, <1>3, <1>9, Requested
<1> QED  BY <1>8, <1>10

LEMMA EditStep ==
  ASSUME DrawingInv, NEW e \in Entries, Edit(e)
  PROVE  DrawingInv'
<1>0. /\ Types /\ ViewInv /\ RequestInv /\ Agreement
      /\ pc = "idle" /\ pc' = "idle" /\ job' = NoJob /\ cache' = <<>>
      /\ canvas' = RedrawSelected(canvas, {e})
      /\ UNCHANGED <<call, nested, later, missed, shown, halted>>
  BY DEF Edit, Request, DrawingInv, ControlInv
<1>1. PICK s \in StopOutcomes : thr' = s.thr /\ planes' = Outdated(s.planes, {e}) /\ ended' = s.ended
  BY DEF Edit
<1>2. /\ s.thr \in Threads /\ s.planes \in Pictures /\ s.ended \in BOOLEAN
      /\ s.thr.vp = thr.vp /\ s.thr.visible = thr.visible /\ s.thr.sentinel = thr.sentinel
  BY <1>0, StopEffect
<1>3. /\ canvas' \in Canvases /\ canvas'.need /\ canvas'.force
      /\ canvas'.clearing <=> canvas.need /\ canvas.clearing
      /\ canvas'.list = IF canvas.need THEN canvas.list \cup {e} ELSE {e}
      /\ canvas'.vp = canvas.vp /\ canvas'.visible = canvas.visible
  <2>1. {e} \in SUBSET Entries /\ canvas \in Canvases
    BY <1>0 DEF Types, MainTypes
  <2> QED  BY <1>0, <2>1, RedrawSelectedFields
<1>4. Types'
  <2>1. planes' \in Pictures
    BY <1>1, <1>2, OutdatedPicture
  <2> QED  BY <1>0, <1>1, <1>2, <1>3, <2>1, NoJobType, NoImages DEF Types, MainTypes, FlagTypes
<1>5. Asked \cup {e} \subseteq Asked'
  <2>1. CASE canvas.need /\ canvas.clearing
    <3>1. Asked' = Entries
      BY <1>3, <2>1 DEF Asked
    <3> QED  BY <1>0, <3>1, DoubtfulType
  <2>2. CASE ~ (canvas.need /\ canvas.clearing)
    <3>1. Asked' = canvas'.list
      BY <1>3, <2>2 DEF Asked
    <3>2. Asked = IF canvas.need THEN canvas.list ELSE {}
      BY <2>2 DEF Asked
    <3> QED  BY <1>3, <3>1, <3>2
  <2> QED  BY <2>1, <2>2
<1>6. Stuck' <=> Stuck
  BY <1>0, <1>1, <1>2 DEF Stuck
<1>7. Doubtful \cup {e} \subseteq Doubtful'
  BY <1>0, <1>5, <1>6, DoubtfulType DEF Doubtful
<1>8. /\ (Agreement /\ PhaseInv /\ RequestInv /\ CallInv /\ UpdatingInv)'
      /\ Kept(thr, planes, Doubtful, shown)' /\ (PlaceInv /\ TaskInv /\ RestInv)'
  <2>1. thr' = [s.thr EXCEPT !.visible = canvas'.visible]
    BY <1>0, <1>1, <1>2, <1>3, ZenonT(30) DEF Agreement, Threads
  <2>2. {e} \in SUBSET Doubtful'
    BY <1>7
  <2> QED  BY <1>0, <1>1, <1>3, <1>4, <1>7, <2>1, <2>2, RequestKeeps
<1>9. ViewInv'
  BY <1>0, <1>1, <1>2, <1>3, <1>6 DEF ViewInv, Starting
<1> QED  BY <1>0, <1>4, <1>8, <1>9, NoImages DEF DrawingInv, ControlInv, PictureInv

LEMMA ShowStep ==
  ASSUME DrawingInv, NEW vs \in SUBSET Layers, Show(vs)
  PROVE  DrawingInv'
<1>0. /\ Types /\ ViewInv /\ RequestInv /\ Agreement
      /\ pc = "idle" /\ pc' = "idle" /\ job' = NoJob /\ cache' = DiscardOpen(cache)
      /\ canvas' = ChangeVisibility(canvas, vs)
      /\ missed' = IF canvas.need /\ ~ canvas.clearing THEN missed \cup canvas.list ELSE missed
      /\ shown' = shown \cup (vs \ canvas.visible)
      /\ UNCHANGED <<call, nested, later, halted>>
  BY DEF Show, Request, DrawingInv, ControlInv
<1>1. PICK s \in StopOutcomes :
        thr' = [s.thr EXCEPT !.visible = vs] /\ planes' = s.planes /\ ended' = s.ended
  BY DEF Show
<1>2. /\ s.thr \in Threads /\ s.planes \in Pictures /\ s.ended \in BOOLEAN
      /\ s.thr.vp = thr.vp /\ s.thr.sentinel = thr.sentinel
  BY <1>0, StopEffect
<1>3. /\ canvas' \in Canvases /\ canvas'.need
      /\ canvas'.force <=> canvas.force
      /\ canvas'.clearing <=> canvas.need /\ canvas.clearing
      /\ canvas'.list = {} /\ canvas'.vp = canvas.vp /\ canvas'.visible = vs
  <2>1. canvas \in Canvases
    BY <1>0 DEF Types, MainTypes
  <2> QED  BY <1>0, <2>1, ChangeVisibilityFields
<1>4. thr' \in Threads /\ thr'.vp = thr.vp /\ thr'.sentinel = thr.sentinel
  BY <1>1, <1>2 DEF Threads
<1>5. missed' \in SUBSET Entries /\ shown' \in SUBSET Layers
  BY <1>0 DEF Types, MainTypes, FlagTypes, Canvases
<1>6. cache' \in Seq(Images) /\ (OpenInv /\ FinishedInv /\ ImageInv)'
  BY <1>0, OpenDiscarded
<1>7. Types'
  BY <1>0, <1>1, <1>2, <1>3, <1>4, <1>5, <1>6, NoJobType DEF Types, MainTypes, FlagTypes
<1>8. missed \cup Asked \subseteq missed' \cup Asked'
  <2>1. CASE canvas.need /\ canvas.clearing /\ canvas.force
    <3>1. Asked' = Entries /\ missed' = missed
      BY <1>0, <1>3, <2>1 DEF Asked
    <3> QED  BY <1>0, <3>1, DoubtfulType
  <2>2. CASE ~ (canvas.need /\ canvas.clearing /\ canvas.force)
    <3>1. Asked = IF canvas.need THEN canvas.list ELSE {}
      BY <2>2 DEF Asked
    <3>2. canvas.need /\ canvas.clearing => canvas.list = {}
      BY <1>0, <2>2 DEF RequestInv, Starting
    <3> QED  BY <1>0, <3>1, <3>2
  <2> QED  BY <2>1, <2>2
<1>9. Stuck' <=> Stuck
  BY <1>0, <1>4 DEF Stuck
<1>10. Doubtful \subseteq Doubtful'
  BY <1>0, <1>8, <1>9, DoubtfulType DEF Doubtful
<1>11. /\ (Agreement /\ PhaseInv /\ RequestInv /\ CallInv /\ UpdatingInv)'
       /\ Kept(thr, planes, Doubtful, shown)' /\ (PlaceInv /\ TaskInv /\ RestInv)'
  <2>1. {} \in SUBSET Doubtful'
    OBVIOUS
  <2> QED  BY <1>0, <1>1, <1>3, <1>7, <1>10, <2>1, RequestKeeps
<1>12. ViewInv'
  <2>1. missed = Entries => missed' = Entries
    BY <1>0, <1>5
  <2> QED  BY <1>0, <1>3, <1>4, <1>9, <2>1 DEF ViewInv, Starting
<1> QED  BY <1>6, <1>7, <1>11, <1>12 DEF DrawingInv, ControlInv, PictureInv

\* A redraw of everything, forced or not: it takes over what was asked for.
LEMMA RedrawnAll ==
  ASSUME DrawingInv, pc = "idle", pc' = "idle", UNCHANGED <<missed, later>>,
         canvas'.need, canvas'.clearing, canvas.need /\ canvas.force => canvas'.force,
         thr'.sentinel = thr.sentinel
  PROVE  Doubtful \subseteq Doubtful' /\ ViewInv'
<1>0. Types /\ RequestInv
  BY DEF DrawingInv, ControlInv
<1>1. Asked \subseteq Asked'
  <2>1. CASE canvas.need /\ canvas.force
    <3>1. Asked' = Entries
      BY <2>1 DEF Asked
    <3> QED  BY <1>0, <3>1, DoubtfulType
  <2>2. CASE ~ (canvas.need /\ canvas.force)
    <3>1. Asked = {}
      BY <1>0, <2>2 DEF Asked, RequestInv, Starting
    <3> QED  BY <3>1
  <2> QED  BY <2>1, <2>2
<1>2. Stuck' <=> Stuck
  BY DEF Stuck
<1>3. Doubtful \subseteq Doubtful'
  BY <1>0, <1>1, <1>2, DoubtfulType DEF Doubtful
<1> QED  BY <1>3 DEF ViewInv, Starting

LEMMA PanStep ==
  ASSUME DrawingInv, NEW at \in 0 .. LastPos, Pan(at)
  PROVE  DrawingInv'
<1>0. /\ Types /\ RequestInv /\ Agreement
      /\ pc = "idle" /\ pc' = "idle" /\ job' = NoJob /\ cache' = DiscardOpen(cache)
      /\ canvas' = [RedrawAll(canvas, FALSE) EXCEPT !.vp.at = at]
      /\ UNCHANGED <<call, nested, later, missed, shown, halted>>
  BY DEF Pan, Request, DrawingInv, ControlInv
<1>1. PICK s \in StopOutcomes : thr' = s.thr /\ planes' = s.planes /\ ended' = s.ended
  BY DEF Pan
<1>2. /\ s.thr \in Threads /\ s.planes \in Pictures /\ s.ended \in BOOLEAN
      /\ s.thr.visible = thr.visible /\ s.thr.sentinel = thr.sentinel
  BY <1>0, StopEffect
<1>3. /\ canvas' \in Canvases /\ canvas'.need /\ canvas'.clearing
      /\ canvas'.force <=> canvas.force
      /\ canvas'.list = IF canvas.need THEN canvas.list ELSE {}
      /\ canvas'.visible = canvas.visible
  <2> DEFINE c == RedrawAll(canvas, FALSE)
  <2>1. /\ c \in Canvases /\ c.need /\ c.clearing /\ (c.force <=> canvas.force)
        /\ c.list = (IF canvas.need THEN canvas.list ELSE {}) /\ c.visible = canvas.visible
    BY <1>0, RedrawAllFields DEF Types, MainTypes
  <2>2. canvas' = [c EXCEPT !.vp = [c.vp EXCEPT !.at = at]]
    BY <1>0, <2>1 DEF Canvases
  <2>3. [c.vp EXCEPT !.at = at] \in Viewports
    BY <2>1 DEF Canvases, Viewports
  <2> HIDE DEF c
  <2> QED  BY <2>1, <2>2, <2>3 DEF Canvases
<1>4. cache' \in Seq(Images) /\ (OpenInv /\ FinishedInv /\ ImageInv)'
  BY <1>0, OpenDiscarded
<1>5. Types'
  BY <1>0, <1>1, <1>2, <1>3, <1>4, NoJobType DEF Types, MainTypes, FlagTypes
<1>6. Doubtful \subseteq Doubtful' /\ ViewInv'
  BY <1>0, <1>1, <1>2, <1>3, RedrawnAll
<1>7. /\ (Agreement /\ PhaseInv /\ RequestInv /\ CallInv /\ UpdatingInv)'
      /\ Kept(thr, planes, Doubtful, shown)' /\ (PlaceInv /\ TaskInv /\ RestInv)'
  <2>1. thr' = [s.thr EXCEPT !.visible = canvas'.visible] /\ {} \in SUBSET Doubtful'
    BY <1>0, <1>1, <1>2, <1>3, ZenonT(30) DEF Agreement, Threads
  <2>2. canvas'.need /\ ~ canvas'.force => canvas'.list = {}
    BY <1>0, <1>3 DEF RequestInv, Starting
  <2> QED  BY <1>0, <1>1, <1>3, <1>5, <1>6, <2>1, <2>2, RequestKeeps
<1> QED  BY <1>4, <1>5, <1>6, <1>7 DEF DrawingInv, ControlInv, PictureInv

LEMMA ResizeStep ==
  ASSUME DrawingInv, NEW size \in Sizes, Resize(size)
  PROVE  DrawingInv'
<1>0. /\ Types /\ Agreement
      /\ pc = "idle" /\ pc' = "idle" /\ job' = NoJob /\ cache' = <<>>
      /\ canvas' = [RedrawAll(canvas, TRUE) EXCEPT !.vp.size = size]
      /\ UNCHANGED <<call, nested, later, missed, shown, halted>>
  BY DEF Resize, Request, DrawingInv, ControlInv
<1>1. PICK s \in StopOutcomes : thr' = s.thr /\ planes' = s.planes /\ ended' = s.ended
  BY DEF Resize
<1>2. /\ s.thr \in Threads /\ s.planes \in Pictures /\ s.ended \in BOOLEAN
      /\ s.thr.visible = thr.visible /\ s.thr.sentinel = thr.sentinel
  BY <1>0, StopEffect
<1>3. /\ canvas' \in Canvases /\ canvas'.need /\ canvas'.clearing /\ canvas'.force
      /\ canvas'.visible = canvas.visible
  <2> DEFINE c == RedrawAll(canvas, TRUE)
  <2>1. c \in Canvases /\ c.need /\ c.clearing /\ c.force /\ c.visible = canvas.visible
    BY <1>0, RedrawAllFields DEF Types, MainTypes
  <2>2. canvas' = [c EXCEPT !.vp = [c.vp EXCEPT !.size = size]]
    BY <1>0, <2>1 DEF Canvases
  <2>3. [c.vp EXCEPT !.size = size] \in Viewports
    BY <2>1 DEF Canvases, Viewports
  <2> HIDE DEF c
  <2> QED  BY <2>1, <2>2, <2>3 DEF Canvases
<1>4. cache' \in Seq(Images) /\ (OpenInv /\ FinishedInv /\ ImageInv)'
  BY <1>0, NoImages
<1>5. Types'
  BY <1>0, <1>1, <1>2, <1>3, <1>4, NoJobType DEF Types, MainTypes, FlagTypes
<1>6. Doubtful \subseteq Doubtful' /\ ViewInv'
  BY <1>0, <1>1, <1>2, <1>3, RedrawnAll
<1>7. /\ (Agreement /\ PhaseInv /\ RequestInv /\ CallInv /\ UpdatingInv)'
      /\ Kept(thr, planes, Doubtful, shown)' /\ (PlaceInv /\ TaskInv /\ RestInv)'
  <2>1. thr' = [s.thr EXCEPT !.visible = canvas'.visible] /\ {} \in SUBSET Doubtful'
    BY <1>0, <1>1, <1>2, <1>3 DEF Agreement, Threads
  <2> QED  BY <1>0, <1>1, <1>3, <1>5, <1>6, <2>1, RequestKeeps
<1> QED  BY <1>4, <1>5, <1>6, <1>7 DEF DrawingInv, ControlInv, PictureInv

\* A change of the layout leaves the cache entries, with outdated pictures.
LEMMA OutdatedCache ==
  ASSUME Types,
         cache' = [i \in DOMAIN cache |-> [cache[i] EXCEPT !.planes = Outdated(@, Entries)]]
  PROVE  /\ cache' \in Seq(Images) /\ Len(cache') = Len(cache) /\ DOMAIN cache' = DOMAIN cache
         /\ \A k \in DOMAIN cache : /\ cache'[k].open = cache[k].open
                                    /\ cache'[k].vp = cache[k].vp /\ cache'[k].visible = cache[k].visible
<1> DEFINE old(i) == [i EXCEPT !.planes = Outdated(i.planes, Entries)]
<1>1. cache \in Seq(Images) /\ DOMAIN cache = 1..Len(cache) /\ Len(cache) \in Nat
  BY DEF Types
<1>2. ASSUME NEW i \in Images
      PROVE  old(i) \in Images /\ old(i).open = i.open /\ old(i).vp = i.vp /\ old(i).visible = i.visible
  <2>1. Outdated(i.planes, Entries) \in Pictures
    BY OutdatedPicture DEF Images
  <2> QED  BY <2>1 DEF Images
<1>3. cache' = [k \in DOMAIN cache |-> old(cache[k])]
  OBVIOUS
<1> HIDE DEF old
<1>4. \A k \in 1..Len(cache) : cache[k] \in Images
  BY <1>1
<1>5. cache' \in [1..Len(cache) -> Images]
  BY <1>1, <1>2, <1>3, <1>4
<1>6. cache' \in Seq(Images) /\ Len(cache') = Len(cache)
  BY <1>1, <1>5
<1> QED  BY <1>1, <1>2, <1>3, <1>4, <1>6

LEMMA ChangeLayoutStep ==
  ASSUME DrawingInv, ChangeLayout
  PROVE  DrawingInv'
<1>0. /\ Types /\ RequestInv /\ Agreement /\ OpenInv /\ ViewInv
      /\ pc = "idle" /\ pc' = "idle" /\ job' = NoJob /\ later' = TRUE
      /\ cache' = [i \in DOMAIN cache |-> [cache[i] EXCEPT !.planes = Outdated(@, Entries)]]
      /\ UNCHANGED <<call, nested, canvas, missed, shown, halted>>
  BY DEF ChangeLayout, Request, DrawingInv, ControlInv
<1>1. PICK s \in StopOutcomes : thr' = s.thr /\ planes' = Outdated(s.planes, Entries) /\ ended' = s.ended
  BY DEF ChangeLayout
<1>2. /\ s.thr \in Threads /\ s.planes \in Pictures /\ s.ended \in BOOLEAN
      /\ s.thr.vp = thr.vp /\ s.thr.visible = thr.visible /\ s.thr.sentinel = thr.sentinel
  BY <1>0, StopEffect
<1>3. /\ cache' \in Seq(Images) /\ Len(cache') = Len(cache) /\ DOMAIN cache' = DOMAIN cache
      /\ \A k \in DOMAIN cache : /\ cache'[k].open = cache[k].open
                                 /\ cache'[k].vp = cache[k].vp /\ cache'[k].visible = cache[k].visible
  BY <1>0, OutdatedCache
<1>4. Types'
  <2>1. planes' \in Pictures
    BY <1>1, <1>2, OutdatedPicture
  <2> QED  BY <1>0, <1>1, <1>2, <1>3, <2>1, NoJobType DEF Types, MainTypes, FlagTypes
<1>5. OpenInv'
  <2>1. \A i \in Closed(cache') : \E j \in Closed(cache) : i.vp = j.vp /\ i.visible = j.visible
    BY <1>3 DEF Closed
  <2>2. ASSUME NEW k \in DOMAIN cache', cache'[k].open
        PROVE  /\ k = Len(cache') /\ cache'[k].vp = canvas'.vp /\ cache'[k].visible = canvas'.visible
               /\ \A i \in Closed(cache') : ~ (i.vp = canvas'.vp /\ canvas'.visible \subseteq i.visible)
    <3>1. k \in DOMAIN cache /\ cache[k].open
      BY <1>3, <2>2
    <3>2. /\ k = Len(cache) /\ cache[k].vp = canvas.vp /\ cache[k].visible = canvas.visible
          /\ \A i \in Closed(cache) : ~ (i.vp = canvas.vp /\ canvas.visible \subseteq i.visible)
      BY <1>0, <3>1 DEF OpenInv, ServedBy
    <3> QED  BY <1>0, <1>3, <2>1, <3>1, <3>2, SMTT(30)
  <2>3. Len(cache') <= CacheSize
    BY <1>0, <1>3 DEF OpenInv
  <2> QED  BY <2>2, <2>3 DEF OpenInv, ServedBy
<1>6. (FinishedInv /\ ImageInv)'
  BY <1>0 DEF FinishedInv, ImageInv
<1>7. Doubtful' = Entries
  BY <1>0 DEF Doubtful
<1>8. /\ (Agreement /\ PhaseInv /\ RequestInv /\ CallInv /\ UpdatingInv)'
      /\ Kept(thr, planes, Doubtful, shown)' /\ (PlaceInv /\ TaskInv /\ RestInv)'
  <2>1. thr' = [s.thr EXCEPT !.visible = canvas'.visible]
    BY <1>0, <1>1, <1>2 DEF Agreement, Threads
  <2>2. Entries \in SUBSET Doubtful' /\ Doubtful \subseteq Doubtful'
    BY <1>0, <1>7, DoubtfulType
  <2>3. canvas'.need /\ ~ canvas'.force => canvas'.list = {}
    BY <1>0 DEF RequestInv, Starting
  <2> QED  BY <1>0, <1>1, <1>4, <2>1, <2>2, <2>3, RequestKeeps
<1>9. ViewInv'
  BY <1>0, <1>1, <1>2 DEF ViewInv, Stuck, Starting
<1> QED  BY <1>4, <1>5, <1>6, <1>8, <1>9 DEF DrawingInv, ControlInv, PictureInv

LEMMA StopRedrawStep ==
  ASSUME DrawingInv, StopRedraw
  PROVE  DrawingInv'
<1> DEFINE D == DiscardOpen(cache)
           doubted(i) == [i EXCEPT !.missed = IF later THEN Entries ELSE i.missed]
<1>0. /\ Types /\ RequestInv /\ Agreement /\ OpenInv /\ ViewInv /\ ImageInv
      /\ pc = "idle" /\ pc' = "idle" /\ job' = NoJob /\ later' = FALSE /\ halted' = TRUE
      /\ cache' = [i \in DOMAIN D |-> doubted(D[i])]
      /\ missed' = IF later THEN Entries ELSE missed
      /\ UNCHANGED <<call, nested, canvas, shown>>
  BY DEF StopRedraw, Request, DrawingInv, ControlInv, PictureInv
<1>1. PICK s \in StopOutcomes : thr' = s.thr /\ planes' = s.planes /\ ended' = s.ended
  BY DEF StopRedraw
<1>2. /\ s.thr \in Threads /\ s.planes \in Pictures /\ s.ended \in BOOLEAN
      /\ s.thr.vp = thr.vp /\ s.thr.visible = thr.visible /\ s.thr.sentinel = thr.sentinel
  BY <1>0, StopEffect
<1>3. /\ D \in Seq(Images) /\ Len(D) <= Len(cache)
      /\ \A k \in DOMAIN D : ~ D[k].open /\ D[k] \in Closed(cache)
  BY <1>0, DiscardOpenEffect DEF Types
<1>4. ASSUME NEW i \in Images
      PROVE  /\ doubted(i) \in Images /\ doubted(i).open = i.open /\ doubted(i).vp = i.vp
             /\ doubted(i).visible = i.visible /\ doubted(i).planes = i.planes
             /\ doubted(i).missed = IF later THEN Entries ELSE i.missed
  BY DEF Images
<1> HIDE DEF D, doubted
<1>5. DOMAIN D = 1..Len(D) /\ Len(D) \in Nat /\ \A k \in 1..Len(D) : D[k] \in Images
  BY <1>3
<1>6. cache' \in Seq(Images) /\ Len(cache') = Len(D) /\ DOMAIN cache' = DOMAIN D
  <2>1. cache' \in [1..Len(D) -> Images]
    BY <1>0, <1>4, <1>5
  <2> QED  BY <1>5, <2>1
<1>7. \A k \in DOMAIN cache' : /\ ~ cache'[k].open
                               /\ cache'[k].missed = IF later THEN Entries ELSE D[k].missed
                               /\ cache'[k].vp = D[k].vp /\ cache'[k].visible = D[k].visible
                               /\ cache'[k].planes = D[k].planes
  BY <1>0, <1>3, <1>4, <1>5, <1>6
<1>8. (OpenInv /\ FinishedInv)'
  <2>1. Len(cache) <= CacheSize /\ Len(cache) \in Nat /\ CacheSize \in Nat
    BY <1>0, RedrawAssumption DEF OpenInv, Types
  <2>2. Len(cache') <= CacheSize
    BY <1>3, <1>5, <1>6, <2>1
  <2> QED  BY <1>7, <2>2 DEF OpenInv, FinishedInv
<1>9. ImageInv'
  <2>1. ASSUME NEW k \in DOMAIN cache' PROVE Complete(cache'[k])
    <3>1. CASE later
      BY <1>7, <3>1 DEF Complete
    <3>2. CASE ~ later
      <4>1. Complete(D[k])
        BY <1>0, <1>3, <1>6, <3>2 DEF ImageInv
      <4> QED  BY <1>7, <3>2, <4>1 DEF Complete
    <3> QED  BY <3>1, <3>2
  <2> QED  BY <2>1 DEF ImageInv, Closed, Complete
<1>10. missed' \in SUBSET Entries
  BY <1>0 DEF Types, FlagTypes
<1>11. Types'
  BY <1>0, <1>1, <1>2, <1>6, <1>10, NoJobType DEF Types, MainTypes, FlagTypes
<1>12. Doubtful \subseteq Doubtful'
  <2>1. CASE later
    <3>1. Doubtful' = Entries \cup Asked' \/ Doubtful' = Entries
      BY <1>0, <2>1 DEF Doubtful
    <3> QED  BY <1>0, <3>1, DoubtfulType
  <2>2. CASE ~ later
    <3>1. Stuck' <=> Stuck
      BY <1>0, <1>1, <1>2 DEF Stuck
    <3>2. Asked' = Asked
      BY <1>0 DEF Asked
    <3> QED  BY <1>0, <2>2, <3>1, <3>2 DEF Doubtful
  <2> QED  BY <2>1, <2>2
<1>13. /\ (Agreement /\ PhaseInv /\ RequestInv /\ CallInv /\ UpdatingInv)'
       /\ Kept(thr, planes, Doubtful, shown)' /\ (PlaceInv /\ TaskInv /\ RestInv)'
  <2>1. thr' = [s.thr EXCEPT !.visible = canvas'.visible]
    BY <1>0, <1>1, <1>2 DEF Agreement, Threads
  <2>2. {} \in SUBSET Doubtful'
    OBVIOUS
  <2>3. canvas'.need /\ ~ canvas'.force => canvas'.list = {}
    BY <1>0 DEF RequestInv, Starting
  <2> QED  BY <1>0, <1>1, <1>11, <1>12, <2>1, <2>2, <2>3, RequestKeeps
<1>14. ViewInv'
  BY <1>0, <1>1, <1>2 DEF ViewInv, Stuck, Starting
<1> QED  BY <1>8, <1>9, <1>11, <1>13, <1>14 DEF DrawingInv, ControlInv, PictureInv

LEMMA RedrawLaterStep ==
  ASSUME DrawingInv, RedrawLater
  PROVE  DrawingInv'
<1>0. /\ Types /\ Agreement /\ RequestInv
      /\ pc = "idle" /\ pc' = "idle" /\ job' = NoJob /\ cache' = <<>> /\ later' = FALSE
      /\ canvas' = RedrawAll(canvas, TRUE)
      /\ UNCHANGED <<call, nested, missed, shown, halted>>
  BY DEF RedrawLater, DrawingInv, ControlInv
<1>1. PICK s \in StopOutcomes : thr' = s.thr /\ planes' = s.planes /\ ended' = s.ended
  BY DEF RedrawLater
<1>2. /\ s.thr \in Threads /\ s.planes \in Pictures /\ s.ended \in BOOLEAN
      /\ s.thr.visible = thr.visible /\ s.thr.sentinel = thr.sentinel
  BY <1>0, StopEffect
<1>3. /\ canvas' \in Canvases /\ canvas'.need /\ canvas'.clearing /\ canvas'.force
      /\ canvas'.visible = canvas.visible
  BY <1>0, RedrawAllFields DEF Types, MainTypes
<1>4. cache' \in Seq(Images) /\ (OpenInv /\ FinishedInv /\ ImageInv)'
  BY <1>0, NoImages
<1>5. Types'
  BY <1>0, <1>1, <1>2, <1>3, <1>4, NoJobType DEF Types, MainTypes, FlagTypes
<1>6. Doubtful \subseteq Doubtful'
  <2>1. Asked' = Entries
    BY <1>3 DEF Asked
  <2>2. Doubtful \subseteq Entries
    BY <1>0, DoubtfulType
  <2> QED  BY <1>0, <2>1, <2>2 DEF Doubtful
<1>7. /\ (Agreement /\ PhaseInv /\ RequestInv /\ CallInv /\ UpdatingInv)'
      /\ Kept(thr, planes, Doubtful, shown)' /\ (PlaceInv /\ TaskInv /\ RestInv)'
  <2>1. thr' = [s.thr EXCEPT !.visible = canvas'.visible] /\ {} \in SUBSET Doubtful'
    BY <1>0, <1>1, <1>2, <1>3, ZenonT(30) DEF Agreement, Threads
  <2> QED  BY <1>0, <1>1, <1>3, <1>5, <1>6, <2>1, RequestKeeps
<1>8. ViewInv'
  BY <1>0, <1>3 DEF ViewInv, Starting
<1> QED  BY <1>4, <1>5, <1>7, <1>8 DEF DrawingInv, ControlInv, PictureInv

-----------------------------------------------------------------------------
(* Paints and the end of a drawing                                         *)

\* What is said of pictures does not depend on anything else.
LEMMA SamePicture ==
  ASSUME PictureInv, UNCHANGED <<canvas, thr, planes, job, pc, call, later, missed, shown, halted>>
  PROVE  Kept(thr, planes, Doubtful, shown)' /\ (PlaceInv /\ TaskInv /\ RestInv)' /\ Doubtful' = Doubtful
<1>1. Doubtful' = Doubtful
  BY DEF Doubtful, Stuck, Asked, Resizes
<1>2. Kept(thr, planes, Doubtful, shown)'
  BY <1>1 DEF PictureInv, Kept, Clean, Blanks
<1>3. PlaceInv'
  BY <1>1 DEF PictureInv, PlaceInv, InPlace, Cells
<1>4. Shown' = Shown /\ Tasked' = Tasked
  BY DEF Shown, Tasked
<1>5. TaskInv'
  BY <1>1, <1>4 DEF PictureInv, TaskInv, Blanks, Extent
<1>6. RestInv'
  BY <1>1, <1>4 DEF PictureInv, RestInv, Blanks
<1> QED  BY <1>1, <1>2, <1>3, <1>5, <1>6

LEMMA EndOfDrawingStep ==
  ASSUME DrawingInv, EndOfDrawing
  PROVE  DrawingInv'
<1>0. /\ Types /\ ControlInv /\ PictureInv /\ pc = "idle" /\ ended /\ ended' = FALSE
      /\ UNCHANGED <<canvas, thr, planes, job, pc, call, later, asked, missed, shown, halted, nested>>
  BY DEF EndOfDrawing, DrawingInv
<1>1. /\ cache' \in Seq(Images) /\ Len(cache') <= Len(cache)
      /\ \A k \in DOMAIN cache' :
           \/ cache'[k] \in Closed(cache)
           \/ \E i \in DOMAIN cache : /\ cache[i].open /\ ServedBy(cache[i])
                                      /\ cache'[k] = ClosedEntry(cache[i])
      /\ \A k \in DOMAIN cache' : ~ cache'[k].open
  BY <1>0, EndEffect DEF ControlInv, OpenInv
<1>2. Types'
  BY <1>0, <1>1 DEF Types, MainTypes, FlagTypes
<1>3. (Agreement /\ PhaseInv /\ RequestInv /\ CallInv /\ UpdatingInv /\ ViewInv /\ FinishedInv)'
  BY <1>0 DEF ControlInv, Agreement, PhaseInv, RequestInv, CallInv, UpdatingInv, ViewInv, FinishedInv, Stuck, Cells, Starting
<1>4. OpenInv'
  <2>1. Len(cache) \in Nat /\ CacheSize \in Nat /\ Len(cache') \in Nat
    BY <1>0, <1>1, RedrawAssumption DEF Types
  <2> QED  BY <1>0, <1>1, <2>1 DEF ControlInv, OpenInv
<1>5. ImageInv'
  <2> SUFFICES ASSUME ~ later, NEW k \in DOMAIN cache' PROVE Complete(cache'[k])
    BY <1>0 DEF ImageInv, Closed, Complete
  <2>1. CASE cache'[k] \in Closed(cache)
    BY <1>0, <2>1 DEF PictureInv, ImageInv
  <2>2. ASSUME NEW i \in DOMAIN cache, cache[i].open, cache'[k] = ClosedEntry(cache[i])
        PROVE  Complete(cache'[k])
    <3>1. cache[i] \in Images
      BY <1>0 DEF Types
    <3>2. /\ cache'[k].vp = canvas.vp /\ cache'[k].visible = canvas.visible
          /\ cache'[k].planes = planes /\ cache'[k].missed = missed
      BY <1>0, <2>2, <3>1, ClosedEntryFields DEF ControlInv, OpenInv
    <3>3. ~ job.running /\ ~ halted /\ ~ canvas.need
      BY <1>0, <2>2 DEF ControlInv, FinishedInv
    <3>4. ~ Stuck
      BY <1>0 DEF ControlInv, PhaseInv, Starting
    <3>5. Doubtful = missed
      BY <1>0, <3>3, <3>4 DEF Doubtful, Asked
    <3>6. \A e \in Entries \ missed : Clean(planes, e)
      BY <1>0, <3>5 DEF PictureInv, Kept
    <3>7. \A e \in Shown \ missed : Blanks(planes, e) = {}
      BY <1>0, <3>3, <3>5 DEF PictureInv, RestInv
    <3>8. Shown = canvas.visible \cup {Custom}
      BY <1>0 DEF Shown, ControlInv, Agreement
    <3>9. missed # Entries => planes.vp = canvas.vp
      BY <1>0, <3>3, <3>4, <3>5 DEF PictureInv, PlaceInv, ControlInv, ViewInv, Starting
    <3>10. \A e \in Entries \ missed : missed # Entries
      OBVIOUS
    <3> QED  BY <3>2, <3>6, <3>7, <3>8, <3>9, <3>10 DEF Complete
  <2> QED  BY <1>1, <2>1, <2>2
<1>6. (Kept(thr, planes, Doubtful, shown))' /\ (PlaceInv /\ TaskInv /\ RestInv)'
  BY <1>0, SamePicture
<1> QED  BY <1>2, <1>3, <1>4, <1>5, <1>6 DEF DrawingInv, ControlInv, PictureInv

\* The first entry that can be restored.
LEMMA FirstHit ==
  ASSUME Types, Hit,
         NEW k, k = CHOOSE j \in DOMAIN cache :
                      Restorable(cache[j]) /\ \A h \in 1 .. j - 1 : ~ Restorable(cache[h])
  PROVE  k \in DOMAIN cache /\ Restorable(cache[k])
<1> DEFINE T == {j \in DOMAIN cache : Restorable(cache[j])}
<1>1. DOMAIN cache = 1..Len(cache) /\ Len(cache) \in Nat
  BY DEF Types
<1>2. T \in SUBSET Nat /\ T # {}
  BY <1>1 DEF Hit
<1>3. PICK n \in T : \A j \in T : n <= j
  BY <1>2, LeastNumber
<1>4. \A h \in 1 .. n - 1 : h \in DOMAIN cache /\ h \notin T
  BY <1>1, <1>3
<1>5. n \in DOMAIN cache /\ Restorable(cache[n]) /\ \A h \in 1 .. n - 1 : ~ Restorable(cache[h])
  BY <1>3, <1>4
<1> HIDE DEF T
<1> QED  BY <1>5

LEMMA PaintFromCacheStep ==
  ASSUME DrawingInv, PaintFromCache
  PROVE  DrawingInv'
<1>0. /\ Types /\ ControlInv /\ PictureInv /\ pc = "idle" /\ canvas.need /\ Hit
      /\ ended' = FALSE /\ shown' = {} /\ halted' = FALSE /\ canvas' = PrepareEnd(canvas)
      /\ thr' = [thr EXCEPT !.vp = canvas.vp, !.last = canvas.vp.at, !.valid = Cells(canvas.vp),
                            !.stored = canvas.vp.size, !.visible = canvas.visible,
                            !.todo = Entries \ canvas.visible]
      /\ pc' = ToImage /\ UNCHANGED <<job, call, later, asked, nested>>
  BY DEF PaintFromCache, DrawingInv
<1> DEFINE k == CHOOSE j \in DOMAIN cache :
                  Restorable(cache[j]) /\ \A h \in 1 .. j - 1 : ~ Restorable(cache[h])
           i == cache[k]
<1>1. k \in DOMAIN cache /\ Restorable(i)
  BY <1>0, FirstHit
<1>2. cache' = Append(Part(cache, DOMAIN cache \ {k}), i) /\ planes' = i.planes /\ missed' = i.missed
  BY DEF PaintFromCache
<1> HIDE DEF k
<1>3. cache \in Seq(Images) /\ Len(cache) \in Nat /\ i \in Images
  BY <1>0, <1>1 DEF Types
<1>4. /\ cache' \in Seq(Images) /\ Len(cache') <= Len(cache)
      /\ \A j \in DOMAIN cache' : \E h \in DOMAIN cache : cache'[j] = cache[h]
  BY <1>1, <1>2, <1>3, MovedEffect
<1>5. /\ ~ i.open /\ i.vp = canvas.vp /\ canvas.visible \subseteq i.visible /\ ServedBy(i)
      /\ i \in Closed(cache)
  BY <1>1 DEF Restorable, ServedBy, Closed
<1> HIDE DEF i
<1>6. canvas \in Canvases /\ thr \in Threads
  BY <1>0 DEF Types, MainTypes
<1>7. /\ canvas' \in Canvases /\ ~ canvas'.need
      /\ canvas'.vp = canvas.vp /\ canvas'.visible = canvas.visible
  BY <1>0, <1>6, PrepareEndFields
<1>8. /\ thr' \in Threads /\ thr'.vp = canvas.vp /\ thr'.last = canvas.vp.at
      /\ thr'.valid = Cells(canvas.vp) /\ thr'.visible = canvas.visible
      /\ thr'.todo = Entries \ canvas.visible /\ thr'.sentinel = thr.sentinel
  <2>1. /\ canvas.vp \in Viewports /\ canvas.vp.at \in Int /\ canvas.vp.size \in Sizes
        /\ Cells(canvas.vp) \in SUBSET AllCells /\ canvas.visible \in SUBSET Layers
    BY <1>6 DEF Canvases, Viewports, AllCells
  <2> QED  BY <1>0, <1>6, <2>1 DEF Threads
<1>9. planes' \in Pictures /\ missed' \in SUBSET Entries
  BY <1>2, <1>3 DEF Images
<1>a. pc' \in {"idle", "hung"} /\ (pc' = "hung" <=> thr.sentinel) /\ (Stuck' <=> Stuck)
  BY <1>0, <1>8 DEF ToImage, Stuck
<1>10. Types'
  BY <1>0, <1>4, <1>7, <1>8, <1>9, <1>a DEF Types, MainTypes, FlagTypes
<1>11. ~ job.running
  BY <1>0 DEF ControlInv, PhaseInv, Starting
<1>12. (Agreement /\ PhaseInv /\ RequestInv /\ CallInv /\ UpdatingInv /\ ViewInv /\ FinishedInv)'
  BY <1>0, <1>7, <1>8, <1>11, <1>a
     DEF ControlInv, Agreement, PhaseInv, RequestInv, CallInv, UpdatingInv, ViewInv, FinishedInv, Stuck, Starting
<1>13. \A j \in DOMAIN cache : ~ cache[j].open
  BY <1>0, <1>5 DEF ControlInv, OpenInv
<1>14. \A j \in DOMAIN cache' : ~ cache'[j].open /\ cache'[j] \in Closed(cache)
  BY <1>4, <1>13 DEF Closed
<1>15. OpenInv'
  <2>1. Len(cache) <= CacheSize /\ CacheSize \in Nat /\ Len(cache') \in Nat
    BY <1>0, <1>4, RedrawAssumption DEF ControlInv, OpenInv
  <2> QED  BY <1>3, <1>4, <1>14, <2>1 DEF OpenInv
<1>16. ImageInv'
  BY <1>0, <1>14 DEF PictureInv, ImageInv, Closed, Complete
<1>17. ~ later => Complete(i)
  BY <1>0, <1>5 DEF PictureInv, ImageInv
<1>18. Doubtful' = IF later \/ Stuck THEN Entries ELSE i.missed
  <2>1. Asked' = {} /\ (Stuck' <=> Stuck)
    BY <1>7, <1>a DEF Asked
  <2> QED  BY <1>0, <1>2, <1>a, <2>1 DEF Doubtful, Stuck
<1>19. \A e \in Entries \ Doubtful' : Clean(planes', e) /\ planes'.vp = canvas.vp
  BY <1>2, <1>5, <1>17, <1>18 DEF Complete
<1>20. \A e \in (i.visible \cup {Custom}) \ Doubtful' : Blanks(planes', e) = {}
  <2>1. i.visible \cup {Custom} \subseteq Entries
    BY <1>3 DEF Images, Entries
  <2> QED  BY <1>2, <1>17, <1>18, <2>1 DEF Complete
<1>21. Kept(thr, planes, Doubtful, shown)'
  <2>1. \A e \in Entries \ Doubtful' : Clean(planes', e)
    BY <1>19
  <2>2. \A e \in Entries \ (Doubtful' \cup thr'.todo) : Blanks(planes', e) = {}
    BY <1>5, <1>8, <1>20
  <2>3. \A e \in (thr'.visible \cup {Custom}) \ (Doubtful' \cup shown') : Blanks(planes', e) \cap thr'.valid = {}
    BY <1>5, <1>8, <1>20
  <2> QED  BY <2>1, <2>2, <2>3 DEF Kept, Clean, Blanks
<1>22. (PlaceInv /\ TaskInv /\ RestInv)'
  <2>1. Doubtful' # Entries => planes'.vp = canvas.vp
    <3>1. Doubtful' \subseteq Entries
      BY <1>10, DoubtfulTypeNext
    <3> QED  BY <1>19, <3>1
  <2>2. PlaceInv'
    BY <1>0, <1>8, <1>a, <2>1 DEF PlaceInv, InPlace
  <2>3. TaskInv'
    BY <1>0, <1>11 DEF TaskInv
  <2>4. RestInv'
    BY <1>5, <1>8, <1>20 DEF RestInv, Shown, Blanks
  <2> QED  BY <2>2, <2>3, <2>4
<1> QED  BY <1>10, <1>12, <1>15, <1>16, <1>21, <1>22 DEF DrawingInv, ControlInv, PictureInv

\* A start opens a cache entry and takes back the end-of-drawing call.
LEMMA EntryOpened ==
  ASSUME DrawingInv, cache' = NewCache, ended' = FALSE, later' = later,
         canvas'.vp = canvas.vp, canvas'.visible = canvas.visible
  PROVE  cache' \in Seq(Images) /\ (OpenInv /\ FinishedInv /\ ImageInv)'
<1>0. Types /\ ImageInv
  BY DEF DrawingInv, PictureInv
<1>1. /\ cache' \in Seq(Images) /\ Len(cache') <= CacheSize
      /\ \A k \in DOMAIN cache' :
           \/ k = Len(cache') /\ cache'[k] = OpenEntry
           \/ ~ cache'[k].open /\ ~ ServedBy(cache'[k]) /\ cache'[k] \in Closed(cache)
  BY <1>0, NewCacheEffect
<1>2. OpenEntry.open /\ OpenEntry.vp = canvas.vp /\ OpenEntry.visible = canvas.visible
  BY <1>0, OpenEntryFields
<1>3. \A i \in Closed(cache') : ~ ServedBy(i) /\ i \in Closed(cache)
  BY <1>1, <1>2 DEF Closed
<1>4. OpenInv'
  BY <1>1, <1>2, <1>3 DEF OpenInv, ServedBy
<1>5. FinishedInv' /\ ImageInv'
  BY <1>0, <1>3 DEF FinishedInv, ImageInv, Complete
<1> QED  BY <1>1, <1>4, <1>5

LEMMA PaintStep ==
  ASSUME DrawingInv, Paint
  PROVE  DrawingInv'
<1>0. /\ Types /\ ControlInv /\ PictureInv /\ pc = "idle" /\ canvas.need /\ ~ thr.sentinel
      /\ ended' = FALSE /\ cache' = NewCache /\ thr' = Prepared /\ pc' = "updating"
      /\ missed' = MissedAfter /\ shown' = {} /\ halted' = FALSE
      /\ UNCHANGED <<canvas, planes, job, later, nested>>
  BY DEF Paint, DrawingInv, CancelEnd
<1>1. canvas \in Canvases /\ thr \in Threads
  BY <1>0 DEF Types, MainTypes
<1>2. /\ thr' \in Threads /\ thr'.sentinel /\ thr'.todo = thr.todo /\ thr'.visible = thr.visible
      /\ canvas.clearing => thr'.vp = canvas.vp /\ thr'.last = canvas.vp.at
      /\ ~ canvas.clearing => thr'.vp = thr.vp /\ thr'.last = thr.last
      /\ thr'.valid = IF canvas.clearing /\ CanShift THEN thr.valid ELSE {}
      /\ thr'.region = Cells(thr'.vp) \ thr'.valid
  BY <1>0, <1>1, PreparedFields
<1>3. /\ call' \in Calls
      /\ call'.clear <=> canvas.clearing
      /\ call'.shift <=> canvas.clearing /\ CanShift
      /\ canvas.clearing => call'.by = canvas.vp.at - thr.last
      /\ call'.list = IF canvas.clearing THEN {} ELSE canvas.list
  <2>1. /\ canvas.vp.at - thr.last \in Int /\ 0 \in Int /\ canvas.list \in SUBSET Entries
        /\ canvas.clearing \in BOOLEAN /\ CanShift \in BOOLEAN
    BY <1>1 DEF Canvases, Threads, Viewports, CanShift
  <2>2. call' = [clear |-> canvas.clearing, shift |-> canvas.clearing /\ CanShift,
                 by |-> IF canvas.clearing THEN canvas.vp.at - thr.last ELSE 0,
                 list |-> IF canvas.clearing THEN {} ELSE canvas.list]
    BY DEF Paint
  <2> QED  BY <2>1, <2>2 DEF Calls
<1>4. cache' \in Seq(Images) /\ (OpenInv /\ FinishedInv /\ ImageInv)'
  BY <1>0, EntryOpened
<1>5. missed' \in SUBSET Entries
  BY <1>0 DEF MissedAfter, Types, FlagTypes, Entries
<1>6. Types'
  BY <1>0, <1>2, <1>3, <1>4, <1>5 DEF Types, MainTypes, FlagTypes
<1>7. ~ job.running /\ ~ nested /\ ~ Stuck
  BY <1>0 DEF ControlInv, PhaseInv, RequestInv, Stuck, Starting
<1>8. (Agreement /\ PhaseInv /\ RequestInv /\ CallInv /\ UpdatingInv)'
  BY <1>0, <1>2, <1>3, <1>7
     DEF ControlInv, Agreement, PhaseInv, RequestInv, CallInv, UpdatingInv, Cells, Starting
<1>9. ViewInv'
  <2>1. CASE canvas.clearing
    BY <1>0, <1>2, <2>1 DEF ViewInv, Starting
  <2>2. CASE ~ canvas.clearing
    <3>1. missed = Entries \/ thr.vp = canvas.vp
      BY <1>0, <1>7, <2>2 DEF ControlInv, ViewInv, Starting
    <3>2. thr.vp # canvas.vp => missed' = missed
      BY <1>0, <2>2 DEF MissedAfter
    <3> QED  BY <1>0, <1>2, <2>2, <3>1, <3>2 DEF ViewInv, Starting
  <2> QED  BY <2>1, <2>2
<1>10. /\ later \/ (call'.clear /\ ~ call'.shift) => Doubtful' = Entries
       /\ ~ later /\ ~ (call'.clear /\ ~ call'.shift) => Doubtful' = missed' \cup call'.list
  <2>1. pc' = "updating" /\ ~ Stuck' /\ later' = later
    BY <1>0 DEF Stuck
  <2>2. Resizes' <=> call'.clear /\ ~ call'.shift
    BY DEF Resizes
  <2> QED  BY <2>1, <2>2 DEF Doubtful
<1>11. Doubtful = IF later THEN Entries ELSE missed \cup Asked
  BY <1>0, <1>7 DEF Doubtful
<1>12. Doubtful \subseteq Doubtful' /\ (call'.shift => later \/ shown \subseteq Doubtful')
  <2>1. CASE later \/ (call'.clear /\ ~ call'.shift)
    <3>1. Doubtful' = Entries
      BY <1>10, <2>1
    <3> QED  BY <1>0, <1>3, <2>1, <3>1, DoubtfulType
  <2>2. CASE ~ later /\ call'.shift
    <3>1. missed' = missed \cup shown
      BY <1>0, <1>3, <2>2 DEF MissedAfter
    <3>2. Asked = {}
      BY <1>0, <1>3, <2>2 DEF Asked, CanShift, ControlInv, RequestInv, Starting
    <3> QED  BY <1>3, <1>10, <1>11, <2>2, <3>1, <3>2
  <2>3. CASE ~ later /\ ~ call'.clear
    <3>1. Asked = canvas.list
      BY <1>0, <1>3, <2>3 DEF Asked
    <3>2. missed \ canvas.list \subseteq missed'
      BY <1>0, <1>3, <2>3 DEF MissedAfter
    <3> QED  BY <1>3, <1>10, <1>11, <2>3, <3>1, <3>2
  <2> QED  BY <2>1, <2>2, <2>3
<1>13. Kept(thr, planes, Doubtful, shown)'
  <2>0. Kept(thr, planes, Doubtful, shown)
    BY <1>0 DEF PictureInv
  <2>1. \A e \in Entries \ Doubtful' : Clean(planes', e)
    BY <1>0, <1>12, <2>0 DEF Kept
  <2>2. \A e \in Entries \ (Doubtful' \cup thr'.todo) : Blanks(planes', e) = {}
    BY <1>0, <1>2, <1>12, <2>0 DEF Kept
  <2>3. \A e \in (thr'.visible \cup {Custom}) \ (Doubtful' \cup shown') : Blanks(planes', e) \cap thr'.valid = {}
    <3>1. CASE later
      <4>1. Doubtful' = Entries
        BY <1>10, <3>1
      <4>2. thr'.visible \cup {Custom} \subseteq Entries
        BY <1>2 DEF Threads, Entries
      <4> QED  BY <4>1, <4>2
    <3>2. CASE call'.shift /\ ~ later
      BY <1>0, <1>2, <1>3, <1>12, <2>0, <3>2 DEF Kept
    <3>3. CASE ~ call'.shift
      BY <1>2, <1>3, <3>3
    <3> QED  BY <3>1, <3>2, <3>3
  <2> QED  BY <2>1, <2>2, <2>3 DEF Kept, Clean, Blanks
<1>14. PlaceInv'
  <2> SUFFICES ASSUME Doubtful' # Entries
               PROVE  IF call'.shift THEN /\ call'.by = thr'.vp.at - planes.vp.at
                                          /\ thr'.valid \subseteq Cells(planes.vp)
                      ELSE thr'.vp.at = planes.vp.at
    BY <1>0 DEF PlaceInv, Cells
  <2>1. Doubtful # Entries
    BY <1>0, <1>6, <1>12, DoubtfulTypeNext
  <2>2. planes.vp = thr.vp /\ thr.valid \subseteq Cells(planes.vp) /\ thr.last = thr.vp.at
    BY <1>0, <1>7, <2>1 DEF PictureInv, PlaceInv, InPlace, ControlInv, Agreement
  <2>3. CASE call'.shift
    BY <1>2, <1>3, <2>2, <2>3
  <2>4. CASE ~ call'.shift
    BY <1>2, <1>3, <1>10, <2>2, <2>4
  <2> QED  BY <2>3, <2>4
<1>15. (TaskInv /\ RestInv)'
  BY <1>0, <1>7 DEF TaskInv, RestInv
<1> QED  BY <1>4, <1>6, <1>8, <1>9, <1>13, <1>14, <1>15 DEF DrawingInv, ControlInv, PictureInv

\* After an exception in do_start nothing is said of the picture any more.
LEMMA NothingSaid ==
  ASSUME Types', Doubtful' = Entries, ~ job'.running
  PROVE  Kept(thr, planes, Doubtful, shown)' /\ (PlaceInv /\ TaskInv /\ RestInv)'
<1>1. thr'.visible \cup {Custom} \subseteq Entries /\ Shown' \subseteq Entries
  BY DEF Types, MainTypes, Threads, Entries, Shown
<1>2. Kept(thr, planes, Doubtful, shown)'
  BY <1>1 DEF Kept
<1>3. (PlaceInv /\ TaskInv /\ RestInv)'
  BY <1>1 DEF PlaceInv, TaskInv, RestInv
<1> QED  BY <1>2, <1>3

LEMMA PaintTurnedAwayStep ==
  ASSUME DrawingInv, PaintTurnedAway
  PROVE  DrawingInv'
<1>0. /\ Types /\ ControlInv /\ PictureInv /\ pc = "idle" /\ thr.sentinel
      /\ ended' = FALSE /\ cache' = NewCache /\ thr' = Prepared /\ canvas' = PrepareEnd(canvas)
      /\ pc' = ToImage /\ UNCHANGED <<planes, job, call, later, missed, shown, halted, nested>>
  BY DEF PaintTurnedAway, DrawingInv, CancelEnd
<1>1. canvas \in Canvases /\ thr \in Threads
  BY <1>0 DEF Types, MainTypes
<1>2. /\ thr' \in Threads /\ thr'.sentinel /\ thr'.visible = thr.visible
      /\ canvas.clearing => thr'.vp = canvas.vp /\ thr'.last = canvas.vp.at
      /\ ~ canvas.clearing => thr'.vp = thr.vp /\ thr'.last = thr.last
  BY <1>0, <1>1, PreparedFields
<1>3. /\ canvas' \in Canvases /\ ~ canvas'.need
      /\ canvas'.vp = canvas.vp /\ canvas'.visible = canvas.visible
  BY <1>0, <1>1, PrepareEndFields
<1>4. cache' \in Seq(Images) /\ (OpenInv /\ FinishedInv /\ ImageInv)'
  BY <1>0, <1>3, EntryOpened
<1>a. Stuck /\ pc' = "hung"
  BY <1>0 DEF Stuck, ToImage
<1>5. Types'
  BY <1>0, <1>2, <1>3, <1>4, <1>a DEF Types, MainTypes, FlagTypes
<1>6. Stuck /\ Stuck' /\ ~ job.running
  BY <1>0, <1>2, <1>a DEF Stuck, ControlInv, PhaseInv, Starting
<1>7. (Agreement /\ PhaseInv /\ RequestInv /\ CallInv /\ UpdatingInv /\ ViewInv)'
  BY <1>0, <1>2, <1>3, <1>6, <1>a
     DEF ControlInv, Agreement, PhaseInv, RequestInv, CallInv, UpdatingInv, ViewInv, Starting
<1>8. Kept(thr, planes, Doubtful, shown)' /\ (PlaceInv /\ TaskInv /\ RestInv)'
  <2>1. Doubtful' = Entries
    BY <1>6 DEF Doubtful
  <2> QED  BY <1>0, <1>5, <1>6, <2>1, NothingSaid
<1> QED  BY <1>4, <1>5, <1>7, <1>8 DEF DrawingInv, ControlInv, PictureInv

LEMMA PrepareFailsStep ==
  ASSUME DrawingInv, PrepareFails
  PROVE  DrawingInv'
<1>0. /\ Types /\ ControlInv /\ PictureInv /\ pc = "updating" /\ pc' = "idle"
      /\ UNCHANGED <<canvas, cache, thr, planes, job, call, later, ended, asked, missed, shown, halted, nested>>
  BY DEF PrepareFails, DrawingInv
<1>1. Types'
  BY <1>0 DEF Types, MainTypes, FlagTypes
<1>2. ~ job.running /\ ~ ended /\ Stuck'
  BY <1>0 DEF ControlInv, PhaseInv, Stuck, Starting
<1>3. (Agreement /\ PhaseInv /\ RequestInv /\ CallInv /\ UpdatingInv /\ ViewInv)'
  BY <1>0, <1>2 DEF ControlInv, Agreement, PhaseInv, RequestInv, CallInv, UpdatingInv, ViewInv, Starting
<1>4. (OpenInv /\ FinishedInv /\ ImageInv)'
  BY <1>0, <1>2, ZenonT(30) DEF ControlInv, PictureInv, OpenInv, FinishedInv, ImageInv, Closed, ServedBy, Complete
<1>5. Kept(thr, planes, Doubtful, shown)' /\ (PlaceInv /\ TaskInv /\ RestInv)'
  <2>1. Doubtful' = Entries
    BY <1>2 DEF Doubtful
  <2> QED  BY <1>0, <1>1, <1>2, <2>1, NothingSaid
<1> QED  BY <1>1, <1>3, <1>4, <1>5 DEF DrawingInv, ControlInv, PictureInv

LEMMA NestedPaintStep ==
  ASSUME DrawingInv, NestedPaint
  PROVE  DrawingInv'
<1>0. /\ Types /\ ControlInv /\ PictureInv /\ pc = "updating" /\ canvas.need
      /\ ended' = FALSE /\ cache' = NewCache /\ thr' = Prepared
      /\ canvas' = PrepareEnd(canvas) /\ nested' = FALSE
      /\ UNCHANGED <<planes, job, pc, call, later, missed, shown, halted>>
  BY DEF NestedPaint, DrawingInv, CancelEnd
<1>1. canvas \in Canvases /\ thr \in Threads
  BY <1>0 DEF Types, MainTypes
<1>2. /\ thr' \in Threads /\ thr'.sentinel /\ thr'.todo = thr.todo /\ thr'.visible = thr.visible
      /\ canvas.clearing => thr'.vp = canvas.vp /\ thr'.last = canvas.vp.at
      /\ ~ canvas.clearing => thr'.vp = thr.vp /\ thr'.last = thr.last
      /\ thr'.valid \subseteq thr.valid
      /\ thr'.region = Cells(thr'.vp) \ thr'.valid
  BY <1>0, <1>1, PreparedFields
<1>3. /\ canvas' \in Canvases /\ ~ canvas'.need
      /\ canvas'.vp = canvas.vp /\ canvas'.visible = canvas.visible /\ canvas'.list = canvas.list
  BY <1>0, <1>1, PrepareEndFields
<1>4. cache' \in Seq(Images) /\ (OpenInv /\ FinishedInv /\ ImageInv)'
  BY <1>0, <1>3, EntryOpened
<1>5. Types'
  BY <1>0, <1>2, <1>3, <1>4 DEF Types, MainTypes, FlagTypes
<1>6. ~ job.running
  BY <1>0 DEF ControlInv, PhaseInv, Starting
<1>7. (Agreement /\ PhaseInv /\ RequestInv /\ CallInv /\ UpdatingInv)'
  BY <1>0, <1>2, <1>3, <1>6
     DEF ControlInv, Agreement, PhaseInv, RequestInv, CallInv, UpdatingInv, Cells, Starting
<1>8. /\ missed = Entries \/ thr'.vp.at = thr.vp.at
      /\ missed = Entries \/ thr'.vp = canvas.vp
  BY <1>0, <1>2 DEF ControlInv, ViewInv, RequestInv, Starting
<1>9. ViewInv'
  BY <1>0, <1>3, <1>8 DEF ViewInv, Starting
<1>10. Doubtful' = Doubtful /\ (missed = Entries => Doubtful = Entries)
  <2>1. Doubtful' = Doubtful
    BY <1>0 DEF Doubtful, Stuck, Resizes
  <2>2. missed = Entries => missed \cup call.list = Entries
    BY <1>0 DEF Types, MainTypes, Calls
  <2> QED  BY <1>0, <2>1, <2>2 DEF Doubtful, Stuck
<1>11. Kept(thr, planes, Doubtful, shown)'
  BY <1>0, <1>2, <1>10 DEF PictureInv, Kept, Clean, Blanks
<1>12. PlaceInv'
  BY <1>0, <1>2, <1>6, <1>8, <1>10 DEF PictureInv, PlaceInv, Cells
<1>13. (TaskInv /\ RestInv)'
  BY <1>0, <1>6 DEF TaskInv, RestInv
<1> QED  BY <1>4, <1>5, <1>7, <1>9, <1>11, <1>12, <1>13 DEF DrawingInv, ControlInv, PictureInv

LEMMA NestedResizeStep ==
  ASSUME DrawingInv, NEW size \in Sizes, NestedResize(size)
  PROVE  DrawingInv'
<1>0. /\ Types /\ ControlInv /\ PictureInv /\ pc = "updating" /\ nested' = TRUE /\ cache' = <<>>
      /\ canvas' = [RedrawAll(canvas, TRUE) EXCEPT !.vp.size = size]
      /\ UNCHANGED <<thr, planes, job, pc, call, later, ended, missed, shown, halted>>
  BY DEF NestedResize, DrawingInv
<1>1. /\ canvas' \in Canvases /\ canvas'.need /\ canvas'.clearing /\ canvas'.force
      /\ canvas'.list = (IF canvas.need THEN canvas.list ELSE {})
      /\ canvas'.visible = canvas.visible /\ canvas'.vp.at = canvas.vp.at
  <2> DEFINE c == RedrawAll(canvas, TRUE)
  <2>1. /\ c \in Canvases /\ c.need /\ c.clearing /\ c.force /\ c.visible = canvas.visible
        /\ c.vp = canvas.vp /\ c.list = IF canvas.need THEN canvas.list ELSE {}
    BY <1>0, RedrawAllFields DEF Types, MainTypes
  <2>2. canvas' = [c EXCEPT !.vp = [c.vp EXCEPT !.size = size]]
    BY <1>0, <2>1 DEF Canvases
  <2>3. [c.vp EXCEPT !.size = size] \in Viewports /\ [c.vp EXCEPT !.size = size].at = c.vp.at
    BY <2>1 DEF Canvases, Viewports
  <2> HIDE DEF c
  <2> QED  BY <2>1, <2>2, <2>3 DEF Canvases
<1>2. cache' \in Seq(Images) /\ (OpenInv /\ FinishedInv /\ ImageInv)'
  BY <1>0, NoImages
<1>3. Types'
  BY <1>0, <1>1, <1>2 DEF Types, MainTypes, FlagTypes
<1>4. (Agreement /\ PhaseInv /\ RequestInv /\ CallInv /\ UpdatingInv /\ ViewInv)'
  BY <1>0, <1>1
     DEF ControlInv, Agreement, PhaseInv, RequestInv, CallInv, UpdatingInv, ViewInv, Stuck, Cells, Starting
<1>5. Doubtful' = Doubtful
  BY <1>0 DEF Doubtful, Stuck, Resizes
<1>6. ~ job.running
  BY <1>0 DEF ControlInv, PhaseInv, Starting
<1>7. Kept(thr, planes, Doubtful, shown)'
  BY <1>0, <1>5 DEF PictureInv, Kept, Clean, Blanks
<1>8. (PlaceInv /\ TaskInv /\ RestInv)'
  BY <1>0, <1>5, <1>6 DEF PictureInv, PlaceInv, TaskInv, RestInv, Cells
<1> QED  BY <1>2, <1>3, <1>4, <1>7, <1>8 DEF DrawingInv, ControlInv, PictureInv

-----------------------------------------------------------------------------
(* The start of a job                                                      *)

\* The tasks are the visible layers and the decorations, as far as they are to
\* be drawn.
LEMMA TasksRange ==
  ASSUME Types
  PROVE  /\ Todo \in SUBSET Entries /\ Visible \in SUBSET Layers
         /\ Tasks \in Seq(Entries)
         /\ {Tasks[k] : k \in DOMAIN Tasks} = (Visible \cup {Custom}) \cap Todo
<1> DEFINE first == IF Custom \in Todo THEN <<Custom>> ELSE <<>>
           all == [l \in Layers |-> l]
           rest == Part(all, Visible \cap Todo)
<1>1. Todo \in SUBSET Entries /\ Visible \in SUBSET Layers
  BY DEF Types, MainTypes, Threads, Canvases, Todo, Visible
<1>2. /\ all \in Seq(Entries) /\ Len(all) = NumLayers
      /\ \A l \in 1..NumLayers : all[l] = l
  <2>1. NumLayers \in Nat /\ \A l \in Layers : l \in Entries
    BY RedrawAssumption DEF Entries
  <2>2. all \in [1..NumLayers -> Entries]
    BY <2>1 DEF Layers
  <2> QED  BY <2>1, <2>2 DEF Layers
<1> HIDE DEF all
<1>3. /\ rest \in Seq(Entries)
      /\ \A k \in DOMAIN rest : \E l \in DOMAIN all : l \in Visible \cap Todo /\ rest[k] = all[l]
      /\ \A l \in DOMAIN all : l \in Visible \cap Todo => \E k \in DOMAIN rest : rest[k] = all[l]
  <2> DEFINE drawn == Visible \cap Todo
  <2>1. rest = Part(all, drawn) /\ all \in Seq(Entries)
    BY <1>2
  <2> HIDE DEF first, rest, drawn
  <2>2. rest \in Seq(Entries)
    BY <2>1, PartRange
  <2>3. \A k \in DOMAIN rest : \E l \in DOMAIN all : l \in drawn /\ rest[k] = all[l]
    BY <2>1, PartRange
  <2>4. \A l \in DOMAIN all : l \in drawn => \E k \in DOMAIN rest : rest[k] = all[l]
    BY <2>1, PartRange
  <2> QED  BY <2>2, <2>3, <2>4 DEF drawn
<1>4. {rest[k] : k \in DOMAIN rest} = Visible \cap Todo
  <2>1. DOMAIN all = Layers
    BY <1>2 DEF Layers
  <2>2. \A l \in Layers : all[l] = l
    BY <1>2 DEF Layers
  <2> HIDE DEF rest
  <2> QED  BY <1>1, <1>3, <2>1, <2>2
<1>5. /\ first \in Seq(Entries) /\ Len(first) \in {0, 1}
      /\ {first[k] : k \in DOMAIN first} = {Custom} \cap Todo
  <2>1. CASE Custom \in Todo
    <3>1. first = <<Custom>> /\ Custom \in Entries
      BY <2>1 DEF Entries
    <3>2. first \in Seq(Entries) /\ Len(first) = 1 /\ first[1] = Custom /\ DOMAIN first = {1}
      BY <3>1
    <3> QED  BY <2>1, <3>2
  <2>2. CASE Custom \notin Todo
    <3>1. first = <<>> /\ DOMAIN first = {} /\ Len(first) = 0 /\ first \in Seq(Entries)
      BY <2>2
    <3> QED  BY <2>2, <3>1
  <2> QED  BY <2>1, <2>2
<1>6. Tasks = first \o rest
  BY DEF Tasks, all
<1> HIDE DEF first, rest
<1>7. /\ Tasks \in Seq(Entries) /\ Len(Tasks) = Len(first) + Len(rest)
      /\ \A i \in 1..Len(Tasks) : Tasks[i] = IF i <= Len(first) THEN first[i] ELSE rest[i - Len(first)]
  BY <1>3, <1>5, <1>6, ConcatProperties
<1>8. DOMAIN first = 1..Len(first) /\ DOMAIN rest = 1..Len(rest) /\ DOMAIN Tasks = 1..Len(Tasks)
      /\ Len(first) \in Nat /\ Len(rest) \in Nat
  BY <1>3, <1>5, <1>7
<1>9. ASSUME NEW k \in DOMAIN Tasks
      PROVE  (\E i \in DOMAIN first : Tasks[k] = first[i]) \/ (\E i \in DOMAIN rest : Tasks[k] = rest[i])
  <2>1. CASE k <= Len(first)
    BY <1>7, <1>8, <2>1
  <2>2. CASE ~ (k <= Len(first))
    <3>1. k - Len(first) \in 1..Len(rest)
      BY <1>7, <1>8, <2>2
    <3> QED  BY <1>7, <1>8, <2>2, <3>1
  <2> QED  BY <2>1, <2>2
<1>10. ASSUME NEW i \in DOMAIN first PROVE \E k \in DOMAIN Tasks : Tasks[k] = first[i]
  <2>1. i \in DOMAIN Tasks /\ i <= Len(first)
    BY <1>7, <1>8
  <2> QED  BY <1>7, <1>8, <2>1
<1>11. ASSUME NEW i \in DOMAIN rest PROVE \E k \in DOMAIN Tasks : Tasks[k] = rest[i]
  <2>1. /\ i + Len(first) \in 1..Len(Tasks) /\ ~ (i + Len(first) <= Len(first))
        /\ (i + Len(first)) - Len(first) = i
    BY <1>7, <1>8
  <2>2. Tasks[i + Len(first)] = rest[i]
    BY <1>7, <2>1
  <2> QED  BY <1>8, <2>1, <2>2
<1>12. {Tasks[k] : k \in DOMAIN Tasks} = {first[k] : k \in DOMAIN first} \cup {rest[k] : k \in DOMAIN rest}
  BY <1>9, <1>10, <1>11
<1>13. {Tasks[k] : k \in DOMAIN Tasks} = (Visible \cup {Custom}) \cap Todo
  BY <1>4, <1>5, <1>12
<1> QED  BY <1>1, <1>7, <1>13

\* The planes do_start begins with: new, moved, or moved and partly cleared.
LEMMA StartingPlanes ==
  ASSUME DrawingInv, StartDrawing
  PROVE  /\ planes' \in Pictures /\ planes'.vp = thr.vp
         /\ Resizes => \A e \in Entries : Clean(planes', e)
         /\ call.shift /\ call.by = thr.vp.at - planes.vp.at => \A e \in Entries :
              /\ Blanks(planes', e) \subseteq (Cells(thr.vp) \ Cells(planes.vp)) \cup Blanks(planes, e)
              /\ Clean(planes, e) => Clean(planes', e)
         /\ ~ call.clear => \A e \in Entries : e \in canvas.list => Clean(planes', e)
         /\ ~ call.clear /\ thr.vp.at = planes.vp.at => \A e \in Entries \ canvas.list :
              /\ Blanks(planes', e) \subseteq Blanks(planes, e)
              /\ Clean(planes, e) => Clean(planes', e)
<1>0. /\ Types /\ CallInv /\ Fits
      /\ planes' = CASE Resizes       -> Blank(thr.vp)
                     [] call.shift    -> Shifted(planes, thr.vp, call.by)
                     [] ~ call.clear  -> Cleared(Shifted(planes, thr.vp, 0), canvas.list)
  BY DEF StartDrawing, DrawingInv, ControlInv
<1>1. /\ planes \in Pictures /\ thr.vp \in Viewports /\ call.by \in Int /\ 0 \in Int
      /\ planes.vp \in Viewports
      /\ call.clear \in BOOLEAN /\ call.shift \in BOOLEAN /\ (call.shift => call.clear)
  BY <1>0 DEF Types, MainTypes, Threads, Calls, Pictures, CallInv
<1>2. CASE Resizes
  <2>1. planes' = Blank(thr.vp) /\ ~ call.shift /\ call.clear
    BY <1>0, <1>1, <1>2 DEF Resizes
  <2> QED  BY <1>1, <2>1, BlankPicture
<1>3. CASE call.shift
  <2>1. planes' = Shifted(planes, thr.vp, call.by) /\ ~ Resizes /\ call.clear
    BY <1>0, <1>1, <1>3 DEF Resizes
  <2> QED  BY <1>1, <2>1, ShiftedPicture
<1>4. CASE ~ call.clear
  <2> DEFINE moved == Shifted(planes, thr.vp, 0)
  <2>1. planes' = Cleared(moved, canvas.list) /\ ~ Resizes /\ ~ call.shift
    BY <1>0, <1>1, <1>4 DEF Resizes
  <2>2. /\ moved \in Pictures /\ moved.vp = thr.vp
        /\ 0 = thr.vp.at - planes.vp.at => \A e \in Entries :
             /\ Blanks(moved, e) \subseteq (Cells(thr.vp) \ Cells(planes.vp)) \cup Blanks(planes, e)
             /\ Clean(planes, e) => Clean(moved, e)
    BY <1>1, ShiftedPicture
  <2> HIDE DEF moved
  <2>3. /\ planes' \in Pictures /\ planes'.vp = thr.vp
        /\ \A f \in Entries \ canvas.list : Blanks(planes', f) = Blanks(moved, f)
        /\ \A f \in Entries : f \in canvas.list \/ Clean(moved, f) => Clean(planes', f)
    BY <2>1, <2>2, ClearedPicture
  <2>4. ASSUME thr.vp.at = planes.vp.at
        PROVE  0 = thr.vp.at - planes.vp.at /\ Cells(thr.vp) = Cells(planes.vp)
    <3>1. thr.vp.size = planes.vp.size
      BY <1>0, <2>1 DEF Fits
    <3>2. thr.vp.at \in Int
      BY <1>1 DEF Viewports
    <3> QED  BY <2>4, <3>1, <3>2 DEF Cells
  <2> QED  BY <1>4, <2>1, <2>2, <2>3, <2>4
<1> QED  BY <1>1, <1>2, <1>3, <1>4 DEF Resizes

LEMMA StartDrawingStep ==
  ASSUME DrawingInv, StartDrawing
  PROVE  DrawingInv'
<1>0. /\ Types /\ ControlInv /\ PictureInv /\ pc = "updating" /\ pc' = "started"
      /\ thr' = [thr EXCEPT !.initial = TRUE, !.todo = Todo, !.visible = Visible]
      /\ job' = [queue |-> Tasks, current |-> None, running |-> TRUE]
      /\ missed' = missed \cup (call.list \ canvas.list)
      /\ UNCHANGED <<canvas, cache, call, later, ended, shown, halted, nested>>
  BY DEF StartDrawing, DrawingInv
<1>1. /\ Todo \in SUBSET Entries /\ Visible \in SUBSET Layers /\ Tasks \in Seq(Entries)
      /\ {Tasks[k] : k \in DOMAIN Tasks} = (Visible \cup {Custom}) \cap Todo
  BY <1>0, TasksRange
<1>2. /\ thr' \in Threads /\ thr'.vp = thr.vp /\ thr'.last = thr.last /\ thr'.valid = thr.valid
      /\ thr'.region = thr.region /\ thr'.todo = Todo /\ thr'.visible = Visible
      /\ thr'.sentinel = thr.sentinel
  BY <1>0, <1>1 DEF Types, MainTypes, Threads
<1>3. Visible = thr.visible
  BY <1>0 DEF Visible, ControlInv, Agreement
<1>4. job' \in Jobs /\ job'.running /\ job'.queue = Tasks /\ job'.current = None
  BY <1>0, <1>1 DEF Jobs
<1>5. planes' \in Pictures /\ planes'.vp = thr.vp
  BY StartingPlanes
<1>6. missed' \in SUBSET Entries
  BY <1>0 DEF Types, MainTypes, FlagTypes, Calls
<1>7. Types'
  BY <1>0, <1>2, <1>4, <1>5, <1>6 DEF Types, MainTypes, FlagTypes
<1>8. (Agreement /\ PhaseInv /\ RequestInv /\ CallInv /\ UpdatingInv)'
  BY <1>0, <1>2, <1>3, <1>4
     DEF ControlInv, Agreement, PhaseInv, RequestInv, CallInv, UpdatingInv, Stuck, Starting
<1>9. ViewInv'
  BY <1>0, <1>2, <1>6 DEF ControlInv, ViewInv, Starting
<1>10. (OpenInv /\ FinishedInv /\ ImageInv)'
  BY <1>0
     DEF ControlInv, PictureInv, PhaseInv, OpenInv, FinishedInv, ImageInv, Closed, ServedBy, Complete, Starting
<1>11. Tasked' = (thr'.visible \cup {Custom}) \cap thr'.todo
  BY <1>1, <1>2, <1>4 DEF Tasked
<1>12. thr'.visible \cup {Custom} \subseteq Entries
  BY <1>2 DEF Threads, Entries
<1>13. /\ thr.region = Cells(thr.vp) \ thr.valid /\ (~ call.shift => thr.valid = {})
       /\ shown = {} /\ (call.shift => call.clear) /\ (call.clear => call.list = {})
       /\ ~ call.clear => canvas.list \in {call.list, {}}
  BY <1>0 DEF ControlInv, UpdatingInv, CallInv
<1>14. call.shift \in BOOLEAN /\ call.clear \in BOOLEAN
  BY <1>0 DEF Types, MainTypes, Calls
<1>15. Kept(thr, planes, Doubtful, shown) /\ PlaceInv
  BY <1>0 DEF PictureInv
<1>16. ASSUME NEW e \in Entries \ Doubtful'
       PROVE  /\ Clean(planes', e)
              /\ e \notin thr'.todo => Blanks(planes', e) = {}
              /\ e \in thr'.visible \cup {Custom} => Blanks(planes', e) \cap thr.valid = {}
  <2>1. ~ later /\ e \notin missed' /\ e \notin missed
    <3>1. ~ Stuck'
      BY <1>0 DEF Stuck
    <3> QED  BY <1>0, <1>16, <3>1 DEF Doubtful
  <2>2. CASE Resizes
    <3>1. thr.valid = {} /\ thr'.todo = Entries
      BY <1>2, <1>13, <2>2 DEF Resizes, Todo
    <3> QED  BY <2>2, <3>1, StartingPlanes
  <2>3. CASE call.shift
    <3>1. Doubtful = missed
      BY <1>0, <1>13, <2>1, <2>3 DEF Doubtful, Stuck, Resizes
    <3>2. Doubtful # Entries
      BY <2>1, <3>1
    <3>3. call.by = thr.vp.at - planes.vp.at /\ thr.valid \subseteq Cells(planes.vp)
      BY <1>0, <1>15, <2>3, <3>2 DEF PlaceInv
    <3>4. /\ Blanks(planes', e) \subseteq (Cells(thr.vp) \ Cells(planes.vp)) \cup Blanks(planes, e)
          /\ Clean(planes, e) => Clean(planes', e)
      BY <2>3, <3>3, StartingPlanes
    <3>5. Clean(planes, e)
      BY <1>15, <2>1, <3>1 DEF Kept
    <3>6. thr'.todo = Entries
      BY <1>2, <1>13, <2>3 DEF Todo
    <3>7. e \in thr.visible \cup {Custom} => Blanks(planes, e) \cap thr.valid = {}
      BY <1>13, <1>15, <2>1, <3>1 DEF Kept
    <3> QED  BY <1>2, <1>3, <3>3, <3>4, <3>5, <3>6, <3>7
  <2>4. CASE ~ call.clear
    <3>1. ~ call.shift /\ thr.valid = {} /\ ~ Resizes
      BY <1>13, <2>4 DEF Resizes
    <3>2. Doubtful = missed \cup call.list
      BY <1>0, <2>1, <3>1 DEF Doubtful, Stuck
    <3>3. e \in call.list => e \in canvas.list
      BY <1>0, <2>1
    <3>4. thr'.todo = thr.todo \cup canvas.list
      BY <1>2, <2>4 DEF Todo
    <3>5. CASE e \in canvas.list
      BY <2>4, <3>1, <3>4, <3>5, StartingPlanes
    <3>6. CASE e \notin canvas.list
      <4>1. e \notin Doubtful
        BY <2>1, <3>2, <3>3, <3>6
      <4>2. thr.vp.at = planes.vp.at
        BY <1>0, <1>15, <3>1, <4>1 DEF PlaceInv
      <4>3. Blanks(planes', e) \subseteq Blanks(planes, e) /\ (Clean(planes, e) => Clean(planes', e))
        BY <2>4, <3>6, <4>2, StartingPlanes
      <4>4. Clean(planes, e) /\ (e \notin thr.todo => Blanks(planes, e) = {})
        BY <1>15, <4>1 DEF Kept
      <4> QED  BY <3>1, <3>4, <4>3, <4>4
    <3> QED  BY <3>5, <3>6
  <2> QED  BY <1>14, <2>2, <2>3, <2>4 DEF Resizes
<1>17. Kept(thr, planes, Doubtful, shown)'
  <2>1. \A e \in Entries \ Doubtful' : Clean(planes', e)
    BY <1>16
  <2>2. \A e \in Entries \ (Doubtful' \cup thr'.todo) : Blanks(planes', e) = {}
    BY <1>16
  <2>3. \A e \in (thr'.visible \cup {Custom}) \ (Doubtful' \cup shown') : Blanks(planes', e) \cap thr'.valid = {}
    BY <1>2, <1>12, <1>16
  <2> QED  BY <2>1, <2>2, <2>3 DEF Kept, Clean, Blanks
<1>18. PlaceInv'
  BY <1>0, <1>2, <1>4, <1>5 DEF PlaceInv
<1>19. TaskInv'
  <2>1. thr'.todo \cap Shown' \subseteq Tasked'
    BY <1>11 DEF Shown
  <2>2. ASSUME NEW e \in Tasked' \ Doubtful' PROVE Blanks(planes', e) \subseteq Extent(e)'
    <3>1. e \in Entries \ Doubtful' /\ e \in thr'.visible \cup {Custom}
      BY <1>11, <1>12
    <3>2. Blanks(planes', e) \subseteq Cells(thr.vp)
      BY <1>5 DEF Blanks
    <3>3. Blanks(planes', e) \cap thr.valid = {}
      BY <1>16, <3>1
    <3>4. thr'.region = Cells(thr.vp) \ thr.valid
      BY <1>2, <1>13
    <3>5. Extent(e)' = IF e = Custom THEN Cells(thr.vp) ELSE thr'.region
      BY <1>2 DEF Extent
    <3> QED  BY <3>2, <3>3, <3>4, <3>5
  <2> QED  BY <2>1, <2>2 DEF TaskInv, Blanks, Extent
<1>20. RestInv'
  BY <1>4 DEF RestInv
<1> QED  BY <1>7, <1>8, <1>9, <1>10, <1>17, <1>18, <1>19, <1>20 DEF DrawingInv, ControlInv, PictureInv

\* do_start returns: what was to be drawn again in the meantime is missed.
LEMMA LeaveStep ==
  ASSUME DrawingInv, pc \in {"started", "waiting", "woken"}, Leave
  PROVE  DrawingInv'
<1>0. /\ Types /\ ControlInv /\ PictureInv /\ pc' = "idle"
      /\ thr' = [thr EXCEPT !.initial = FALSE, !.sentinel = FALSE]
      /\ canvas' = PrepareEnd(canvas)
      /\ missed' = (IF nested THEN Entries ELSE missed) /\ nested' = FALSE
      /\ UNCHANGED <<cache, planes, job, call, later, ended, shown, halted>>
  BY DEF Leave, DrawingInv
<1>1. /\ canvas' \in Canvases /\ ~ canvas'.need
      /\ canvas'.vp = canvas.vp /\ canvas'.visible = canvas.visible
  BY <1>0, PrepareEndFields DEF Types, MainTypes
<1>2. /\ thr' \in Threads /\ thr'.vp = thr.vp /\ thr'.last = thr.last /\ thr'.valid = thr.valid
      /\ thr'.region = thr.region /\ thr'.todo = thr.todo /\ thr'.visible = thr.visible
      /\ ~ thr'.sentinel
  BY <1>0 DEF Types, MainTypes, Threads
<1>3. missed' \in SUBSET Entries /\ missed \subseteq missed'
  BY <1>0 DEF Types, FlagTypes
<1>4. Types'
  BY <1>0, <1>1, <1>2, <1>3 DEF Types, MainTypes, FlagTypes
<1>5. (Agreement /\ PhaseInv /\ RequestInv /\ CallInv /\ UpdatingInv /\ FinishedInv)'
  BY <1>0, <1>1, <1>2
     DEF ControlInv, Agreement, PhaseInv, RequestInv, CallInv, UpdatingInv, FinishedInv, Stuck, Starting
<1>6. ViewInv'
  BY <1>0, <1>1, <1>2 DEF ControlInv, ViewInv, Starting
<1>7. (OpenInv /\ ImageInv)'
  BY <1>0, <1>1 DEF ControlInv, PictureInv, OpenInv, ImageInv, Closed, ServedBy, Complete
<1>8. Doubtful \subseteq Doubtful' /\ Doubtful' \subseteq Entries
  <2>1. Doubtful = IF later THEN Entries ELSE missed
    BY DEF Doubtful, Stuck
  <2>2. missed' \subseteq Doubtful' /\ (later => Doubtful' = Entries)
    <3>1. ~ Stuck'
      BY <1>2 DEF Stuck
    <3> QED  BY <1>0, <1>3, <3>1 DEF Doubtful
  <2> QED  BY <1>3, <1>4, <2>1, <2>2, DoubtfulTypeNext
<1>9. Kept(thr, planes, Doubtful, shown)'
  <2>0. Kept(thr, planes, Doubtful, shown)
    BY <1>0 DEF PictureInv
  <2>1. \A e \in Entries \ Doubtful' : Clean(planes, e)
    BY <1>8, <2>0 DEF Kept
  <2>2. \A e \in Entries \ (Doubtful' \cup thr'.todo) : Blanks(planes, e) = {}
    BY <1>2, <1>8, <2>0 DEF Kept
  <2>3. \A e \in (thr'.visible \cup {Custom}) \ (Doubtful' \cup shown) : Blanks(planes, e) \cap thr'.valid = {}
    BY <1>2, <1>8, <2>0 DEF Kept
  <2> QED  BY <1>0, <2>1, <2>2, <2>3 DEF Kept, Clean, Blanks
<1>10. PlaceInv'
  BY <1>0, <1>2, <1>8 DEF PictureInv, PlaceInv, InPlace
<1>11. Shown' = Shown /\ Tasked' = Tasked
  BY <1>0, <1>2 DEF Shown, Tasked
<1>12. TaskInv'
  BY <1>0, <1>2, <1>8, <1>11 DEF PictureInv, TaskInv, Blanks, Extent
<1>13. RestInv'
  BY <1>0, <1>8, <1>11 DEF PictureInv, RestInv, Blanks
<1> QED  BY <1>4, <1>5, <1>6, <1>7, <1>9, <1>10, <1>12, <1>13 DEF DrawingInv, ControlInv, PictureInv

-----------------------------------------------------------------------------
(* The worker                                                              *)

\* A wakeup only ends the wait of do_start.
LEMMA PlaceOfMain ==
  ASSUME Types, pc # "updating", pc' \in {pc, Wakeup}, thr'.sentinel = thr.sentinel,
         UNCHANGED <<canvas, call, later, missed>>
  PROVE  /\ pc' \in {"idle", "updating", "started", "waiting", "woken", "hung"}
         /\ pc' = "idle" <=> pc = "idle"
         /\ pc' = "hung" <=> pc = "hung"
         /\ pc' # "updating" /\ (Stuck' <=> Stuck) /\ Doubtful' = Doubtful
<1>1. /\ pc' \in {"idle", "updating", "started", "waiting", "woken", "hung"}
      /\ pc' = "idle" <=> pc = "idle"
      /\ pc' = "hung" <=> pc = "hung"
      /\ pc' # "updating"
  BY DEF Types, MainTypes, Wakeup
<1>2. Stuck' <=> Stuck
  BY <1>1 DEF Stuck
<1>3. Asked' = Asked
  BY DEF Asked
<1> QED  BY <1>1, <1>2, <1>3 DEF Doubtful

\* What an action of the worker, or the wait of do_start, leaves as it is.
LEMMA ControlKept ==
  ASSUME DrawingInv, pc # "updating", pc' \in {pc, Wakeup},
         UNCHANGED <<canvas, cache, call, later, missed, shown, halted, nested>>,
         job'.running => job.running, ~ job'.running => job' = NoJob,
         \/ ended' = ended /\ job'.running = job.running
         \/ ended' = TRUE /\ job.running /\ ~ job'.running,
         thr'.vp = thr.vp, thr'.last = thr.last, thr'.visible = thr.visible, thr'.sentinel = thr.sentinel
  PROVE  (ControlInv /\ ImageInv)' /\ Doubtful' = Doubtful
<1>0. Types /\ ControlInv /\ ImageInv
  BY DEF DrawingInv, PictureInv
<1>1. /\ pc' = "idle" <=> pc = "idle"
      /\ pc' = "hung" <=> pc = "hung"
      /\ pc' # "updating" /\ (Stuck' <=> Stuck) /\ Doubtful' = Doubtful
  BY <1>0, PlaceOfMain
<1>2. (Agreement /\ RequestInv /\ CallInv /\ UpdatingInv /\ ViewInv)'
  BY <1>0, <1>1 DEF ControlInv, Agreement, RequestInv, CallInv, UpdatingInv, ViewInv, Starting
<1>3. PhaseInv'
  BY <1>0, <1>1 DEF ControlInv, PhaseInv, Starting
<1>4. canvas' = canvas /\ cache' = cache /\ later' = later
  OBVIOUS
<1>5. OpenInv'
  BY <1>0, <1>4, ZenonT(30) DEF ControlInv, OpenInv, Closed, ServedBy
<1>6. ImageInv'
  BY <1>0, <1>4 DEF ImageInv, Closed, Complete
<1>7. FinishedInv'
  BY <1>0, <1>1 DEF ControlInv, FinishedInv, PhaseInv, Starting
<1> QED  BY <1>1, <1>2, <1>3, <1>5, <1>6, <1>7 DEF ControlInv

LEMMA WaitStep ==
  ASSUME DrawingInv, Wait
  PROVE  DrawingInv'
<1>0. /\ Types /\ PictureInv /\ pc = "started" /\ pc' = "waiting"
      /\ UNCHANGED <<canvas, cache, thr, planes, job, call, later, ended, missed, shown, halted, nested>>
  BY DEF Wait, Returned, DrawingInv
<1>1. Types'
  BY <1>0 DEF Types, MainTypes, FlagTypes
<1>2. (OpenInv /\ ImageInv)'
  BY <1>0 DEF DrawingInv, ControlInv, PictureInv, OpenInv, ImageInv, Closed, ServedBy, Complete
<1>3. (Agreement /\ PhaseInv /\ RequestInv /\ CallInv /\ UpdatingInv /\ ViewInv /\ FinishedInv)'
  BY <1>0 DEF DrawingInv, ControlInv, Agreement, PhaseInv, RequestInv, CallInv, UpdatingInv, ViewInv,
              FinishedInv, Stuck, Starting
<1>4. Doubtful' = Doubtful
  BY <1>0 DEF Doubtful, Stuck
<1>5. Kept(thr, planes, Doubtful, shown)'
  BY <1>0, <1>4 DEF PictureInv, Kept, Clean, Blanks
<1>6. Shown' = Shown /\ Tasked' = Tasked
  BY <1>0 DEF Shown, Tasked
<1>7. (PlaceInv /\ TaskInv /\ RestInv)'
  BY <1>0, <1>4, <1>6 DEF PictureInv, PlaceInv, InPlace, TaskInv, RestInv, Blanks, Extent
<1> QED  BY <1>1, <1>2, <1>3, <1>5, <1>7 DEF DrawingInv, ControlInv, PictureInv

LEMMA TakeTaskStep ==
  ASSUME DrawingInv, TakeTask
  PROVE  DrawingInv'
<1>0. /\ Types /\ ControlInv /\ PictureInv /\ job.current = None /\ job.queue # <<>>
      /\ job' = [job EXCEPT !.queue = Tail(job.queue), !.current = Head(job.queue)]
      /\ UNCHANGED <<canvas, cache, thr, planes, pc, call, later, ended, missed, shown, halted, nested>>
  BY DEF TakeTask, DrawingInv
<1>1. job \in Jobs /\ job.queue \in Seq(Entries)
  BY <1>0 DEF Types, Jobs
<1>2. job.running /\ pc # "updating"
  BY <1>0 DEF ControlInv, PhaseInv, NoJob, Starting
<1>3. /\ Tail(job.queue) \in Seq(Entries) /\ Head(job.queue) \in Entries
      /\ Head(job.queue) = job.queue[1] /\ Len(Tail(job.queue)) = Len(job.queue) - 1
      /\ \A k \in 1..Len(Tail(job.queue)) : Tail(job.queue)[k] = job.queue[k + 1]
      /\ Len(job.queue) \in Nat /\ Len(job.queue) >= 1
  BY <1>0, <1>1, HeadTailProperties
<1> DEFINE tail == Tail(job.queue)
           head == Head(job.queue)
<1>4. /\ job' \in Jobs /\ job'.running = job.running /\ job'.queue = tail /\ job'.current = head
  BY <1>0, <1>1, <1>3 DEF Jobs
<1>5. Types'
  BY <1>0, <1>4 DEF Types, MainTypes, FlagTypes
<1>6. (ControlInv /\ ImageInv)' /\ Doubtful' = Doubtful
  <2>1. /\ pc # "updating" /\ pc' \in {pc, Wakeup}
        /\ UNCHANGED <<canvas, cache, call, later, missed, shown, halted, nested>>
        /\ job.running /\ job'.running /\ ended' = ended /\ job'.running = job.running
        /\ thr'.vp = thr.vp /\ thr'.last = thr.last /\ thr'.visible = thr.visible
        /\ thr'.sentinel = thr.sentinel
    BY <1>0, <1>2, <1>4
  <2> QED  BY <2>1, ControlKept
<1>7. Tasked' = Tasked
  <2>1. Tasked' = {tail[k] : k \in DOMAIN tail} \cup {head}
    BY <1>3, <1>4 DEF Tasked, None, Entries, Layers, Custom
  <2>2. Tasked = {job.queue[k] : k \in DOMAIN job.queue}
    BY <1>0 DEF Tasked
  <2>3. DOMAIN tail = 1..(Len(job.queue) - 1) /\ DOMAIN job.queue = 1..Len(job.queue)
    BY <1>1, <1>3
  <2>4. \A k \in DOMAIN tail : k + 1 \in DOMAIN job.queue /\ tail[k] = job.queue[k + 1]
    BY <1>3, <2>3
  <2>5. 1 \in DOMAIN job.queue /\ head = job.queue[1]
    BY <1>3, <2>3
  <2>6. ASSUME NEW k \in DOMAIN job.queue PROVE job.queue[k] \in {tail[j] : j \in DOMAIN tail} \cup {head}
    <3>1. CASE k = 1
      BY <2>5, <3>1
    <3>2. CASE k # 1
      <4>1. k - 1 \in DOMAIN tail /\ (k - 1) + 1 = k
        BY <1>3, <2>3, <3>2
      <4> QED  BY <2>4, <4>1
    <3> QED  BY <3>1, <3>2
  <2> HIDE DEF tail, head
  <2> QED  BY <2>1, <2>2, <2>4, <2>5, <2>6
<1>8. Kept(thr, planes, Doubtful, shown)'
  BY <1>0, <1>6 DEF PictureInv, Kept, Clean, Blanks
<1>9. Shown' = Shown
  BY <1>0 DEF Shown
<1>10. (PlaceInv /\ TaskInv /\ RestInv)'
  BY <1>0, <1>4, <1>6, <1>7, <1>9 DEF PictureInv, PlaceInv, InPlace, TaskInv, RestInv, Blanks, Extent, Cells
<1> QED  BY <1>5, <1>6, <1>8, <1>10 DEF DrawingInv, PictureInv

LEMMA SnapshotStep ==
  ASSUME DrawingInv, Snapshot
  PROVE  DrawingInv'
<1>0. /\ Types /\ ControlInv /\ PictureInv /\ job.current \in Layers
      /\ thr' = Woken(thr) /\ pc' = Wakeup
      /\ UNCHANGED <<canvas, cache, job, call, later, ended, missed, shown, halted, nested>>
  BY DEF Snapshot, DrawingInv
<1>1. PICK part \in SUBSET thr.region : planes' = Drawn(planes, job.current, part)
  BY DEF Snapshot
<1> DEFINE e == job.current
<1>2. e \in Entries /\ e \in Tasked /\ job.running /\ pc # "updating"
  BY <1>0 DEF Entries, Layers, Tasked, None, ControlInv, PhaseInv, NoJob, Starting
<1>3. planes \in Pictures /\ thr \in Threads
  BY <1>0 DEF Types, MainTypes
<1>4. /\ planes' \in Pictures /\ planes'.vp = planes.vp
      /\ Blanks(planes', e) = Blanks(planes, e) \ part
      /\ \A f \in Entries \ {e} : Blanks(planes', f) = Blanks(planes, f)
      /\ \A f \in Entries : Clean(planes, f) => Clean(planes', f)
  BY <1>1, <1>2, <1>3, DrawnPicture
<1>5. \A f \in Entries : Blanks(planes', f) \subseteq Blanks(planes, f)
  BY <1>4
<1>6. /\ thr' \in Threads /\ thr'.vp = thr.vp /\ thr'.last = thr.last /\ thr'.valid = thr.valid
      /\ thr'.region = thr.region /\ thr'.todo = thr.todo
      /\ thr'.visible = thr.visible /\ thr'.sentinel = thr.sentinel
  BY <1>0, <1>3, ThreadFields
<1> HIDE DEF e
<1>7. (ControlInv /\ ImageInv)' /\ Doubtful' = Doubtful
  <2>1. /\ pc # "updating" /\ pc' \in {pc, Wakeup}
        /\ UNCHANGED <<canvas, cache, call, later, missed, shown, halted, nested>>
        /\ job.running /\ job'.running /\ ended' = ended /\ job'.running = job.running
        /\ thr'.vp = thr.vp /\ thr'.last = thr.last /\ thr'.visible = thr.visible
        /\ thr'.sentinel = thr.sentinel
    BY <1>0, <1>2, <1>6
  <2> QED  BY <2>1, ControlKept
<1>8. pc' \in {"idle", "updating", "started", "waiting", "woken", "hung"}
  BY <1>0 DEF Types, MainTypes, Wakeup
<1>9. Types'
  BY <1>0, <1>4, <1>6, <1>8 DEF Types, MainTypes, FlagTypes
<1>10. thr.visible \cup {Custom} \subseteq Entries /\ Tasked \subseteq Entries
  BY <1>0, <1>3 DEF Threads, Entries, Tasked, Types, Jobs
<1>11. Kept(thr, planes, Doubtful, shown)'
  <2>0. Kept(thr, planes, Doubtful, shown)
    BY <1>0 DEF PictureInv
  <2>1. \A f \in Entries \ Doubtful' : Clean(planes', f)
    BY <1>4, <1>7, <2>0 DEF Kept
  <2>2. \A f \in Entries \ (Doubtful' \cup thr'.todo) : Blanks(planes', f) = {}
    BY <1>5, <1>6, <1>7, <2>0 DEF Kept
  <2>3. \A f \in (thr'.visible \cup {Custom}) \ (Doubtful' \cup shown') : Blanks(planes', f) \cap thr'.valid = {}
    <3>1. \A f \in (thr.visible \cup {Custom}) \ (Doubtful \cup shown) : Blanks(planes, f) \cap thr.valid = {}
      BY <2>0 DEF Kept
    <3> QED  BY <1>0, <1>5, <1>6, <1>7, <1>10, <3>1
  <2> QED  BY <2>1, <2>2, <2>3 DEF Kept, Clean, Blanks
<1>12. PlaceInv'
  BY <1>0, <1>2, <1>4, <1>6, <1>7 DEF PictureInv, PlaceInv, ControlInv, PhaseInv, Wakeup, Starting
<1>13. TaskInv'
  <2>1. Shown' = Shown /\ Tasked' = Tasked
    BY <1>0, <1>6 DEF Shown, Tasked
  <2>2. \A f : Extent(f)' = Extent(f)
    BY <1>6 DEF Extent
  <2>3. \A f \in Tasked' \ Doubtful' : Blanks(planes', f) \subseteq Extent(f)'
    BY <1>0, <1>2, <1>5, <1>7, <1>10, <2>1, <2>2 DEF PictureInv, TaskInv
  <2>4. thr'.todo \cap Shown' \subseteq Tasked'
    BY <1>0, <1>2, <1>6, <2>1 DEF PictureInv, TaskInv
  <2> QED  BY <2>3, <2>4 DEF TaskInv, Blanks, Extent
<1>14. RestInv'
  BY <1>0, <1>2 DEF RestInv
<1> QED  BY <1>7, <1>9, <1>11, <1>12, <1>13, <1>14 DEF DrawingInv, PictureInv

LEMMA FinishTaskStep ==
  ASSUME DrawingInv, FinishTask
  PROVE  DrawingInv'
<1>0. /\ Types /\ ControlInv /\ PictureInv /\ job.current # None
      /\ planes' = Drawn(planes, job.current, Extent(job.current))
      /\ thr' = TaskFinished(thr, job.current)
      /\ job' = [job EXCEPT !.current = None]
      /\ UNCHANGED <<canvas, cache, pc, call, later, ended, missed, shown, halted, nested>>
  BY DEF FinishTask, DrawingInv
<1> DEFINE e == job.current
<1>1. job \in Jobs /\ planes \in Pictures /\ thr \in Threads
  BY <1>0 DEF Types, MainTypes
<1>2. e \in Entries /\ e \in Tasked /\ job.running /\ pc # "updating"
  BY <1>0, <1>1 DEF Jobs, Tasked, ControlInv, PhaseInv, NoJob, Starting
<1>3. /\ planes' \in Pictures /\ planes'.vp = planes.vp
      /\ Blanks(planes', e) = Blanks(planes, e) \ Extent(e)
      /\ \A f \in Entries \ {e} : Blanks(planes', f) = Blanks(planes, f)
      /\ \A f \in Entries : Clean(planes, f) => Clean(planes', f)
  BY <1>0, <1>1, <1>2, DrawnPicture
<1>4. \A f \in Entries : Blanks(planes', f) \subseteq Blanks(planes, f)
  BY <1>3
<1>5. /\ thr' \in Threads /\ thr'.vp = thr.vp /\ thr'.last = thr.last /\ thr'.valid = thr.valid
      /\ thr'.region = thr.region /\ thr'.todo = thr.todo \ {e}
      /\ thr'.visible = thr.visible /\ thr'.sentinel = thr.sentinel
  BY <1>0, <1>1, ThreadFields
<1>6. job' \in Jobs /\ job'.queue = job.queue /\ job'.current = None /\ job'.running = job.running
  BY <1>0, <1>1 DEF Jobs
<1>7. Tasked \subseteq Tasked' \cup {e} /\ Tasked' \subseteq Tasked
  BY <1>6 DEF Tasked
<1>8. e \notin Doubtful => Blanks(planes', e) = {}
  BY <1>0, <1>2, <1>3 DEF PictureInv, TaskInv
<1> HIDE DEF e
<1>9. (ControlInv /\ ImageInv)' /\ Doubtful' = Doubtful
  <2>1. /\ pc # "updating" /\ pc' \in {pc, Wakeup}
        /\ UNCHANGED <<canvas, cache, call, later, missed, shown, halted, nested>>
        /\ job.running /\ job'.running /\ ended' = ended /\ job'.running = job.running
        /\ thr'.vp = thr.vp /\ thr'.last = thr.last /\ thr'.visible = thr.visible
        /\ thr'.sentinel = thr.sentinel
    BY <1>0, <1>2, <1>5, <1>6
  <2> QED  BY <2>1, ControlKept
<1>10. Types'
  BY <1>0, <1>3, <1>5, <1>6 DEF Types, MainTypes, FlagTypes
<1>11. thr.visible \cup {Custom} \subseteq Entries /\ Tasked \subseteq Entries
  BY <1>1 DEF Threads, Entries, Tasked, Jobs
<1>12. Kept(thr, planes, Doubtful, shown)'
  <2>0. Kept(thr, planes, Doubtful, shown)
    BY <1>0 DEF PictureInv
  <2>1. \A f \in Entries \ Doubtful' : Clean(planes', f)
    BY <1>3, <1>9, <2>0 DEF Kept
  <2>2. \A f \in Entries \ (Doubtful' \cup thr'.todo) : Blanks(planes', f) = {}
    BY <1>4, <1>5, <1>8, <1>9, <2>0 DEF Kept
  <2>3. \A f \in (thr'.visible \cup {Custom}) \ (Doubtful' \cup shown') : Blanks(planes', f) \cap thr'.valid = {}
    <3>1. \A f \in (thr.visible \cup {Custom}) \ (Doubtful \cup shown) : Blanks(planes, f) \cap thr.valid = {}
      BY <2>0 DEF Kept
    <3> QED  BY <1>0, <1>4, <1>5, <1>9, <1>11, <3>1
  <2> QED  BY <2>1, <2>2, <2>3 DEF Kept, Clean, Blanks
<1>13. PlaceInv'
  BY <1>0, <1>2, <1>3, <1>5, <1>6, <1>9 DEF PictureInv, PlaceInv
<1>14. TaskInv'
  <2>1. Shown' = Shown
    BY <1>5 DEF Shown
  <2>2. \A f : Extent(f)' = Extent(f)
    BY <1>5 DEF Extent
  <2>3. \A f \in Tasked' \ Doubtful' : Blanks(planes', f) \subseteq Extent(f)'
    <3>1. \A f \in Tasked \ Doubtful : Blanks(planes, f) \subseteq Extent(f)
      BY <1>0, <1>2 DEF PictureInv, TaskInv
    <3> QED  BY <1>4, <1>7, <1>9, <1>11, <2>2, <3>1
  <2>4. thr'.todo \cap Shown' \subseteq Tasked'
    BY <1>0, <1>2, <1>5, <1>7, <2>1 DEF PictureInv, TaskInv
  <2> QED  BY <2>3, <2>4 DEF TaskInv, Blanks, Extent
<1>15. RestInv'
  BY <1>2, <1>6 DEF RestInv
<1> QED  BY <1>9, <1>10, <1>12, <1>13, <1>14, <1>15 DEF DrawingInv, PictureInv

\* Nothing is left to do: the tasks were all there was to be drawn.
LEMMA FinishedStep ==
  ASSUME DrawingInv, Finished
  PROVE  DrawingInv'
<1>0. /\ Types /\ ControlInv /\ PictureInv /\ job.running /\ job.queue = <<>> /\ job.current = None
      /\ job' = NoJob /\ pc' = Wakeup /\ ended' = TRUE
      /\ thr' = Woken([thr EXCEPT !.valid = Cells(thr.vp), !.stored = thr.vp.size])
      /\ UNCHANGED <<canvas, cache, planes, call, later, missed, shown, halted, nested>>
  BY DEF Finished, DrawingInv
<1>1. planes \in Pictures /\ thr \in Threads
  BY <1>0 DEF Types, MainTypes
<1>2. /\ thr' \in Threads /\ thr'.vp = thr.vp /\ thr'.last = thr.last /\ thr'.valid = Cells(thr.vp)
      /\ thr'.todo = thr.todo /\ thr'.visible = thr.visible /\ thr'.sentinel = thr.sentinel
  <2> DEFINE t == [thr EXCEPT !.valid = Cells(thr.vp), !.stored = thr.vp.size]
  <2>1. thr.vp.size \in Sizes /\ Cells(thr.vp) \in SUBSET AllCells
    BY <1>1 DEF Threads, Viewports, AllCells
  <2>2. /\ t \in Threads /\ t.vp = thr.vp /\ t.last = thr.last /\ t.valid = Cells(thr.vp)
        /\ t.todo = thr.todo /\ t.visible = thr.visible /\ t.sentinel = thr.sentinel
    BY <1>1, <2>1 DEF Threads
  <2>3. thr' = Woken(t)
    BY <1>0
  <2> HIDE DEF t
  <2> QED  BY <2>2, <2>3, ThreadFields
<1>3. pc # "updating" /\ job' \in Jobs /\ ~ job'.running
  BY <1>0, NoJobType DEF ControlInv, PhaseInv, Starting
<1>4. (ControlInv /\ ImageInv)' /\ Doubtful' = Doubtful
  <2>1. /\ pc # "updating" /\ pc' \in {pc, Wakeup}
        /\ UNCHANGED <<canvas, cache, call, later, missed, shown, halted, nested>>
        /\ job.running /\ ~ job'.running /\ job' = NoJob /\ ended' = TRUE
        /\ thr'.vp = thr.vp /\ thr'.last = thr.last /\ thr'.visible = thr.visible
        /\ thr'.sentinel = thr.sentinel
    BY <1>0, <1>2, <1>3
  <2> QED  BY <2>1, ControlKept
<1>5. pc' \in {"idle", "updating", "started", "waiting", "woken", "hung"}
  BY <1>0 DEF Types, MainTypes, Wakeup
<1>6. Types'
  BY <1>0, <1>2, <1>3, <1>5 DEF Types, MainTypes, FlagTypes
<1>7. \A e \in Shown \ Doubtful : Blanks(planes, e) = {}
  <2>1. Tasked = {}
    BY <1>0 DEF Tasked
  <2>2. \A e \in Shown : e \notin thr.todo
    BY <1>0, <2>1 DEF PictureInv, TaskInv
  <2>3. Shown \subseteq Entries
    BY <1>0, DoubtfulType
  <2> QED  BY <1>0, <2>2, <2>3 DEF PictureInv, Kept
<1>8. Shown' = Shown
  BY <1>2 DEF Shown
<1>9. Kept(thr, planes, Doubtful, shown)'
  <2>0. Kept(thr, planes, Doubtful, shown)
    BY <1>0 DEF PictureInv
  <2>1. \A f \in Entries \ Doubtful' : Clean(planes', f)
    BY <1>0, <1>4, <2>0 DEF Kept
  <2>2. \A f \in Entries \ (Doubtful' \cup thr'.todo) : Blanks(planes', f) = {}
    BY <1>0, <1>2, <1>4, <2>0 DEF Kept
  <2>3. \A f \in (thr'.visible \cup {Custom}) \ (Doubtful' \cup shown') : Blanks(planes', f) \cap thr'.valid = {}
    BY <1>0, <1>4, <1>7, <1>8 DEF Shown
  <2> QED  BY <2>1, <2>2, <2>3 DEF Kept, Clean, Blanks
<1>10. PlaceInv'
  <2>1. pc' # "updating"
    BY <1>0, <1>3 DEF Wakeup
  <2>2. Doubtful # Entries => planes.vp = thr.vp
    BY <1>0, <1>3 DEF PictureInv, PlaceInv
  <2> QED  BY <1>0, <1>2, <1>4, <2>1, <2>2 DEF PlaceInv, InPlace
<1>11. TaskInv'
  BY <1>3 DEF TaskInv
<1>12. RestInv'
  BY <1>0, <1>4, <1>7, <1>8 DEF RestInv, Blanks
<1> QED  BY <1>4, <1>6, <1>9, <1>10, <1>11, <1>12 DEF DrawingInv, PictureInv

-----------------------------------------------------------------------------
(* The invariant                                                           *)

LEMMA InitialTypes ==
  ASSUME Init
  PROVE  Types /\ thr.visible = canvas.visible /\ thr.last = thr.vp.at /\ Asked = Entries
         /\ ~ thr.sentinel /\ canvas.need /\ canvas.clearing /\ canvas.force
<1>1. PICK vp \in {v \in Viewports : v.at = 0} :
        /\ canvas = [need |-> TRUE, clearing |-> TRUE, force |-> TRUE, list |-> {},
                     vp |-> vp, visible |-> Layers]
        /\ thr = [vp |-> vp, last |-> vp.at, valid |-> {}, stored |-> 0, region |-> {},
                  todo |-> Entries, visible |-> Layers, initial |-> FALSE, sentinel |-> FALSE]
        /\ planes = Blank(vp)
  BY DEF Init
<1>2. vp \in Viewports /\ vp.at \in Int
  BY <1>1
<1>3. {} \in SUBSET Entries /\ {} \in SUBSET AllCells /\ {} \in SUBSET Layers
      /\ Layers \in SUBSET Layers /\ Entries \in SUBSET Entries
  OBVIOUS
<1>4. canvas \in Canvases
  BY <1>1, <1>2, <1>3 DEF Canvases
<1>5. thr \in Threads
  BY <1>1, <1>2, <1>3 DEF Threads
<1>6. planes \in Pictures
  BY <1>1, <1>2, BlankPicture
<1>7. call \in Calls
  BY <1>3 DEF Init, Calls
<1>8. job \in Jobs /\ cache \in Seq(Images)
  BY NoJobType, EmptySeq DEF Init
<1>9. pc = "idle" /\ FlagTypes
  BY <1>3 DEF Init, FlagTypes
<1>10. /\ thr.visible = canvas.visible /\ thr.last = thr.vp.at /\ ~ thr.sentinel
       /\ canvas.need /\ canvas.clearing /\ canvas.force
  BY <1>1
<1>11. Asked = Entries
  BY <1>10 DEF Asked
<1> QED  BY <1>4, <1>5, <1>6, <1>7, <1>8, <1>9, <1>10, <1>11 DEF Types, MainTypes

LEMMA InitDrawing == Init => DrawingInv
<1> SUFFICES ASSUME Init PROVE DrawingInv
  OBVIOUS
<1>1. /\ Types /\ thr.visible = canvas.visible /\ thr.last = thr.vp.at /\ Asked = Entries
      /\ ~ thr.sentinel /\ canvas.need /\ canvas.clearing /\ canvas.force
  BY InitialTypes
<1>2. /\ pc = "idle" /\ cache = <<>> /\ job = NoJob /\ ~ job.running
      /\ call.clear = FALSE /\ call.shift = FALSE
      /\ ended = FALSE /\ halted = FALSE /\ nested = FALSE /\ later = FALSE
  BY DEF Init, NoJob
<1>3. Agreement /\ PhaseInv /\ RequestInv /\ CallInv /\ UpdatingInv /\ ViewInv
  BY <1>1, <1>2 DEF Agreement, PhaseInv, RequestInv, CallInv, UpdatingInv, ViewInv, Stuck, Starting
<1>4. DOMAIN cache = {} /\ Len(cache) = 0 /\ Closed(cache) = {}
  BY <1>2, EmptySeq DEF Closed
<1>5. OpenInv /\ FinishedInv /\ ImageInv
  BY <1>2, <1>4, RedrawAssumption DEF OpenInv, FinishedInv, ImageInv
<1>6. Doubtful = Entries
  <2>1. missed = {}
    BY DEF Init
  <2> QED  BY <1>1, <1>2, <2>1 DEF Doubtful, Stuck
<1>7. thr.visible \cup {Custom} \subseteq Entries /\ Shown \subseteq Entries
  BY <1>1 DEF Types, MainTypes, Threads, Entries, Shown
<1>8. Kept(thr, planes, Doubtful, shown)
  BY <1>6, <1>7 DEF Kept
<1>9. PlaceInv /\ TaskInv /\ RestInv
  BY <1>2, <1>6, <1>7 DEF PlaceInv, TaskInv, RestInv
<1> QED  BY <1>1, <1>3, <1>5, <1>8, <1>9 DEF DrawingInv, ControlInv, PictureInv

LEMMA DrawingStutters == DrawingInv /\ UNCHANGED vars => DrawingInv'
<1> SUFFICES ASSUME DrawingInv, UNCHANGED vars PROVE DrawingInv'
  OBVIOUS
<1>0. /\ Types /\ ControlInv /\ PictureInv
      /\ UNCHANGED <<canvas, cache, thr, planes, job, pc, call, later, ended, missed, shown, halted, nested>>
  BY DEF DrawingInv, vars
<1>1. Types'
  BY <1>0 DEF Types, MainTypes, FlagTypes
<1>2. (Agreement /\ PhaseInv /\ RequestInv /\ CallInv /\ UpdatingInv /\ ViewInv /\ FinishedInv)'
  BY <1>0 DEF ControlInv, Agreement, PhaseInv, RequestInv, CallInv, UpdatingInv, ViewInv, FinishedInv,
              Stuck, Cells, Starting
<1>3. (OpenInv /\ ImageInv)'
  BY <1>0 DEF ControlInv, PictureInv, OpenInv, ImageInv, Closed, ServedBy, Complete
<1>4. Kept(thr, planes, Doubtful, shown)' /\ (PlaceInv /\ TaskInv /\ RestInv)'
  BY <1>0, SamePicture
<1> QED  BY <1>1, <1>2, <1>3, <1>4 DEF DrawingInv, ControlInv, PictureInv

LEMMA DrawingStep == DrawingInv /\ Next => DrawingInv'
<1> SUFFICES ASSUME DrawingInv, Next PROVE DrawingInv'
  OBVIOUS
<1>1. CASE Requests
  <2>1. ASSUME NEW e \in Entries, Edit(e) PROVE DrawingInv'
    BY <2>1, EditStep
  <2>2. ASSUME NEW vs \in SUBSET Layers, Show(vs) PROVE DrawingInv'
    BY <2>2, ShowStep
  <2>3. ASSUME NEW at \in 0 .. LastPos, Pan(at) PROVE DrawingInv'
    BY <2>3, PanStep
  <2>4. ASSUME NEW size \in Sizes, Resize(size) PROVE DrawingInv'
    BY <2>4, ResizeStep
  <2>5. ASSUME NEW size \in Sizes, NestedResize(size) PROVE DrawingInv'
    BY <2>5, NestedResizeStep
  <2>6. CASE ChangeLayout
    BY <2>6, ChangeLayoutStep
  <2>7. CASE StopRedraw
    BY <2>7, StopRedrawStep
  <2> QED  BY <1>1, <2>1, <2>2, <2>3, <2>4, <2>5, <2>6, <2>7 DEF Requests
<1>2. CASE NestedPaint
  BY <1>2, NestedPaintStep
<1>3. CASE MainThread
  <2>1. CASE RedrawLater
    BY <2>1, RedrawLaterStep
  <2>2. CASE EndOfDrawing
    BY <2>2, EndOfDrawingStep
  <2>3. CASE PaintFromCache
    BY <2>3, PaintFromCacheStep
  <2>4. CASE Paint
    BY <2>4, PaintStep
  <2>5. CASE PaintTurnedAway
    BY <2>5, PaintTurnedAwayStep
  <2>6. CASE PrepareFails
    BY <2>6, PrepareFailsStep
  <2>7. CASE StartDrawing
    BY <2>7, StartDrawingStep
  <2>8. CASE Return
    <3>1. pc \in {"started", "waiting", "woken"} /\ Leave
      BY <2>8 DEF Return, Returned
    <3> QED  BY <3>1, LeaveStep
  <2>9. CASE Wait
    BY <2>9, WaitStep
  <2>10. CASE Wake
    <3>1. pc \in {"started", "waiting", "woken"} /\ Leave
      BY <2>10 DEF Wake
    <3> QED  BY <3>1, LeaveStep
  <2> QED  BY <1>3, <2>1, <2>2, <2>3, <2>4, <2>5, <2>6, <2>7, <2>8, <2>9, <2>10 DEF MainThread
<1>4. CASE Snapshot
  BY <1>4, SnapshotStep
<1>5. CASE Worker
  <2>1. CASE TakeTask
    BY <2>1, TakeTaskStep
  <2>2. CASE FinishTask
    BY <2>2, FinishTaskStep
  <2>3. CASE Finished
    BY <2>3, FinishedStep
  <2> QED  BY <1>5, <2>1, <2>2, <2>3 DEF Worker
<1> QED  BY <1>1, <1>2, <1>3, <1>4, <1>5 DEF Next

\* The inductive invariant.
THEOREM DrawingInvariant == Spec => [](DrawingInv /\ workers \in {0, 1})
<1>1. Init => DrawingInv /\ workers \in {0, 1}
  BY InitDrawing, RedrawAssumption DEF Init
<1>2. /\ DrawingInv /\ workers \in {0, 1} /\ [Next /\ UNCHANGED workers]_<<vars, workers>>
      => (DrawingInv /\ workers \in {0, 1})'
  <2> SUFFICES ASSUME DrawingInv, workers \in {0, 1}, [Next /\ UNCHANGED workers]_<<vars, workers>>
               PROVE  DrawingInv' /\ workers' \in {0, 1}
    OBVIOUS
  <2>1. CASE Next /\ UNCHANGED workers
    BY <2>1, DrawingStep
  <2>2. CASE UNCHANGED <<vars, workers>>
    BY <2>2, DrawingStutters
  <2> QED  BY <2>1, <2>2
<1> QED  BY <1>1, <1>2, PTL DEF Spec

-----------------------------------------------------------------------------
(* What the runs check, for every value of the constants                   *)

\* Every variable keeps its type, no picture has a cell too many or too few,
\* and the cache keeps its size with at most one open entry, the newest
\* (layLayoutCanvas.cc:449-494).
THEOREM TypeCorrect == Spec => []TypeOK
<1>1. ASSUME NEW p \in Pictures PROVE IsPicture(p)
  BY PictureParts DEF IsPicture, Colours
<1>2. DrawingInv /\ workers \in {0, 1} => TypeOK
  <2> SUFFICES ASSUME DrawingInv, workers \in {0, 1} PROVE TypeOK
    OBVIOUS
  <2>1. Types /\ OpenInv
    BY DEF DrawingInv, ControlInv
  <2>2. canvas \in [need : BOOLEAN, clearing : BOOLEAN, force : BOOLEAN, list : SUBSET Entries,
                    vp : Viewports, visible : SUBSET Layers]
    BY <2>1 DEF Types, MainTypes, Canvases
  <2>3. \A k \in DOMAIN cache : cache[k].planes \in Pictures
    <3>1. \A k \in DOMAIN cache : cache[k] \in Images
      BY <2>1 DEF Types
    <3>2. \A i \in Images : i.planes \in Pictures
      BY DEF Images
    <3> QED  BY <3>1, <3>2
  <2>4. /\ thr.vp \in Viewports /\ thr.todo \subseteq Entries /\ thr.visible \subseteq Layers
        /\ thr.region \subseteq UNION {Cells(vp) : vp \in Viewports} /\ thr.stored \in Sizes \cup {0}
    BY <2>1 DEF Types, MainTypes, Threads, AllCells
  <2>5. job.current \in Entries \cup {None} /\ job.queue \in Seq(Entries)
    BY <2>1 DEF Types, Jobs
  <2> QED  BY <1>1, <2>1, <2>2, <2>3, <2>4, <2>5 DEF TypeOK, Types, MainTypes, OpenInv
<1> QED  BY <1>2, DrawingInvariant, PTL

LEMMA DoubtfulIsAsked ==
  ASSUME pc # "updating", ~ Stuck, ~ later
  PROVE  Doubtful \subseteq missed \cup Asked
BY DEF Doubtful

\* What is marked as drawn is complete in the whole picture, whatever drawing
\* was stopped, moved or restored since (layRedrawThread.cc:71-83, 290-301).
THEOREM MarkedIsDrawn == Spec => []MarkedMeansDrawn
<1>1. DrawingInv => MarkedMeansDrawn
  <2> SUFFICES ASSUME DrawingInv, pc # "updating", ~ Stuck, ~ later,
                      NEW e \in Entries \ (thr.todo \cup missed \cup Asked)
               PROVE  Good(planes, e)
    BY DEF MarkedMeansDrawn
  <2>1. e \in Entries \ (Doubtful \cup thr.todo)
    BY DoubtfulIsAsked
  <2>2. Clean(planes, e) /\ Blanks(planes, e) = {}
    BY <2>1 DEF DrawingInv, PictureInv, Kept
  <2>3. planes \in Pictures
    BY DEF DrawingInv, Types
  <2> QED  BY <2>2, <2>3, GoodIsNotBlank
<1> QED  BY <1>1, DrawingInvariant, PTL

\* What counts as valid, and may be moved with the view, is complete in every
\* layer shown (layRedrawThread.cc:365-374).
THEOREM ValidIsDrawn == Spec => []ValidMeansDrawn
<1>1. DrawingInv => ValidMeansDrawn
  <2> SUFFICES ASSUME DrawingInv, pc # "updating", ~ Stuck, ~ later,
                      NEW e \in (thr.visible \cup {Custom}) \ (missed \cup shown \cup Asked),
                      NEW c \in thr.valid \cap Cells(planes.vp)
               PROVE  planes.pix[e][c] = "good"
    BY DEF ValidMeansDrawn
  <2>1. Types
    BY DEF DrawingInv
  <2>2. e \in Entries \ Doubtful
    BY <2>1, DoubtfulIsAsked DEF Types, MainTypes, Threads, Entries
  <2>3. Clean(planes, e) /\ Blanks(planes, e) \cap thr.valid = {}
    BY <2>2 DEF DrawingInv, PictureInv, Kept
  <2>4. planes.pix[e] \in [Cells(planes.vp) -> Colours]
    BY <2>1, <2>2, PictureParts DEF Types
  <2>5. planes.pix[e][c] \in Colours
    BY <2>4
  <2> QED  BY <2>3, <2>5 DEF Clean, Blanks, Colours
<1> QED  BY <1>1, DrawingInvariant, PTL

\* A closed entry of the image cache is a complete picture of its viewport and
\* layers (layLayoutCanvas.cc:431-432, 1020-1042).
THEOREM CachedIsComplete == Spec => []CachedMeansComplete
<1>1. DrawingInv => CachedMeansComplete
  <2> SUFFICES ASSUME DrawingInv, ~ later, NEW k \in DOMAIN cache, ~ cache[k].open,
                      NEW e \in (cache[k].visible \cup {Custom}) \ cache[k].missed
               PROVE  cache[k].planes.vp = cache[k].vp /\ Good(cache[k].planes, e)
    BY DEF CachedMeansComplete
  <2>1. cache[k] \in Images
    BY DEF DrawingInv, Types
  <2>2. e \in Entries \ cache[k].missed /\ cache[k].planes \in Pictures
    BY <2>1 DEF Images, Entries
  <2>3. Complete(cache[k])
    BY DEF DrawingInv, PictureInv, ImageInv, Closed
  <2> QED  BY <2>2, <2>3, GoodIsNotBlank DEF Complete
<1> QED  BY <1>1, DrawingInvariant, PTL

\* When everything asked for has been drawn, the picture is that of the
\* current view and complete in all that is shown
\* (layRedrawThread.cc:135-189, layLayoutCanvas.cc:409-517).
THEOREM PictureIsComplete == Spec => []PictureComplete
<1>1. DrawingInv => PictureComplete
  <2> SUFFICES ASSUME DrawingInv, AtRest, ~ halted, ~ Stuck,
                      NEW e \in (canvas.visible \cup {Custom}) \ missed
               PROVE  planes.vp = canvas.vp /\ Good(planes, e)
    BY DEF PictureComplete
  <2>1. Types /\ Agreement /\ ViewInv /\ Kept(thr, planes, Doubtful, shown) /\ PlaceInv /\ RestInv
    BY DEF DrawingInv, ControlInv, PictureInv
  <2>2. Doubtful = missed
    BY DEF AtRest, Doubtful, Asked
  <2>3. e \in Shown \ missed /\ e \in Entries
    BY <2>1 DEF Shown, Agreement, Types, MainTypes, Canvases, Entries
  <2>4. Blanks(planes, e) = {} /\ Clean(planes, e)
    BY <2>1, <2>2, <2>3 DEF AtRest, RestInv, Kept
  <2>5. planes.vp = canvas.vp
    BY <2>1, <2>2, <2>3 DEF AtRest, ViewInv, PlaceInv, Starting
  <2> QED  BY <2>1, <2>3, <2>4, <2>5, GoodIsNotBlank DEF Types
<1> QED  BY <1>1, DrawingInvariant, PTL
=============================================================================
