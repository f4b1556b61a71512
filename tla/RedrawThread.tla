---------------------------- MODULE RedrawThread ----------------------------
(***************************************************************************)
(* How the picture of a layout view is kept up to date: the redraw         *)
(* requests and the image cache of lay::LayoutCanvas, lay::RedrawThread,   *)
(* which decides what has to be drawn again, and the job that draws, one   *)
(* task per layer, on one worker (the default) or in the main thread.      *)
(*                                                                         *)
(* The plane is one-dimensional: a viewport shows `size' cells from cell   *)
(* `at' on.  A picture says for each cell it shows whether it is blank,    *)
(* good (complete and up to date) or stale (something old is left, on top  *)
(* of which nothing correct can be drawn).  A zoom is a change of size:    *)
(* RedrawThread::start treats both the same way.                           *)
(*                                                                         *)
(* A picture is drawn and marked in one step per task; the job is that of  *)
(* JobContract, with one announcement per run.                             *)
(***************************************************************************)
EXTENDS Integers, Sequences, FiniteSets, Subsequences

CONSTANTS
  NumLayers,    \* the entries of the layer list are 1 .. NumLayers
  LastPos,      \* the view moves over the positions 0 .. LastPos
  Sizes,        \* the sizes the view can have
  CacheSize,    \* m_image_cache_size
  Workers,      \* the numbers of drawing workers to consider: 0 and 1
  MaxRequests   \* bound on the number of requests

ASSUME RedrawAssumption ==
  /\ NumLayers \in Nat /\ LastPos \in Nat /\ Sizes \subseteq Nat \ {0}
  /\ CacheSize \in Nat /\ Workers \subseteq {0, 1} /\ MaxRequests \in Nat

VARIABLES
  workers,   \* the number of workers, fixed during a behaviour
  canvas,    \* LayoutCanvas: viewport, layers and the pending request
  cache,     \* m_image_cache
  thr,       \* the members of RedrawThread
  planes,    \* the bitmaps of the canvas: their viewport and what they show
  job,       \* tl::JobBase: queue, the worker's task, m_running
  pc,        \* where the main thread is in do_start
  call,      \* the arguments do_start was called with
  later,     \* dm_redraw of the view is pending
  ended,     \* m_do_end_of_drawing_dm is pending
  asked,     \* number of requests so far
  (* history *)
  missed,    \* entries a request for which was overtaken by another one
  shown,     \* layers made visible since the last paint
  halted,    \* the drawing was stopped and nothing was asked for instead
  nested     \* a resize inside of do_start was not followed by a paint there

vars == <<canvas, cache, thr, planes, job, pc, call, later, ended, asked,
          missed, shown, halted, nested>>

Layers  == 1 .. NumLayers
Custom  == 0                      \* draw_custom_queue_entry
Entries == Layers \cup {Custom}
None    == -1

Viewports == [at : 0 .. LastPos, size : Sizes]
Cells(vp) == vp.at .. vp.at + vp.size - 1

Blank(vp) == [vp |-> vp, pix |-> [e \in Entries |-> [c \in Cells(vp) |-> "blank"]]]
NoJob     == [queue |-> <<>>, current |-> None, running |-> FALSE]

Init ==
  /\ workers \in Workers
  /\ \E vp \in {v \in Viewports : v.at = 0} :
       /\ canvas = [need |-> TRUE, clearing |-> TRUE, force |-> TRUE, list |-> {},
                    vp |-> vp, visible |-> Layers]
       /\ thr = [vp |-> vp, last |-> vp.at, valid |-> {}, stored |-> 0, region |-> {},
                 todo |-> Entries, visible |-> Layers, initial |-> FALSE, sentinel |-> FALSE]
       /\ planes = Blank(vp)
  /\ cache = <<>> /\ job = NoJob /\ pc = "idle"
  /\ call = [clear |-> FALSE, shift |-> FALSE, by |-> 0, list |-> {}]
  /\ later = FALSE /\ ended = FALSE /\ asked = 0
  /\ missed = {} /\ shown = {} /\ halted = FALSE /\ nested = FALSE

-----------------------------------------------------------------------------
(* Pictures *)

\* The worker draws entry e in some cells: what is blank becomes good.
Drawn(p, e, cells) ==
  [p EXCEPT !.pix[e] = [c \in DOMAIN @ |-> IF c \in cells /\ @[c] = "blank" THEN "good" ELSE @[c]]]

\* The content of entries changes below a picture.
Outdated(p, es) ==
  [p EXCEPT !.pix = [e \in Entries |->
     IF e \in es THEN [c \in DOMAIN @[e] |-> IF @[e][c] = "good" THEN "stale" ELSE @[e][c]] ELSE @[e]]]

\* shift_bitmap: the bitmaps move by `by' pixels and count for vp from now on.
Shifted(p, vp, by) ==
  LET src(c) == c - vp.at + p.vp.at + by
      new(f, c) == IF src(c) \notin DOMAIN f THEN "blank"
                   ELSE IF src(c) = c \/ f[src(c)] = "blank" THEN f[src(c)] ELSE "stale"
  IN  [vp |-> vp, pix |-> [e \in Entries |-> [c \in Cells(vp) |-> new(p.pix[e], c)]]]

\* The planes of some entries are cleared (a fault: they are not).
Cleared_Not(p, es) == p
Cleared(p, es) ==
  [p EXCEPT !.pix = [e \in Entries |-> IF e \in es THEN [c \in DOMAIN @[e] |-> "blank"] ELSE @[e]]]

-----------------------------------------------------------------------------
(* Stopping the job *)

\* wakeup: ends the first wait of do_start.
Woken(t) == [t EXCEPT !.initial = FALSE]

TaskFinished(t, e) == [t EXCEPT !.todo = @ \ {e}]

\* stopped: only what was valid before and is still in the view counts.
Stopped_All(t) == Woken([t EXCEPT !.stored = t.vp.size])   \* a fault
Stopped(t) == Woken([t EXCEPT !.stored = t.vp.size, !.valid = @ \cap Cells(t.vp)])

\* What a task draws: the decorations are always painted as a whole.
Extent(e) == IF e = Custom THEN Cells(thr.vp) ELSE thr.region

\* stop: the queue is emptied; the task under way is aborted, or done before
\* it sees the request.
StopOutcomes ==
  LET out(t, p) == [thr |-> Stopped(t), planes |-> p, ended |-> TRUE]
  IN  IF ~ job.running THEN {[thr |-> thr, planes |-> planes, ended |-> ended]}
      ELSE {out(thr, planes)} \cup
           {out(TaskFinished(thr, e), Drawn(planes, e, Extent(e))) : e \in {job.current} \ {None}}

-----------------------------------------------------------------------------
(* The requests of the canvas, made by the main thread between paints *)

DiscardOpen(c) == Part(c, {k \in DOMAIN c : ~ c[k].open})

RedrawAll(c, force) ==
  [c EXCEPT !.need = TRUE, !.clearing = TRUE, !.force = @ \/ force,
            !.list = IF c.need THEN @ ELSE {}]

RedrawSelected(c, es) ==
  [c EXCEPT !.need = TRUE, !.clearing = c.need /\ @, !.force = TRUE,
            !.list = IF c.need THEN @ \cup es ELSE es]

ChangeVisibility(c, vs) ==
  [c EXCEPT !.need = TRUE, !.clearing = c.need /\ @, !.list = {}, !.visible = vs]

Request ==
  /\ pc = "idle" /\ asked < MaxRequests
  /\ asked' = asked + 1 /\ job' = NoJob
  /\ UNCHANGED <<pc, call, nested>>

\* Shapes of a layer, or rulers, are changed: layout_changed stops the
\* drawing, the view asks for the layer.
Edit(e) ==
  /\ Request
  /\ \E s \in StopOutcomes :
       thr' = s.thr /\ planes' = Outdated(s.planes, {e}) /\ ended' = s.ended
  /\ canvas' = RedrawSelected(canvas, {e}) /\ cache' = <<>>
  /\ UNCHANGED <<later, missed, shown, halted>>

\* The list of asked layers is given up if it was not drawn yet.
Show(vs) ==
  /\ Request
  /\ \E s \in StopOutcomes :
       thr' = [s.thr EXCEPT !.visible = vs] /\ planes' = s.planes /\ ended' = s.ended
  /\ canvas' = ChangeVisibility(canvas, vs) /\ cache' = DiscardOpen(cache)
  /\ missed' = IF canvas.need /\ ~ canvas.clearing THEN missed \cup canvas.list ELSE missed
  /\ shown' = shown \cup (vs \ canvas.visible)
  /\ UNCHANGED <<later, halted>>

Pan(at) ==
  /\ Request
  /\ \E s \in StopOutcomes : thr' = s.thr /\ planes' = s.planes /\ ended' = s.ended
  /\ canvas' = [RedrawAll(canvas, FALSE) EXCEPT !.vp.at = at] /\ cache' = DiscardOpen(cache)
  /\ UNCHANGED <<later, missed, shown, halted>>

Resize(size) ==
  /\ Request /\ size # canvas.vp.size
  /\ \E s \in StopOutcomes : thr' = s.thr /\ planes' = s.planes /\ ended' = s.ended
  /\ canvas' = [RedrawAll(canvas, TRUE) EXCEPT !.vp.size = size] /\ cache' = <<>>
  /\ UNCHANGED <<later, missed, shown, halted>>

\* The layout changes as a whole: the drawing is stopped at once, the open
\* cache entry stays, and the view asks for a redraw by a deferred call.
ChangeLayout ==
  /\ Request
  /\ \E s \in StopOutcomes :
       thr' = s.thr /\ planes' = Outdated(s.planes, Entries) /\ ended' = s.ended
  /\ cache' = [i \in DOMAIN cache |-> [cache[i] EXCEPT !.planes = Outdated(@, Entries)]]
  /\ later' = TRUE
  /\ UNCHANGED <<canvas, missed, shown, halted>>

\* LayoutViewBase::stop_redraw, when the user begins to drag a zoom box: it
\* takes back the deferred redraw, and nothing is asked for instead.
StopRedraw ==
  /\ Request
  /\ \E s \in StopOutcomes : thr' = s.thr /\ planes' = s.planes /\ ended' = s.ended
  /\ cache' = [i \in DOMAIN DiscardOpen(cache) |->
                 [DiscardOpen(cache)[i] EXCEPT !.missed = IF later THEN Entries ELSE @]]
  /\ missed' = IF later THEN Entries ELSE missed
  /\ halted' = TRUE /\ later' = FALSE
  /\ UNCHANGED <<canvas, shown>>

-----------------------------------------------------------------------------
(* Deferred calls *)

\* dm_redraw: redraw_new with the layers of the view.
RedrawLater ==
  /\ pc = "idle" /\ later /\ later' = FALSE
  /\ \E s \in StopOutcomes : thr' = s.thr /\ planes' = s.planes /\ ended' = s.ended
  /\ job' = NoJob /\ cache' = <<>> /\ canvas' = RedrawAll(canvas, TRUE)
  /\ UNCHANGED <<pc, call, asked, missed, shown, halted, nested>>

\* An entry can serve if it shows this viewport and at least these layers.
ServedBy(i) == i.vp = canvas.vp /\ canvas.visible \subseteq i.visible

\* do_end_of_drawing: the open entry gets the picture.
EndOfDrawing ==
  /\ pc = "idle" /\ ended /\ ended' = FALSE
  /\ LET kept == Part(cache, {k \in DOMAIN cache : cache[k].open => ServedBy(cache[k])})
     IN  cache' = IF \E k \in DOMAIN kept : kept[k].open
                  THEN [kept EXCEPT ![Len(kept)] =
                          [@ EXCEPT !.open = FALSE, !.planes = planes, !.missed = missed]]
                  ELSE kept
  /\ UNCHANGED <<canvas, thr, planes, job, pc, call, later, asked, missed, shown, halted, nested>>

-----------------------------------------------------------------------------
(* A paint: prepare_drawing *)

Restorable(i) == ~ i.open /\ ServedBy(i) /\ i.planes.vp.size = planes.vp.size
Hit == \E k \in DOMAIN cache : Restorable(cache[k])

PrepareEnd(c) == [c EXCEPT !.need = FALSE, !.force = FALSE]

\* The main thread has left do_start by an exception of prepare: the sentinel
\* is still set, and the mutex that prepare had locked is still locked.
Stuck == pc \in {"idle", "hung"} /\ thr.sentinel

\* The end of a paint: to_image locks the mutex of the canvas for each line.
ToImage == IF Stuck THEN "hung" ELSE "idle"

\* commit and restore_data: the picture is there already.
PaintFromCache ==
  /\ pc = "idle" /\ canvas.need /\ Hit
  /\ LET k == CHOOSE j \in DOMAIN cache :
                Restorable(cache[j]) /\ \A h \in 1 .. j - 1 : ~ Restorable(cache[h])
     IN  /\ cache' = Append(Part(cache, DOMAIN cache \ {k}), cache[k])
         /\ planes' = cache[k].planes
         /\ missed' = cache[k].missed
  /\ thr' = [thr EXCEPT !.vp = canvas.vp, !.last = canvas.vp.at, !.valid = Cells(canvas.vp),
                        !.stored = canvas.vp.size, !.visible = canvas.visible,
                        !.todo = Entries \ canvas.visible]
  /\ canvas' = PrepareEnd(canvas) /\ ended' = FALSE /\ pc' = ToImage
  /\ shown' = {} /\ halted' = FALSE
  /\ UNCHANGED <<job, call, later, asked, nested>>

\* Open entries and those for this view are dropped, old ones retired, and
\* one for the new picture is opened.
OpenEntry == [open |-> TRUE, vp |-> canvas.vp, visible |-> canvas.visible,
              planes |-> planes, missed |-> {}]
NewCache_Full == Append(DiscardOpen(cache), OpenEntry)      \* a fault
NewCache ==
  LET kept == Part(cache, {k \in DOMAIN cache : ~ cache[k].open /\ ~ ServedBy(cache[k])})
      some == CacheSize - 1
  IN  IF CacheSize = 0 THEN <<>>
      ELSE Append(SubSeq(kept, IF Len(kept) > some THEN Len(kept) - some + 1 ELSE 1, Len(kept)),
                  OpenEntry)

\* start: the old picture can be moved and only the rest drawn.
CanShift ==
  ~ canvas.force /\ thr.valid \cap Cells(canvas.vp) # {} /\ canvas.vp.size = thr.stored

Prepared ==
  LET t == [thr EXCEPT !.initial = TRUE, !.sentinel = TRUE]
  IN  IF canvas.clearing
      THEN IF CanShift
           THEN [t EXCEPT !.vp = canvas.vp, !.last = canvas.vp.at,
                          !.region = Cells(canvas.vp) \ thr.valid]
           ELSE [t EXCEPT !.vp = canvas.vp, !.last = canvas.vp.at,
                          !.region = Cells(canvas.vp), !.valid = {}, !.stored = 0]
      ELSE [t EXCEPT !.region = Cells(t.vp), !.valid = {}, !.stored = 0]

\* What is missed after this paint has been drawn.
MissedAfter ==
  CASE canvas.clearing /\ CanShift                    -> missed \cup shown
    [] canvas.clearing /\ ~ CanShift                  -> {}
    [] ~ canvas.clearing /\ thr.vp = canvas.vp        -> missed \ canvas.list
    [] OTHER                                          -> missed

CancelEnd_Not == ended                                      \* a fault
CancelEnd == FALSE

\* start or restart up to Layout::update in do_start.
Paint ==
  /\ pc = "idle" /\ canvas.need /\ ~ Hit /\ ~ thr.sentinel
  /\ ended' = CancelEnd /\ cache' = NewCache /\ thr' = Prepared
  /\ pc' = "updating"
  /\ call' = [clear |-> canvas.clearing, shift |-> canvas.clearing /\ CanShift,
              by |-> IF canvas.clearing THEN canvas.vp.at - thr.last ELSE 0,
              list |-> IF canvas.clearing THEN {} ELSE canvas.list]
  /\ missed' = MissedAfter /\ shown' = {} /\ halted' = FALSE
  /\ UNCHANGED <<canvas, planes, job, later, asked, nested>>

\* After PrepareFails the sentinel turns a start away for good, and to_image
\* waits for a mutex that its own thread holds.
PaintTurnedAway ==
  /\ pc = "idle" /\ canvas.need /\ ~ Hit /\ thr.sentinel
  /\ ended' = CancelEnd /\ cache' = NewCache /\ thr' = Prepared
  /\ canvas' = PrepareEnd(canvas) /\ pc' = ToImage
  /\ UNCHANGED <<planes, job, call, later, asked, missed, shown, halted, nested>>

-----------------------------------------------------------------------------
(* Layout::update in do_start shows its progress and processes events; user *)
(* input and deferred calls are held back, paints and resizes are not.      *)

NestedPaint ==
  /\ pc = "updating" /\ canvas.need /\ ~ Hit
  /\ ended' = CancelEnd /\ cache' = NewCache /\ thr' = Prepared
  /\ canvas' = PrepareEnd(canvas) /\ nested' = FALSE
  /\ UNCHANGED <<planes, job, pc, call, later, asked, missed, shown, halted>>

NestedResize(size) ==
  /\ pc = "updating" /\ asked < MaxRequests /\ size # canvas.vp.size
  /\ asked' = asked + 1 /\ nested' = TRUE
  /\ canvas' = [RedrawAll(canvas, TRUE) EXCEPT !.vp.size = size] /\ cache' = <<>>
  /\ UNCHANGED <<thr, planes, job, pc, call, later, ended, missed, shown, halted>>

-----------------------------------------------------------------------------
(* The rest of do_start *)

Resizes == call.clear /\ ~ call.shift        \* prepare makes new bitmaps
Fits    == Resizes \/ thr.vp.size = planes.vp.size

\* tl_assert in BitmapRedrawThreadCanvas::prepare: do_start ends without
\* resetting the sentinel, prepare without unlocking the mutex.  See Stuck.
PrepareFails ==
  /\ pc = "updating" /\ ~ Fits /\ pc' = "idle"
  /\ UNCHANGED <<canvas, cache, thr, planes, job, call, later, ended, asked, missed, shown, halted, nested>>

\* The layers are those of the canvas, and so is the list of restart: it is
\* passed by reference, and may have lost entries since.
Todo_Kept == IF call.clear THEN Entries ELSE thr.todo       \* a fault
Todo == IF call.clear THEN Entries ELSE thr.todo \cup canvas.list

Visible == IF call.clear THEN canvas.visible ELSE thr.visible

Tasks ==
  (IF Custom \in Todo THEN <<Custom>> ELSE <<>>) \o
  Part([l \in Layers |-> l], Visible \cap Todo)

StartDrawing ==
  /\ pc = "updating" /\ Fits
  /\ planes' = CASE Resizes       -> Blank(thr.vp)
                 [] call.shift    -> Shifted(planes, thr.vp, call.by)
                 [] ~ call.clear  -> Cleared(Shifted(planes, thr.vp, 0), canvas.list)
  /\ thr' = [thr EXCEPT !.initial = TRUE, !.todo = Todo, !.visible = Visible]
  /\ job' = [queue |-> Tasks, current |-> None, running |-> TRUE]
  /\ pc' = "started"
  /\ missed' = missed \cup (call.list \ canvas.list)
  /\ UNCHANGED <<canvas, cache, call, later, ended, asked, shown, halted, nested>>

\* do_start returns, and prepare_drawing with it: the request counts as done.
Leave ==
  /\ pc' = "idle"
  /\ thr' = [thr EXCEPT !.initial = FALSE, !.sentinel = FALSE]
  /\ canvas' = PrepareEnd(canvas)
  /\ missed' = IF nested THEN Entries ELSE missed
  /\ nested' = FALSE
  /\ UNCHANGED <<cache, planes, job, call, later, ended, asked, shown, halted>>

\* Without workers, start () returns when everything is drawn.
Returned == pc = "started" /\ (workers = 0 => ~ job.running)
MustWait_Always == call.clear                               \* a fault
MustWait == thr.initial /\ call.clear

Return == Returned /\ ~ MustWait /\ Leave
Wait ==
  /\ Returned /\ MustWait /\ pc' = "waiting"
  /\ UNCHANGED <<canvas, cache, thr, planes, job, call, later, ended, asked, missed, shown, halted, nested>>
Wake == pc = "woken" /\ Leave

-----------------------------------------------------------------------------
(* The worker *)

Wakeup == IF thr.initial /\ pc = "waiting" THEN "woken" ELSE pc

TakeTask ==
  /\ job.current = None /\ job.queue # <<>>
  /\ job' = [job EXCEPT !.queue = Tail(@), !.current = Head(job.queue)]
  /\ UNCHANGED <<canvas, cache, thr, planes, pc, call, later, ended, asked, missed, shown, halted, nested>>

\* test_snapshot: what is drawn so far is handed over (not the decorations).
Snapshot ==
  /\ job.current \in Layers /\ workers > 0
  /\ \E part \in SUBSET thr.region : planes' = Drawn(planes, job.current, part)
  /\ thr' = Woken(thr) /\ pc' = Wakeup
  /\ UNCHANGED <<canvas, cache, job, call, later, ended, asked, missed, shown, halted, nested>>

FinishTask ==
  /\ job.current # None
  /\ planes' = Drawn(planes, job.current, Extent(job.current))
  /\ thr' = TaskFinished(thr, job.current)
  /\ job' = [job EXCEPT !.current = None]
  /\ UNCHANGED <<canvas, cache, pc, call, later, ended, asked, missed, shown, halted, nested>>

\* finished, called when nothing is left to do.
Finished ==
  /\ job.running /\ job.queue = <<>> /\ job.current = None
  /\ job' = NoJob
  /\ thr' = Woken([thr EXCEPT !.valid = Cells(thr.vp), !.stored = thr.vp.size])
  /\ pc' = Wakeup /\ ended' = TRUE
  /\ UNCHANGED <<canvas, cache, planes, call, later, asked, missed, shown, halted, nested>>

-----------------------------------------------------------------------------

Requests ==
  \/ \E e \in Entries : Edit(e)
  \/ \E vs \in SUBSET Layers : Show(vs)
  \/ \E at \in 0 .. LastPos : Pan(at)
  \/ \E size \in Sizes : Resize(size) \/ NestedResize(size)
  \/ ChangeLayout
  \/ StopRedraw

MainThread ==
  RedrawLater \/ EndOfDrawing \/ PaintFromCache \/ Paint \/ PaintTurnedAway
    \/ PrepareFails \/ StartDrawing \/ Return \/ Wait \/ Wake

Worker == TakeTask \/ FinishTask \/ Finished

Next == Requests \/ NestedPaint \/ MainThread \/ Snapshot \/ Worker

Spec == Init /\ [][Next /\ UNCHANGED workers]_<<vars, workers>>

\* The event loop delivers paints and deferred calls, do_start goes on, and
\* the worker gets its turn; nobody has to ask for anything.
FairSpec == Spec /\ WF_vars(MainThread /\ UNCHANGED workers) /\ WF_vars(Worker /\ UNCHANGED workers)

-----------------------------------------------------------------------------
(* Properties *)

IsPicture(p) ==
  /\ p.vp \in Viewports
  /\ DOMAIN p.pix = Entries
  /\ \A e \in Entries : p.pix[e] \in [Cells(p.vp) -> {"blank", "good", "stale"}]

\* Every variable keeps its type; the cache never exceeds its size and has at
\* most one open entry, the newest (layLayoutCanvas.cc:449-494).
TypeOK ==
  /\ workers \in {0, 1}
  /\ canvas \in [need : BOOLEAN, clearing : BOOLEAN, force : BOOLEAN, list : SUBSET Entries,
                 vp : Viewports, visible : SUBSET Layers]
  /\ Len(cache) <= CacheSize
  /\ \A k \in DOMAIN cache : IsPicture(cache[k].planes) /\ (cache[k].open => k = Len(cache))
  /\ IsPicture(planes)
  /\ thr.vp \in Viewports /\ thr.todo \subseteq Entries /\ thr.visible \subseteq Layers
  /\ thr.region \subseteq UNION {Cells(vp) : vp \in Viewports} /\ thr.stored \in Sizes \cup {0}
  /\ job.current \in Entries \cup {None} /\ job.queue \in Seq(Entries)
  /\ pc \in {"idle", "updating", "started", "waiting", "woken", "hung"}

\* Nothing is asked for and nothing is being drawn.
AtRest == pc = "idle" /\ ~ canvas.need /\ ~ job.running /\ ~ later

Good(p, e) == \A c \in Cells(p.vp) : p.pix[e][c] = "good"

\* The entries the pending request will draw from scratch.
Asked == CASE canvas.need /\ canvas.clearing /\ canvas.force     -> Entries
           [] canvas.need /\ ~ (canvas.clearing /\ canvas.force) -> canvas.list
           [] ~ canvas.need                                      -> {}

\* When everything asked for has been drawn, each visible layer and the
\* decorations are complete and up to date in the current viewport, whatever
\* was interrupted, moved or taken from the cache on the way; excepted are
\* entries whose request another one has overtaken, see `missed'
\* (layRedrawThread.cc:135-189, layLayoutCanvas.cc:409-517).
PictureComplete ==
  AtRest /\ ~ halted /\ ~ Stuck =>
    \A e \in (canvas.visible \cup {Custom}) \ missed : planes.vp = canvas.vp /\ Good(planes, e)

\* What counts as valid may be moved without being drawn again: it is
\* complete in every visible layer, also when a drawing of the remaining
\* strips was stopped half-way (layRedrawThread.cc:365-374).
ValidMeansDrawn ==
  pc # "updating" /\ ~ Stuck /\ ~ later =>
    \A e \in (thr.visible \cup {Custom}) \ (missed \cup shown \cup Asked) :
      \A c \in thr.valid \cap Cells(planes.vp) : planes.pix[e][c] = "good"

\* An entry marked as drawn is not drawn again until asked for: it is complete
\* in all of the picture, visible or not (layRedrawThread.cc:71-83, 290-301).
MarkedMeansDrawn ==
  pc # "updating" /\ ~ Stuck /\ ~ later =>
    \A e \in Entries \ (thr.todo \cup missed \cup Asked) : Good(planes, e)

\* A closed cache entry is a complete picture of its viewport and layers: no
\* end-of-drawing call of a stopped drawing closes the entry of the next one
\* (layLayoutCanvas.cc:431-432, 1020-1042).
CachedMeansComplete ==
  ~ later => \A k \in DOMAIN cache : ~ cache[k].open =>
    \A e \in (cache[k].visible \cup {Custom}) \ cache[k].missed :
      cache[k].planes.vp = cache[k].vp /\ Good(cache[k].planes, e)

\* Once nobody asks for anything more, all requests are served and the main
\* thread is back in its event loop: the first wait of do_start ends whenever
\* the drawing ends, also before the wait has begun (layRedrawThread.cc:332-339).
\* Excepted is a failed prepare (layRedrawThreadCanvas.cc:253-255, 276-277), after
\* which the next paint does hang.
ComesToRest == <>[](Stuck \/ (AtRest /\ ~ ended))

\* "Issue a redraw request on selected layers" (layLayoutCanvas.h:246): another
\* request made before the paint adds to this one, and takes nothing away.
RequestsAddUp ==
  [][pc = "idle" /\ canvas.need /\ canvas'.need => Asked \subseteq Asked']_vars

=============================================================================
