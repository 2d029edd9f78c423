---------------------------- MODULE RickshawHover ----------------------------
(***************************************************************************)
(* Graph.HoverDetail: the point it shows beside the pointer.  It keeps the *)
(* last mousemove event and looks again, with that event, whenever the     *)
(* graph has been drawn.  How far away a point is counts for the choice    *)
(* among the series; the model lets any of them be the nearest.            *)
(***************************************************************************)
EXTENDS RickshawGraph

CONSTANTS
  GraphWidth,      \* in steps of the pointer
  PointerX         \* where the pointer may be, in these steps

ASSUME HoverConstants ==
  /\ GraphWidth \in Nat \ {0}
  /\ PointerX \subseteq 0 .. GraphWidth
  /\ Undefined \notin [x : PointerX, graphic : BOOLEAN]

VARIABLES
  visible,
  lastEvent,       \* the last mousemove: x, and whether its target is part of the drawing
  detail           \* the series and the point shown, or Undefined

hoverVars == <<visible, lastEvent, detail>>

HoverInit == visible = TRUE /\ lastEvent = Undefined /\ detail = Undefined

\* graph.x.invert, for the domain the graph was last drawn with.
Invert(x, slices) ==
  LET domain == Domain(slices)
  IN  domain.min + (x * (domain.max - domain.min)) \div GraphWidth

\* The candidate of each active series that has points to show.
Candidates(event, names, slices) ==
  {[series |-> names[i],
    point |-> slices[i][NearestIndex(slices[i], Invert(event.x, slices))]] :
     i \in NonEmpty(slices)}

\* Mutated form of Look: with no candidate the element is left as it is, and so it
\* is if the nearest point has no value.
LookUncleared(event) ==
  IF event = Undefined \/ failed' THEN UNCHANGED detail
  ELSE IF ~event.graphic THEN UNCHANGED detail ELSE
  LET candidates == Candidates(event, Active(series', disabled'), stackedData')
  IN  IF candidates = {} THEN UNCHANGED detail
      ELSE \E nearest \in candidates :
             detail' = IF visible' /\ nearest.point.y # "null" THEN nearest ELSE detail

\* HoverDetail.update and render, with the series and slices of the same step.  It
\* ends early without an event, and for one outside the drawing.  The slices of a
\* graph that could not be drawn are those of the last one that could; the walk
\* over the series then throws, or shows another series' points: it is not run.
Look(event) ==
  IF event = Undefined \/ failed' THEN UNCHANGED detail
  ELSE IF ~event.graphic THEN UNCHANGED detail ELSE
  LET candidates == Candidates(event, Active(series', disabled'), stackedData')
  IN  IF candidates = {} THEN UNCHANGED detail
      ELSE \E nearest \in candidates :
             detail' = IF visible' /\ nearest.point.y # "null" THEN nearest ELSE Undefined

\* The mousemove listener: it shows the element even where update ends early.
MouseMove(x, graphic) ==
  /\ visible' = TRUE
  /\ lastEvent' = [x |-> x, graphic |-> graphic]
  /\ Look(lastEvent')

\* The mouseout listener, for a pointer that has left the graph's element.
Hide ==
  /\ visible' = FALSE
  /\ detail' = Undefined
  /\ UNCHANGED lastEvent

\* The callback of onUpdate.
HoverUpdated ==
  /\ UNCHANGED <<visible, lastEvent>>
  /\ Look(lastEvent)
-----------------------------------------------------------------------------
\* The detail never outlives what it tells of: while the pointer is over the drawing
\* it is about a series that is switched on and a point of it as it is drawn now,
\* whatever rows, replies, clicks or drags came since the pointer last moved; and no
\* other point of the series is nearer, but to the right of the last point it may be
\* the one before it.  (When no series has a point in the window, nothing is looked
\* for.)
DetailIsNearest ==
  detail # Undefined /\ ~failed /\ lastEvent.graphic /\ NonEmpty(stackedData) # {} =>
    \E i \in NonEmpty(stackedData) :
      LET slice == stackedData[i]
          x == Invert(lastEvent.x, stackedData)
          Far(point) == IF point.x < x THEN x - point.x ELSE point.x - x
      IN  /\ Active(series, disabled)[i] = detail.series
          /\ detail.point \in ToSet(slice)
          /\ \/ \A point \in ToSet(slice) : Far(detail.point) <= Far(point)
             \/ Last(slice).x <= x /\ Len(slice) > 1 /\ detail.point = slice[Len(slice) - 1]
=============================================================================
