---------------------------- MODULE RickshawRange ----------------------------
(***************************************************************************)
(* The two ways of choosing the window a graph shows: the preview with the *)
(* frame that can be dragged (RangeSlider.Preview), and the plain slider   *)
(* (RangeSlider).  The frame is in pixels, the window in units of time,    *)
(* and the domain that relates them moves on with the data, also while the *)
(* user drags.                                                             *)
(*                                                                         *)
(* The right edge of a frame can lie between two pixels, so all lengths    *)
(* here are counted in grains, of which a pixel has so many.               *)
(***************************************************************************)
EXTENDS RickshawGraph

CONSTANTS
  Grain,               \* the grains of a pixel
  PreviewWidths,       \* the widths the preview can have, whole pixels
  MinimumFrameWidth,   \* of the preview's configuration, whole pixels
  Distances            \* how far one drag may have come

\* A grain is a whole number of units of time: the code's times are not rounded.  And
\* a frame that may not be narrower than so much has a preview of one width; at the
\* edge it would not fit a narrower one.
ASSUME RangeConstants ==
  /\ Grain \in Nat \ {0}
  /\ PreviewWidths \subseteq Nat \ {0}
  /\ MinimumFrameWidth \in Nat
  /\ \A length \in PreviewWidths \cup {MinimumFrameWidth} : length % Grain = 0
  /\ Distances \subseteq Int
  /\ \A width \in PreviewWidths :
       /\ TimeInterval % width = 0
       /\ MinimumFrameWidth <= width
       /\ MinimumFrameWidth = 0 \/ PreviewWidths = {width}

VARIABLES
  previewWidth,
  frame,           \* currentFrame: left and right
  drag,            \* Undefined, or which edges move, whether rigidly, and from
                   \* which frame
  slider           \* the two values of the plain slider, and whether the graph has
                   \* refused the last ones (history)

rangeVars == <<previewWidth, frame, drag, slider>>

Sides == {"left", "right", "middle"}

\* Graph.dataDomain: of all series, drawn or not.
DataDomain(names, points) ==
  [min |-> Min({points[name][1].x : name \in ToSet(names)}),
   max |-> Max({Last(points[name]).x : name \in ToSet(names)})]

\* domainScale: from grains to time, its inverse, and that rounded to a pixel.
TimeAt(grains, domain, width) ==
  domain.min + (grains * (domain.max - domain.min)) \div width
GrainAt(time, domain, width) ==
  ((time - domain.min) * width) \div (domain.max - domain.min)
PixelNextTo(time, domain, width) ==
  Grain * ((2 * (time - domain.min) * width + Grain * (domain.max - domain.min))
             \div (2 * Grain * (domain.max - domain.min)))

\* Preview.render: the frame for a window, of which only the left edge is rounded to a
\* pixel.  A window the data has moved away from leaves the least frame, at the left
\* edge of the preview.
FrameFor(win, domain, width) ==
  LET left == IF win.xMin = Undefined THEN 0
              ELSE Max({0, PixelNextTo(win.xMin, domain, width)})
      right == IF win.xMax = Undefined THEN width ELSE GrainAt(win.xMax, domain, width)
  IN  [left |-> left, right |-> Max({right, left + MinimumFrameWidth})]

RangeInit ==
  /\ previewWidth \in PreviewWidths
  /\ frame = [left |-> 0, right |-> previewWidth]
  /\ drag = Undefined
  /\ slider = [low |-> DataDomain(series, data).min, high |-> DataDomain(series, data).max,
               refused |-> FALSE]

\* The preview's callback of onUpdate.
PreviewUpdated ==
  /\ frame' = FrameFor(window', DataDomain(series', data'), previewWidth)
  /\ UNCHANGED <<previewWidth, drag, slider>>
-----------------------------------------------------------------------------
\* onMousedownLeftHandle, -RightHandle and -MiddleHandle.
MouseDown(side) ==
  /\ drag = Undefined
  /\ drag' = [left |-> side # "right", right |-> side # "left", rigid |-> side = "middle",
              before |-> frame]
  /\ UNCHANGED <<graphVars, previewWidth, frame, slider>>

\* Mutated form of FrameAfter: a rigid frame is cut at the edges.
FrameAfterCut(distance) ==
  LET left == IF drag.left THEN Max({drag.before.left + distance, 0}) ELSE drag.before.left
      right == IF drag.right THEN Min({drag.before.right + distance, previewWidth})
               ELSE drag.before.right
  IN  [left |-> left, right |-> Max({left, right})]

\* onMousemove: the edges that move, each up to the border; a frame too narrow by
\* that is widened again, from the right edge if the left one moves, and pushed back
\* inside.
FrameAfter(distance) ==
  LET least == IF drag.rigid THEN drag.before.right - drag.before.left
               ELSE MinimumFrameWidth
      left == IF drag.left THEN Max({drag.before.left + distance, 0}) ELSE drag.before.left
      right == IF drag.right THEN Min({drag.before.right + distance, previewWidth})
               ELSE drag.before.right
      wideLeft == IF drag.left THEN right - least ELSE left
      wideRight == IF drag.right THEN wideLeft + least ELSE right
      inLeft == Max({wideLeft, 0})
      inRight == IF wideLeft <= 0 THEN wideRight - wideLeft ELSE wideRight
  IN  IF right - left > least THEN [left |-> left, right |-> right]
      ELSE IF inRight >= previewWidth
           THEN [left |-> inLeft - (inRight - previewWidth), right |-> previewWidth]
           ELSE [left |-> inLeft, right |-> inRight]

\* Mutated form of DragTo: an edge at the border is as fixed as any other.
DragToFixed(distance) ==
  LET after == FrameAfter(distance)
      domain == DataDomain(series, data)
  IN  window' = [xMin |-> TimeAt(after.left, domain, previewWidth),
                 xMax |-> TimeAt(after.right, domain, previewWidth)]

\* onMousemove: the window for the frame; an edge at the border is left open.  The
\* document hears the mouse wherever it is; the frame follows when the graph is drawn.
DragTo(distance) ==
  LET after == FrameAfter(distance)
      domain == DataDomain(series, data)
  IN  window' = [xMin |-> IF after.left = 0 THEN Undefined
                          ELSE TimeAt(after.left, domain, previewWidth),
                 xMax |-> IF after.right = previewWidth THEN Undefined
                          ELSE TimeAt(after.right, domain, previewWidth)]

\* onMouseup
MouseUp ==
  /\ drag # Undefined
  /\ drag' = Undefined
  /\ UNCHANGED <<graphVars, previewWidth, frame, slider>>

\* Preview.configure and render, when the graph is configured with another width.
\* The graph itself is not drawn again.  Not in the middle of a drag, which would go
\* on with the frame of the old width and could take the window beyond the data.
Resize(width) ==
  /\ drag = Undefined
  /\ width # previewWidth
  /\ previewWidth' = width
  /\ frame' = FrameFor(window, DataDomain(series, data), width)
  /\ UNCHANGED <<graphVars, drag, slider>>
-----------------------------------------------------------------------------
\* RangeSlider, slide: a value at an end of the data is taken for open.  (The graph
\* is drawn just before that, with the same points in its window.)
WindowFor(low, high) ==
  LET domain == DataDomain(series, data)
  IN  [xMin |-> IF low = domain.min THEN Undefined ELSE low,
       xMax |-> IF high = domain.max THEN Undefined ELSE high]

\* RangeSlider, slide: the window follows the values.
Slide(low, high) ==
  /\ low < high
  /\ window' = WindowFor(low, high)
  /\ slider' = [low |-> low, high |-> high, refused |-> FALSE]
  /\ UNCHANGED <<previewWidth, frame, drag>>

\* Two values that meet are no window: the graph stays as it is, though the slider
\* moves.
Meet(value) ==
  /\ slider' = [low |-> value, high |-> value, refused |-> TRUE]
  /\ UNCHANGED <<graphVars, previewWidth, frame, drag>>

\* Mutated form of SliderUpdated: the upper value does not follow the data.
SliderUpdatedLow ==
  LET domain == DataDomain(series', data')
  IN  /\ slider' = [slider EXCEPT !.low = IF window'.xMin = Undefined THEN domain.min ELSE @]
      /\ UNCHANGED <<previewWidth, frame, drag>>

\* RangeSlider.update, the callback of onUpdate.
SliderUpdated ==
  LET domain == DataDomain(series', data')
  IN  /\ slider' = [slider EXCEPT !.low = IF window'.xMin = Undefined THEN domain.min ELSE @,
                                   !.high = IF window'.xMax = Undefined THEN domain.max ELSE @]
      /\ UNCHANGED <<previewWidth, frame, drag>>
-----------------------------------------------------------------------------
\* The frame lies in the preview, its edges in their order, whatever was dragged
\* and however far the data has moved since.
FrameInPreview ==
  0 <= frame.left /\ frame.left <= frame.right /\ frame.right <= previewWidth

\* The time a window spans, as part of what the data does.
Span(win, domain) ==
  (IF win.xMax = Undefined THEN domain.max ELSE win.xMax)
    - (IF win.xMin = Undefined THEN domain.min ELSE win.xMin)

\* Dragging the frame by its middle gives a window as wide as the frame was, also at
\* the borders and when the data has moved since the drag began; and the frame drawn
\* for it has that width again, but for the half pixel that rounding its left edge can
\* cost it.
RigidDragKeepsWidth ==
  [][drag # Undefined /\ drag' = drag /\ window' # window /\ drag.rigid =>
       LET width == drag.before.right - drag.before.left
           domain == DataDomain(series, data)
           change == frame'.right - frame'.left - width
       IN  /\ Span(window', domain) * previewWidth = width * (domain.max - domain.min)
           /\ -Grain <= 2 * change /\ 2 * change <= Grain]_<<window, drag, frame>>

\* The handles of the slider stand where the window begins and ends, or at the ends
\* of the data where it is open; unless the user has last put them together.
SliderShowsWindow ==
  LET domain == DataDomain(series, data) IN
  ~slider.refused =>
    /\ slider.low = IF window.xMin = Undefined THEN domain.min ELSE window.xMin
    /\ slider.high = IF window.xMax = Undefined THEN domain.max ELSE window.xMax
=============================================================================
