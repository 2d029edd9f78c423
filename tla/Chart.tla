-------------------------------- MODULE Chart --------------------------------
(***************************************************************************)
(* A chart of the sample viewer: a graph and what has been attached to it. *)
(* Everything works on the same series and hears of every drawing, so the  *)
(* events of the page, of the server and of the user can meet in any       *)
(* order.  Each event is one step: its handler, the drawing the handler    *)
(* asks for, and the callbacks of onUpdate.                                *)
(*                                                                         *)
(* A kit says what a page has put together: where the points come from     *)
(* ("fixed" rows, "ajax" replies, "static" as on the viewer's own page),   *)
(* and which extensions are attached besides the legend.                   *)
(***************************************************************************)
EXTENDS RickshawLegend, RickshawHover, RickshawRange

CONSTANTS
  Kits,         \* records: source, extensions, stacked, names
  Documents,    \* what the points of a static page can be
  Replies,      \* what the server can reply to Ajax
  Recolorings,  \* name -> the colour in the reply, or Undefined
  MaxIndex,     \* bound on the rows a FixedDuration has had
  Scales        \* what the smoother's slider is set to

\* The last four are what the kits leave out: lines brought to the top of an unstacked
\* graph while rows come in or lines are dragged, range controls on graphs whose series
\* may have no points or all at one time, two of them on one graph, and filling up
\* points other than the page's own.
ASSUME KitConstants ==
  \A k \in Kits :
    /\ k.source \in {"fixed", "ajax", "static"}
    /\ k.stacked \in BOOLEAN
    /\ k.names \in Seq(Name) /\ k.names # <<>> /\ IsInjective(k.names)
    /\ "highlight" \in k.extensions =>
         k.stacked \/ (k.source # "fixed" /\ "order" \notin k.extensions)
    /\ k.extensions \cap {"preview", "slider"} # {} => k.source = "fixed" /\ MaxDataPoints > 3
    /\ ~({"preview", "slider"} \subseteq k.extensions)
    /\ "fill" \in k.extensions => k.source = "static"

\* The page and the server hand out what the json exporter wrote, in order of time.
ASSUME PointConstants ==
  /\ \A points \in Documents \cup Replies :
       /\ points \in [Name -> Seq([x : Int, y : {"number", "null", "text"}])]
       /\ \A name \in Name : \A i, j \in DOMAIN points[name] :
            i < j => points[name][i].x <= points[name][j].x
  /\ Scales \subseteq Nat \ {0}
  /\ Recolorings \subseteq [Name -> Hue \cup {Undefined}]

VARIABLE kit

vars == <<kit, graphVars, legendVars, hoverVars, rangeVars>>

Has(extension) == extension \in kit.extensions

\* Series.zeroFill for the points of some names.
Filled(names, points) ==
  LET filled == ZeroFill(Lists(names, points))
  IN  [name \in Name |->
         IF name \in ToSet(names)
         THEN filled[IndexOf(name, names)]
         ELSE points[name]]

Init ==
  /\ kit \in Kits
  /\ IF kit.source = "fixed"
     THEN /\ Construct(<<kit.names[1]>>, [name \in Name |-> IF name = kit.names[1] THEN ZeroFilled ELSE <<>>],
                       kit.stacked)
          /\ RowsBegin
     ELSE \E points \in IF kit.source = "ajax" THEN Replies ELSE Documents :
            /\ Construct(kit.names, IF Has("fill") THEN Filled(kit.names, points) ELSE points,
                         kit.stacked)
            /\ currentSize = 0
            /\ currentIndex = 0
  /\ LegendInit
  /\ HoverInit
  /\ IF Has("preview") \/ Has("slider") THEN RangeInit
     ELSE previewWidth = 0 /\ frame = Undefined /\ drag = Undefined /\ slider = Undefined

\* The callbacks of onUpdate; a drawing that throws does not reach them.
Updated ==
  /\ IF Has("hover") /\ ~failed' THEN HoverUpdated ELSE UNCHANGED hoverVars
  /\ CASE failed' -> UNCHANGED rangeVars
       [] ~failed' /\ Has("preview") -> PreviewUpdated
       [] ~failed' /\ Has("slider") -> SliderUpdated
       [] OTHER -> UNCHANGED rangeVars
-----------------------------------------------------------------------------
\* The page adds a row to a FixedDuration and renders the graph.
Row(row) ==
  /\ Built /\ kit.source = "fixed" /\ currentIndex < MaxIndex
  /\ AddRow(row)
  /\ AddLines(NewNames(row))
  /\ UNCHANGED <<kit, disabled, window, unstack, aggregation>>
  /\ Render
  /\ Updated

\* A reply arrives for Graph.Ajax.
Reply(reply, colors) ==
  /\ kit.source = "ajax"
  /\ Splice(reply, colors)
  /\ UNCHANGED <<kit, disabled, window, unstack, aggregation, lineVars>>
  /\ IF Built THEN Render /\ Updated
     ELSE ConstructAgain /\ UNCHANGED <<hoverVars, rangeVars>>

\* A handler that changes the series' order or which are on, and draws.
Clicked(Handler) ==
  /\ Built
  /\ Handler
  /\ UNCHANGED <<kit, pointVars, window, unstack, aggregation>>
  /\ Render
  /\ Updated

\* Lines can be clicked and dragged with the pointer over them only.
Over(name) == Has("highlight") => activeLine = name

Anchor(name) == Has("toggle") /\ Over(name) /\ Clicked(ClickAnchor(name))
Label(name) == Has("toggle") /\ Over(name) /\ Clicked(ClickLabel(name))
Enter(name) == Has("highlight") /\ activeLine = Undefined /\ Clicked(MouseOver(name))
Leave(name) == Has("highlight") /\ activeLine = name /\ Clicked(MouseOut(name))
Drop(name, place) == Has("order") /\ Over(name) /\ Clicked(DropLine(name, place))


\* The pointer over the graph, and out of it.
Move(x, graphic) ==
  /\ Built /\ Has("hover")
  /\ UNCHANGED <<kit, graphVars, legendVars, rangeVars>>
  /\ MouseMove(x, graphic)

Out ==
  /\ Built /\ Has("hover")
  /\ Hide
  /\ UNCHANGED <<kit, graphVars, legendVars, rangeVars>>

\* Another window, and the graph drawn with it.
Pan(NewWindow) ==
  /\ NewWindow
  /\ UNCHANGED <<kit, series, disabled, pointVars, unstack, aggregation, legendVars>>
  /\ Render
  /\ IF Has("hover") /\ ~failed' THEN HoverUpdated ELSE UNCHANGED hoverVars

Press(side) == Has("preview") /\ MouseDown(side) /\ UNCHANGED <<kit, legendVars, hoverVars>>

Drag(distance) ==
  /\ Has("preview") /\ drag # Undefined
  /\ Pan(DragTo(distance))
  /\ PreviewUpdated

Release == Has("preview") /\ MouseUp /\ UNCHANGED <<kit, legendVars, hoverVars>>

Configure(width) == Has("preview") /\ Resize(width) /\ UNCHANGED <<kit, legendVars, hoverVars>>

\* The slider's handles stop at the times of the points.
Stops == {point.x : point \in ToSet(data[series[1]])}

SlideHandles(low, high) == Has("slider") /\ Pan(Slide(low, high))

JoinHandles(value) == Has("slider") /\ Meet(value) /\ UNCHANGED <<kit, legendVars, hoverVars>>

Smoothen(scale) ==
  /\ Built /\ Has("smoother")
  /\ SetScale(scale)
  /\ UNCHANGED <<kit, series, disabled, pointVars, window, unstack, legendVars>>
  /\ Render
  /\ Updated

Next ==
  \/ \E row \in SUBSET ToSet(kit.names) \ {{}} : Row(row)
  \/ \E reply \in Replies, colors \in Recolorings : Reply(reply, colors)
  \/ \E name \in ToSet(series) :
       \/ Anchor(name)
       \/ Label(name)
       \/ Enter(name)
       \/ Leave(name)
       \/ \E place \in DOMAIN series : Drop(name, place)
  \/ \E x \in PointerX, graphic \in BOOLEAN : Move(x, graphic)
  \/ Out
  \/ \E side \in Sides : Press(side)
  \/ \E distance \in Distances : Drag(distance)
  \/ Release
  \/ \E width \in PreviewWidths : Configure(width)
  \/ \E low, high \in Stops : SlideHandles(low, high)
  \/ \E value \in Stops : JoinHandles(value)
  \/ \E scale \in Scales : Smoothen(scale)

Spec == Init /\ [][Next]_vars
-----------------------------------------------------------------------------
TypeOK ==
  /\ GraphTypeOK
  /\ ToSet(list) = ToSet(lines) /\ greyed \subseteq ToSet(lines)
  /\ activeLine \in ToSet(lines) \cup {Undefined}
  /\ visible \in BOOLEAN
  /\ Has("slider") => slider.refused \in BOOLEAN
  /\ Has("preview") => previewWidth \in PreviewWidths

\* Filling up changes no point: every series ends up with its own and one wherever
\* another series has one, in order of time.
FillKeepsPoints ==
  \E points \in Documents :
    LET times(lists, name) == {p.x : p \in ToSet(lists[name])}
    IN  /\ data = Filled(kit.names, points)
        /\ \A name \in ToSet(series) :
             /\ ToSet(points[name]) \subseteq ToSet(data[name])
             /\ times(data, name) = UNION {times(points, other) : other \in ToSet(series)}
             /\ \A i \in 1 .. Len(data[name]) - 1 : data[name][i].x <= data[name][i + 1].x

\* The series fit together, so that no extension and no row makes drawing throw: the
\* rows of a FixedDuration stay together (RowsStayTogether), and filling up gives
\* series that can be stacked, without harm to their points (FillKeepsPoints).  Only
\* replies may differ in length.
SeriesFitTogether ==
  /\ kit.source = "fixed" => RowsStayTogether /\ ~failed
  /\ Has("fill") =>
       /\ FillKeepsPoints
       /\ (\A name \in ToSet(series) : ValidSeries(data[name])) => ~failed

\* The frame and the handles fit the graph, see FrameInPreview and SliderShowsWindow.
ControlsFit ==
  /\ Has("preview") => FrameInPreview
  /\ Has("slider") => SliderShowsWindow

\* As long as the newest points are on the screen they stay there when rows come in,
\* wherever the user has dragged the other end of the window to.
NewestStaysVisible ==
  [][currentIndex' # currentIndex /\ ~Has("smoother")
       /\ Last(data[series[1]]).x \in {p.x : p \in UNION {ToSet(s) : s \in ToSet(stackedData)}}
     => \A i \in DOMAIN stackedData' :
          stackedData'[i] # <<>> /\ Last(stackedData'[i]) = Last(data'[series'[1]])]_vars

\* The labels of the time axis are starts of one unit, in their order, and none but a
\* leap day is left out between two of them, though days and months differ in length.
TicksInOrder ==
  NonEmpty(stackedData) # {} =>
    LET domain == Domain(stackedData)
        unit == AppropriateTimeUnit(domain)
        ticks == TickOffsets(domain)
    IN  \A i \in DOMAIN ticks :
          /\ IsStart(ticks[i], unit)
          /\ i > 1 => /\ ticks[i - 1] < ticks[i]
                      /\ \A t \in ticks[i - 1] + 1 .. ticks[i] - 1 :
                           IsStart(t, unit) => IsLeap(t, unit)
=============================================================================
