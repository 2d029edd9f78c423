---------------------------- MODULE RickshawGraph ----------------------------
(***************************************************************************)
(* A Rickshaw.Graph with its series, and the three ways their points come  *)
(* in: from the page's script when the graph is made, from the replies of  *)
(* Graph.Ajax, or row by row into a Series.FixedDuration.                  *)
(*                                                                         *)
(* JavaScript runs one handler at a time, so an event with all it calls is *)
(* one step.  Render is the part of a step that draws; the components that *)
(* hang on the graph follow with their own part of it, in module Chart.    *)
(***************************************************************************)
EXTENDS RickshawData

CONSTANTS
  Name,            \* names of series
  Hue,             \* colours, but for how dark they are
  Palette,         \* name -> the colour the page gives the series
  TimeInterval,    \* of a FixedDuration, in units of time
  MaxDataPoints    \* of a FixedDuration

ASSUME GraphConstants ==
  /\ Undefined \notin Name \cup Int \cup Hue \cup [hue : Hue, dimmed : Nat]
  /\ Palette \in [Name -> Hue]
  /\ TimeInterval \in Nat \ {0}
  /\ MaxDataPoints \in Nat \ {0, 1, 2}

VARIABLES
  series,          \* graph.series: names, the last one is drawn on top
  data,            \* series -> its points
  color,           \* series -> its colour, and how often that has been dimmed
  given,           \* series -> the colours the page and replies gave it (history)
  disabled,        \* the series switched off
  window,          \* graph.window
  unstack,         \* whether the renderer leaves the series unstacked
  aggregation,     \* the smoother's scale
  stackedData,     \* the slices of the active series as last drawn
  failed,          \* whether the last constructor or render threw
  currentSize,     \* of the FixedDuration: the points it thinks each series has
  currentIndex     \* and those it has had

pointVars == <<data, currentSize, currentIndex>>
graphVars == <<series, disabled, window, unstack, aggregation, pointVars, stackedData, failed>>

\* Graph.series.active
Active(names, off) == Select(names, {i \in DOMAIN names : names[i] \notin off})

Lists(names, points) == [i \in DOMAIN names |-> points[names[i]]]

\* Mutated form of StackData: the slices of all series are kept.
StackAllData(names, off, points, win, scale) ==
  [i \in DOMAIN names |-> Smooth(Slice(points[names[i]], win), scale)]

\* Graph.stackData for the active series, with the smoother as its hook.
StackData(names, off, points, win, scale) ==
  LET active == Active(names, off)
  IN  [i \in DOMAIN active |-> Smooth(Slice(points[active[i]], win), scale)]

\* Graph.render and update: stacking throws if the series differ in length, and
\* then nothing is drawn.
Render ==
  LET stackable == unstack' \/ Stackable(Lists(series', data'))
  IN  /\ failed' = ~stackable
      /\ stackedData' = IF stackable
                        THEN StackData(series', disabled', data', window', aggregation')
                        ELSE stackedData

\* Graph.initialize: what the constructor throws on, drawing once for the scales
\* included.
Refused(lists, stacked) ==
  \/ \E i \in DOMAIN lists : ~ValidSeries(lists[i])
  \/ stacked /\ ~Stackable(lists)

Open == [xMin |-> Undefined, xMax |-> Undefined]

\* Graph.initialize for series that have their points.
Construct(names, points, stacked) ==
  /\ series = names
  /\ data = points
  /\ color = [name \in Name |-> [hue |-> Palette[name], dimmed |-> 0]]
  /\ given = [name \in Name |-> {Palette[name]}]
  /\ disabled = {}
  /\ window = Open
  /\ unstack = ~stacked
  /\ aggregation = 1
  /\ failed = Refused(Lists(names, points), stacked)
  /\ stackedData = IF failed THEN <<>> ELSE StackData(names, {}, points, Open, 1)

\* There is a graph once a constructor has come to its end.
Built == stackedData # <<>>

\* Ajax.success, while there is no graph: the constructor is called once more.
ConstructAgain ==
  /\ failed' = Refused(Lists(series', data'), ~unstack)
  /\ stackedData' = IF failed' THEN <<>>
                    ELSE StackData(series', {}, data', Open, 1)
-----------------------------------------------------------------------------
\* FixedDuration.initialize: the one point an item starts with, and rows of zeros
\* before it, two short of the maximum.  Times count from the time base.
ZeroFilled == [i \in 1 .. MaxDataPoints - 2 |-> Point(i * TimeInterval)]

RowsBegin == currentSize = MaxDataPoints - 2 /\ currentIndex = MaxDataPoints - 2

NewNames(row) == SetToSeq(row \ ToSet(series))

\* Series.addItem fills a new series up with zeros at the times of the first one,
\* whichever that is after lines were highlighted and moved.
AddItem(name) ==
  IF name \in ToSet(series) THEN data[name]
  ELSE [i \in DOMAIN data[series[1]] |-> Point(data[series[1]][i].x)]

\* Mutated form of AddRow: only the series named in the row get a point.
AddNamedRow(row) ==
  LET names == series \o NewNames(row)
      full == MaxDataPoints <= currentSize
      Grown(name) == IF name \in row
                     THEN Append(AddItem(name), Point(currentIndex * TimeInterval))
                     ELSE AddItem(name)
  IN  /\ series' = names
      /\ data' = [name \in Name |->
                    IF name \notin ToSet(names) THEN data[name]
                    ELSE IF full THEN Tail(Grown(name)) ELSE Grown(name)]
      /\ currentSize' = IF full THEN currentSize ELSE currentSize + 1
      /\ currentIndex' = currentIndex + 1

\* FixedDuration.addData with values for some names: names not seen before become
\* series, every series gets a point, and when there are too many each loses its
\* first.
AddRow(row) ==
  LET names == series \o NewNames(row)
      full == MaxDataPoints <= currentSize
      Grown(name) == Append(AddItem(name), Point(currentIndex * TimeInterval))
  IN  /\ series' = names
      /\ data' = [name \in Name |->
                    IF name \notin ToSet(names) THEN data[name]
                    ELSE IF full THEN Tail(Grown(name)) ELSE Grown(name)]
      /\ currentSize' = IF full THEN currentSize ELSE currentSize + 1
      /\ currentIndex' = currentIndex + 1

\* Ajax.success and _splice: a reply replaces the points of the series it names, and
\* its colour if there is one in the reply.  (Series and replies have no keys, so the
\* name that is written too is the same.)
Splice(reply, colors) ==
  LET recolored == {name \in DOMAIN reply : colors[name] # Undefined}
  IN  /\ data' = [name \in Name |->
                    IF name \in DOMAIN reply THEN reply[name] ELSE data[name]]
      /\ color' = [name \in Name |->
                     IF name \in recolored THEN [hue |-> colors[name], dimmed |-> 0]
                     ELSE color[name]]
      /\ given' = [name \in Name |->
                     given[name] \cup IF name \in recolored THEN {colors[name]} ELSE {}]
      /\ UNCHANGED <<series, currentSize, currentIndex>>

\* Smoother.setScale
SetScale(scale) == aggregation' = scale
-----------------------------------------------------------------------------
GraphTypeOK ==
  /\ ToSet(series) \subseteq Name /\ Len(series) = Cardinality(ToSet(series))
  /\ disabled \subseteq ToSet(series)
  /\ aggregation \in Nat \ {0}
  /\ failed \in BOOLEAN /\ unstack \in BOOLEAN
  /\ ~failed => Len(stackedData) = Len(Active(series, disabled))

\* The rows of a FixedDuration stay together: all series have the same times,
\* ascending, no more of them than the maximum, whichever series came late, was
\* filled up from whichever other, or was off when rows came and went.
RowsStayTogether ==
  LET times(name) == [i \in DOMAIN data[name] |-> data[name][i].x]
  IN  \A a, b \in ToSet(series) :
        /\ times(a) = times(b)
        /\ Len(data[a]) = currentSize /\ currentSize <= MaxDataPoints
        /\ \A i \in 1 .. Len(data[a]) - 1 : data[a][i].x <= data[a][i + 1].x

\* What is on the screen is what the state says: unless drawing threw, there is a
\* slice for each active series, of its own points, inside the window, and in order.
\* Every handler that switches, moves, adds, smooths or pans has drawn again.
DrawnIsCurrent ==
  ~failed =>
    /\ Len(stackedData) = Len(Active(series, disabled))
    /\ \A i \in DOMAIN stackedData :
         LET points == data[Active(series, disabled)[i]]
         IN  /\ aggregation = 1 => ToSet(stackedData[i]) = {p \in ToSet(points) : InWindow(p, window)}
             /\ \A j, k \in DOMAIN stackedData[i] : j < k => stackedData[i][j].x <= stackedData[i][k].x
             /\ Len(stackedData[i]) * aggregation < Len(Slice(points, window)) + aggregation
             /\ Len(stackedData[i]) * aggregation >= Len(Slice(points, window))
=============================================================================
