--------------------------- MODULE RickshawLegend ---------------------------
(***************************************************************************)
(* Graph.Legend and the behaviours attached to its lines: Toggle switches  *)
(* series on and off, Highlight dims all but the line the pointer is over  *)
(* and brings its series to the top, Order lets the user drag lines.  All  *)
(* three, and Series.addItem, work on the one array of series.             *)
(*                                                                         *)
(* The legend knows the toggle and the highlighter (its fields shelving    *)
(* and highlighter), and the series know the legend, so that a new series  *)
(* gets a line of the same kind.                                           *)
(***************************************************************************)
EXTENDS RickshawGraph

VARIABLES
  lines,           \* legend.lines
  list,            \* the items of the legend on the screen, from the top
  greyed,          \* the lines shown as disabled
  activeLine,      \* the highlighted line
  originalIndex,   \* line -> where its series was before it was brought to the top
  colorSafe,       \* series -> the first colour it was seen with, kept for it
  natural          \* the series in the order they had when last set up, added to,
                   \* or dragged (history)

\* The colours are with the legend here: but for replies, only highlighting changes them.
legendVars == <<lines, list, greyed, activeLine, originalIndex, color, given, colorSafe, natural>>
highlightVars == <<activeLine, originalIndex, color, given, colorSafe>>
lineVars == <<lines, list, greyed, activeLine, originalIndex, colorSafe, natural>>

\* Legend.render, on a graph nothing of which is disabled: the series drawn on top
\* has the first line.
LegendInit ==
  /\ lines = Reverse(series)
  /\ list = Reverse(series)
  /\ greyed = {}
  /\ activeLine = Undefined
  /\ originalIndex = [name \in Name |-> Undefined]
  /\ colorSafe = [name \in Name |-> Undefined]
  /\ natural = series

\* Legend.addLine for each new series: at the end, though it is drawn on top.
AddLines(new) ==
  /\ lines' = lines \o new
  /\ list' = list \o new
  /\ natural' = natural \o new
  /\ UNCHANGED <<greyed, highlightVars>>
-----------------------------------------------------------------------------
\* Toggle, anchor.onclick: the last active series stays on.
ClickAnchor(name) ==
  /\ IF name \in disabled
     THEN disabled' = disabled \ {name} /\ greyed' = greyed \ {name}
     ELSE IF Len(Active(series, disabled)) <= 1 THEN UNCHANGED <<disabled, greyed>>
     ELSE disabled' = disabled \cup {name} /\ greyed' = greyed \cup {name}
  /\ UNCHANGED <<series, lines, list, highlightVars, natural>>

\* Mutated form of ClickLabel: the line itself is not enabled first.
ClickLabelOnly(name) ==
  /\ IF name \in disabled \/ ToSet(lines) \ disabled # {name}
     THEN /\ disabled' = disabled \cup (ToSet(lines) \ {name})
          /\ greyed' = ToSet(lines) \ {name}
     ELSE /\ disabled' = disabled \ ToSet(lines)
          /\ greyed' = {}
  /\ UNCHANGED <<series, lines, list, highlightVars, natural>>

\* Toggle, label.onclick: shows this line's series alone, or all again if it is
\* alone already.
ClickLabel(name) ==
  /\ IF name \in disabled \/ ToSet(lines) \ disabled # {name}
     THEN /\ disabled' = (disabled \cup ToSet(lines)) \ {name}
          /\ greyed' = ToSet(lines) \ {name}
     ELSE /\ disabled' = disabled \ ToSet(lines)
          /\ greyed' = {}
  /\ UNCHANGED <<series, lines, list, highlightVars, natural>>

\* Highlight, mouseover: unless a line is active already.
MouseOver(name) ==
  LET others == ToSet(lines) \ {name}
      index == IndexOf(name, series)
  IN  IF activeLine # Undefined THEN UNCHANGED <<series, disabled, legendVars>> ELSE
      /\ activeLine' = name
      /\ series' = IF unstack THEN Append(RemoveAt(series, index), name) ELSE series
      /\ originalIndex' = IF unstack THEN [originalIndex EXCEPT ![name] = index]
                          ELSE originalIndex
      /\ colorSafe' = [other \in Name |->
                         IF other \in others /\ colorSafe[other] = Undefined
                         THEN color[other] ELSE colorSafe[other]]
      /\ color' = [other \in Name |->
                     IF other \in others THEN [color[other] EXCEPT !.dimmed = @ + 1]
                     ELSE color[other]]
      /\ UNCHANGED <<disabled, lines, list, greyed, given, natural>>

\* Mutated form of MouseOut: the series goes back to one place further on.
MouseOutFurtherOn(name) ==
  /\ activeLine' = Undefined
  /\ series' = IF originalIndex[name] \in 1 .. Len(series) - 1
               THEN InsertAt(Front(series), originalIndex[name] + 1, Last(series))
               ELSE series
  /\ originalIndex' = [originalIndex EXCEPT ![name] = Undefined]
  /\ color' = [other \in Name |->
                 IF other \in ToSet(lines) /\ colorSafe[other] # Undefined
                 THEN colorSafe[other] ELSE color[other]]
  /\ UNCHANGED <<disabled, given, colorSafe, lines, list, greyed, natural>>

\* Highlight, mouseout: whatever series is last goes to the place kept, and every
\* line gets the colour kept for it.
MouseOut(name) ==
  IF activeLine = Undefined THEN UNCHANGED <<series, disabled, legendVars>> ELSE
  /\ activeLine' = Undefined
  /\ series' = IF originalIndex[name] = Undefined THEN series
               ELSE InsertAt(Front(series), originalIndex[name], Last(series))
  /\ originalIndex' = [originalIndex EXCEPT ![name] = Undefined]
  /\ color' = [other \in Name |->
                 IF other \in ToSet(lines) /\ colorSafe[other] # Undefined
                 THEN colorSafe[other] ELSE color[other]]
  /\ UNCHANGED <<disabled, given, colorSafe, lines, list, greyed, natural>>

\* Order, sortable's update: the user has dropped a line at another place, and the
\* series follow the lines from the bottom to the top.
DropLine(name, place) ==
  /\ list' = InsertAt(RemoveAt(list, IndexOf(name, list)), place, name)
  /\ list' # list
  /\ series' = Reverse(list')
  /\ natural' = Reverse(list')
  /\ UNCHANGED <<disabled, lines, greyed, highlightVars>>
-----------------------------------------------------------------------------
\* However lines are clicked, the legend shows as disabled just what is not drawn, and
\* some series is left to draw; a graph without any has no scales.
LegendShowsDisabled == greyed = disabled /\ Active(series, disabled) # <<>>

InFullColour(name) == color[name].dimmed = 0 /\ color[name].hue \in given[name]

\* Moving the pointer over the lines leaves no trace: when no line is highlighted the
\* series are in the order they were set up in, and each in full colour, in one that
\* the page or a reply gave it (the latest, unless a reply came after the series was
\* first dimmed: what is put back is the colour it had then).  Meanwhile no series is
\* lost or doubled, the highlighted line's own is in full colour, and all others are
\* dimmed at most once.
HighlightLeavesNoTrace ==
  /\ activeLine = Undefined => series = natural /\ \A name \in Name : InFullColour(name)
  /\ activeLine # Undefined => /\ InFullColour(activeLine)
                               /\ \A name \in ToSet(lines) : color[name].dimmed <= 1
  /\ ToSet(series) = ToSet(natural) /\ Len(series) = Len(natural)
=============================================================================
