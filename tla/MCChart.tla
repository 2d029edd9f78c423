------------------------------- MODULE MCChart -------------------------------
(***************************************************************************)
(* Eight kits: what can be attached to one graph, without the              *)
(* combinations that README section 5 sets aside.  The points of pages     *)
(* and replies are at multiples of 60, rows come every 144, and the units  *)
(* of the axis are scaled down, with a month of 112 or 122 and days of     *)
(* 46, 48 and 50, the seventh of them a leap day.                          *)
(***************************************************************************)
EXTENDS Chart, TLC

CONSTANTS a, b, c, red, green, blue, black

MCUnits == <<
  [name |-> "month", seconds |-> 120, cycle |-> 952, leap |-> {},
   starts |-> {0, 112, 234, 354, 476, 588, 710, 832}],
  [name |-> "day", seconds |-> 48, cycle |-> 960, leap |-> {286},
   starts |-> {48 * k : k \in 0 .. 3} \cup {48 * k - 2 : k \in 4 .. 7} \cup {48 * k : k \in 8 .. 19}],
  [name |-> "hour", seconds |-> 20, cycle |-> 20, leap |-> {}, starts |-> {0}],
  [name |-> "minute", seconds |-> 6, cycle |-> 6, leap |-> {}, starts |-> {0}]>>

\* Sorted times of up to three points, as the json exporter writes them.
MCLists ==
  LET times == {60, 120, 240}
      lists == {<<>>} \cup {<<x>> : x \in times}
                 \cup {<<x, y>> : x, y \in times} \cup {<<x, y, z>> : x, y, z \in times}
  IN  {[i \in DOMAIN l |-> Point(l[i])] :
         l \in {m \in lists : \A i \in 1 .. Len(m) - 1 : m[i] <= m[i + 1]}}

\* Points of a static page: all pairs of such lists, and one that begins with a text.
MCStatic ==
  {a :> first @@ b :> second @@ c :> <<>> : first, second \in MCLists}
    \cup {a :> <<[x |-> 60, y |-> "text"]>> @@ b :> <<Point(60)>> @@ c :> <<>>}

MCReplies ==
  LET null == [x |-> 120, y |-> "null"]
      short == <<Point(60), Point(180)>>
      long == <<Point(60), null, Point(240)>>
      even == <<Point(60), Point(120), Point(180), Point(240)>>
  IN  {a :> l @@ b :> m @@ c :> m : l, m \in {short, long, even}}

MCPalette == a :> red @@ b :> green @@ c :> blue

\* No colours in the reply, or another one for a series.
MCRecolorings ==
  LET none == [name \in {a, b, c} |-> Undefined]
  IN  {none, [none EXCEPT ![a] = black]}

Kit(source, extensions, stacked, names) ==
  [source |-> source, extensions |-> extensions, stacked |-> stacked, names |-> names]

MCKits ==
  {Kit("fixed", {"toggle", "highlight", "order"}, TRUE, <<a, b, c>>),
   Kit("fixed", {"toggle", "order", "hover"}, FALSE, <<a, b>>),
   Kit("ajax", {"toggle", "highlight"}, FALSE, <<a, b, c>>),
   Kit("ajax", {"toggle", "hover"}, TRUE, <<a, b>>),
   Kit("fixed", {"preview", "hover"}, TRUE, <<a>>),
   Kit("fixed", {"slider", "hover"}, FALSE, <<a>>),
   Kit("static", {"fill", "hover"}, TRUE, <<a, b>>),
   Kit("static", {"hover", "smoother"}, FALSE, <<a, b>>)}

\* The data of a FixedDuration is one to three intervals long, and the widths are four
\* and two pixels: with twelve grains to the pixel no edge of a frame is cut.
GrainsAreFine ==
  \A width \in PreviewWidths, intervals \in 1 .. MaxDataPoints - 1 :
    (Grain * width) % (intervals * Max(PreviewWidths)) = 0

ASSUME GrainsAreFine

MCPreviewWidths == {Grain * pixels : pixels \in {4, 2}}
MCDistances == {Grain * pixels : pixels \in {-3, -1, 1, 2}}
=============================================================================
