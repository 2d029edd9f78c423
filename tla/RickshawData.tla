---------------------------- MODULE RickshawData ----------------------------
(***************************************************************************)
(* What the chart library of the sample viewer computes from the points of *)
(* its series: the checks of a graph's constructor, the slice a window     *)
(* shows, smoothing, filling, the domain of the time axis with its ticks,  *)
(* and the point the pointer is nearest to.                                *)
(*                                                                         *)
(* A point has a time x, in whole units, and of its value y only whether   *)
(* it is a number, null or a text.  Arrays count from 1 here.              *)
(***************************************************************************)
EXTENDS Integers, Sequences, SequencesExt, FiniteSetsExt

CONSTANTS
  Undefined,             \* JavaScript's undefined, and null where no point is meant
  PadLeft, PadRight,     \* the renderer's horizontal padding, in hundredths
  Units                  \* the time units of the axis, the longest first

\* A unit's seconds are what it is taken to have; starts and leap count from the start of
\* the calendar's cycle.  Days, months and years last between three quarters and one and a
\* half of it.
ASSUME DataConstants ==
  /\ PadLeft \in Nat /\ PadRight \in Nat
  /\ Units # <<>> /\ DOMAIN Units = 1 .. Len(Units)
  /\ \A i \in DOMAIN Units :
       LET unit == Units[i]
           From(first, last) == {t \in first .. last : t % unit.cycle \in unit.starts}
       IN  /\ unit.seconds \in Nat \ {0} /\ unit.seconds % 2 = 0 /\ unit.cycle \in Nat \ {0}
           /\ unit.starts \subseteq 0 .. unit.cycle - 1 /\ unit.leap \subseteq unit.starts
           /\ IF unit.name \in {"day", "month", "year"}
              THEN \A t \in 0 .. unit.cycle - 1 :
                     /\ From(t + 1, t + (3 * unit.seconds) \div 2 - 1) # {}
                     /\ t \in unit.starts => From(t + 1, t + (3 * unit.seconds) \div 4) = {}
              ELSE unit.cycle = unit.seconds /\ unit.starts = {0} /\ unit.leap = {}

Point(x) == [x |-> x, y |-> "number"]

NonEmpty(slices) == {i \in DOMAIN slices : slices[i] # <<>>}

IndexOf(name, names) == CHOOSE i \in DOMAIN names : names[i] = name

\* Array.filter: the elements of s at the places kept, in their order.
Select(s, kept) ==
  LET picked[i \in 0 .. Len(s)] ==
        IF i = 0 THEN <<>>
        ELSE IF i \in kept THEN Append(picked[i - 1], s[i]) ELSE picked[i - 1]
  IN  picked[Len(s)]

\* Array.reduce with addition.
Total(numbers) ==
  LET upTo[n \in 0 .. Len(numbers)] == IF n = 0 THEN 0 ELSE upTo[n - 1] + numbers[n]
  IN  upTo[Len(numbers)]
-----------------------------------------------------------------------------
\* Graph.validateSeries looks at the first point's types and probes the order.
ValidSeries(points) ==
  /\ points # <<>> => points[1].y \in {"number", "null"}
  /\ Len(points) >= 3 =>
       /\ points[1].x <= points[2].x /\ points[2].x <= points[3].x
       /\ points[1].x <= Last(points).x

\* Graph._validateStackable compares each series with the first one that is not
\* empty; empty ones before it pass.
Stackable(lists) ==
  \A i \in NonEmpty(lists) : \A j \in i .. Len(lists) : Len(lists[j]) = Len(lists[i])

\* Graph._slice: a bound of 0 counts as none.
InWindow(point, window) ==
  /\ window.xMin \notin {Undefined, 0} => window.xMin <= point.x
  /\ window.xMax \notin {Undefined, 0} => point.x <= window.xMax

Slice(points, window) ==
  Select(points, {i \in DOMAIN points : InWindow(points[i], window)})

Average(points) == Point(Total([i \in DOMAIN points |-> points[i].x]) \div Len(points))

\* Mutated form of Smooth: the points left over at the end are dropped.
SmoothWholeGroups(points, scale) ==
  IF scale = 1 THEN points ELSE
  [g \in 1 .. Len(points) \div scale |->
     Average(SubSeq(points, (g - 1) * scale + 1, g * scale))]

\* Smoother.transformer replaces every scale points, and those left over, by
\* their average.
Smooth(points, scale) ==
  IF scale = 1 THEN points ELSE
  [g \in 1 .. (Len(points) + scale - 1) \div scale |->
     Average(SubSeq(points, (g - 1) * scale + 1, Min({g * scale, Len(points)})))]

\* One pass of the loop of Series.fill: at place i every series gets a point at
\* the least time that any of them has there.
FillStep(lists, i) ==
  LET present == {k \in DOMAIN lists : i <= Len(lists[k])}
      x == Min({lists[k][i].x : k \in present})
  IN  [k \in DOMAIN lists |->
         IF k \in present /\ lists[k][i].x = x THEN lists[k]
         ELSE InsertAt(lists[k], i, Point(x))]

\* Series.zeroFill: a pass for each place of the longest series, which can end up no
\* longer than all the points together.
ZeroFill(lists) ==
  LET Longest(ls) == Max({Len(ls[k]) : k \in DOMAIN ls})
      bound == Total([k \in DOMAIN lists |-> Len(lists[k])])
      pass[i \in 0 .. bound] ==
        IF i = 0 THEN lists
        ELSE IF i <= Longest(pass[i - 1]) THEN FillStep(pass[i - 1], i)
        ELSE pass[i - 1]
  IN  pass[bound]
-----------------------------------------------------------------------------
\* Renderer.domain for x: from the least first to the greatest last point, with
\* the padding; the right one is a share of a range already padded on the left.
\* Without any point the bounds are infinite and nothing is drawn.
Domain(slices) ==
  IF NonEmpty(slices) = {} THEN Undefined ELSE
  LET first == Min({slices[i][1].x : i \in NonEmpty(slices)})
      last == Max({Last(slices[i]).x : i \in NonEmpty(slices)})
      left == first - ((last - first) * PadLeft) \div 100
  IN  [min |-> left, max |-> last + ((last - left) * PadRight) \div 100]

\* Axis.Time.appropriateTimeUnit: the longest unit that fits in twice.
AppropriateTimeUnit(domain) ==
  LET fitting == {u \in DOMAIN Units : (domain.max - domain.min) \div Units[u].seconds >= 2}
  IN  Units[IF fitting = {} THEN Len(Units) ELSE Min(fitting)]

\* Where days, months and years start the local calendar says, which repeats itself;
\* the other units are multiples.
IsStart(time, unit) == time % unit.cycle \in unit.starts

\* A day of February that most years do not have.
IsLeap(time, unit) == time % unit.cycle \in unit.leap

\* Fixtures.Time.Local.ceil.  A day's start is looked for backwards from one day
\* later; as its date is put together in the year 1970, a leap day becomes the next
\* one.  A month's or year's start is looked for forwards.
TimeCeil(time, unit) ==
  LET starts(first, last) == {s \in first .. last : IsStart(s, unit)}
      start == Max(starts(time - unit.seconds, time + unit.seconds - 1))
  IN  CASE unit.name = "day" ->
             IF IsLeap(start, unit) THEN Min(starts(start + 1, start + 2 * unit.seconds))
             ELSE start
        [] unit.name \in {"month", "year"} -> Min(starts(time, time + 2 * unit.seconds))
        [] OTHER -> ((time + unit.seconds - 1) \div unit.seconds) * unit.seconds

\* Mutated form of TickOffsets: the next tick is looked for a unit later.
TickOffsetsByUnit(domain) ==
  LET unit == AppropriateTimeUnit(domain)
      count == (domain.max - domain.min + unit.seconds - 1) \div unit.seconds
      tick[i \in 1 .. count] ==
        TimeCeil(IF i = 1 THEN domain.min ELSE tick[i - 1] + unit.seconds, unit)
  IN  tick

\* Axis.Time.tickOffsets: from one tick the next is looked for half a unit later.
TickOffsets(domain) ==
  LET unit == AppropriateTimeUnit(domain)
      count == (domain.max - domain.min + unit.seconds - 1) \div unit.seconds
      tick[i \in 1 .. count] ==
        TimeCeil(IF i = 1 THEN domain.min ELSE tick[i - 1] + unit.seconds \div 2, unit)
  IN  tick
-----------------------------------------------------------------------------
\* HoverDetail.update: where the point would be if all were equally far apart,
\* rounded; never the last one to begin with.
ApproximateIndex(points, x) ==
  LET width == Last(points).x - points[1].x
      steps == Len(points) - 1
      index == IF width = 0 THEN 1
               ELSE 1 + (2 * (x - points[1].x) * steps + width) \div (2 * width)
  IN  IF index = Len(points) THEN index - 1 ELSE index

\* HoverDetail.update, the loop: it walks until x lies between a point and the
\* next one and takes the nearer of the two.  If it runs out at either end, the
\* index it began with is taken, forced into the array.
NearestIndex(points, x) ==
  LET begin == ApproximateIndex(points, x)
      found[i \in Int] ==
        IF i \notin 1 .. Len(points) - 1 THEN 0
        ELSE IF points[i].x <= x /\ x < points[i + 1].x
             THEN IF x - points[i].x < points[i + 1].x - x THEN i ELSE i + 1
        ELSE IF points[i + 1].x <= x THEN found[i + 1] ELSE found[i - 1]
      index == IF found[begin] # 0 THEN found[begin] ELSE Min({begin, Len(points)})
  IN  Max({index, 1})
=============================================================================
