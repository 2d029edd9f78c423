----------------------------- MODULE ChartProofs -----------------------------
(***************************************************************************)
(* Proofs about Chart, for any kits, points, windows and widths.           *)
(***************************************************************************)
EXTENDS Chart, SequenceLemmas

\* Where the elements of a filtered sequence come from.
ComesFrom(r, s, kept, n, at) ==
  /\ at \in [1 .. Len(r) -> 1 .. n]
  /\ \A j \in 1 .. Len(r) : at[j] \in kept /\ r[j] = s[at[j]]
  /\ \A j, k \in 1 .. Len(r) : j < k => at[j] < at[k]
  /\ \A i \in 1 .. n : i \in kept => \E j \in 1 .. Len(r) : at[j] = i

\* Filtering keeps what is to be kept, in its order, and nothing else.
LEMMA SelectFacts ==
  ASSUME NEW S, NEW s \in Seq(S), NEW kept
  PROVE  /\ Select(s, kept) \in Seq(S)
         /\ \E at : ComesFrom(Select(s, kept), s, kept, Len(s), at)
<1> DEFINE n == Len(s)
           Picks(f) == f = [i \in 0 .. n |->
                              IF i = 0 THEN <<>>
                              ELSE IF i \in kept THEN Append(f[i - 1], s[i]) ELSE f[i - 1]]
           picked == CHOOSE f : Picks(f)
<1>1. n \in Nat /\ \A j \in 1 .. n : s[j] \in S BY SetOfSeq, ElementOfSeq
<1>2. \E f : Picks(f)
  <2> DEFINE T == Seq(S)
             begin == <<>>
             step == [i \in 1 .. n |-> [t \in T |-> IF i \in kept THEN Append(t, s[i]) ELSE t]]
  <2>1. step \in [1 .. n -> [T -> T]] /\ begin \in T
    <3>1. \A i \in 1 .. n : \A t \in T : Append(t, s[i]) \in T BY <1>1, AppendProperties
    <3> QED BY <3>1
  <2>2. PICK f \in [0 .. n -> T] : Steps(f, n, begin, step)
    <3> HIDE DEF step, begin, T
    <3> QED BY <1>1, <2>1, StepsExist
  <2>3. f[0] = <<>> BY <2>2 DEF Steps
  <2>4. \A i \in 1 .. n : f[i] = IF i \in kept THEN Append(f[i - 1], s[i]) ELSE f[i - 1]
    <3> TAKE i \in 1 .. n
    <3>1. f[i - 1] \in T BY <1>1
    <3>2. f[i] = step[i][f[i - 1]] BY <2>2 DEF Steps
    <3> QED BY <3>1, <3>2
  <2>5. Picks(f)
    <3>1. ASSUME NEW i \in 0 .. n
          PROVE  f[i] = IF i = 0 THEN <<>>
                        ELSE IF i \in kept THEN Append(f[i - 1], s[i]) ELSE f[i - 1]
      <4>1. CASE i = 0 BY <2>3, <4>1
      <4>2. CASE i # 0
        <5>1. i \in 1 .. n BY <1>1, <4>2
        <5> QED BY <2>4, <4>2, <5>1
      <4> QED BY <4>1, <4>2
    <3>2. f = [i \in 0 .. n |-> f[i]] BY <2>2
    <3> QED BY <3>1, <3>2
  <2> QED BY <2>5
<1>3. Picks(picked)
  <2> HIDE DEF Picks
  <2> QED BY <1>2
<1>4. Select(s, kept) = picked[n] BY DEF Select
<1> HIDE DEF picked
<1>5. /\ picked[0] = <<>>
      /\ \A i \in 1 .. n : /\ i \in kept => picked[i] = Append(picked[i - 1], s[i])
                           /\ i \notin kept => picked[i] = picked[i - 1]
  <2>1. picked[0] = <<>> BY <1>1, <1>3
  <2>2. ASSUME NEW i \in 1 .. n
        PROVE  picked[i] = IF i \in kept THEN Append(picked[i - 1], s[i]) ELSE picked[i - 1]
    <3>1. i \in 0 .. n /\ i # 0 BY <1>1
    <3> QED BY <1>3, <3>1
  <2> QED BY <2>1, <2>2
<1> DEFINE Good(i) == picked[i] \in Seq(S) /\ \E at : ComesFrom(picked[i], s, kept, i, at)
           I == {i \in Nat : i <= n => Good(i)}
<1>6. 0 \in I
  <2>1. ComesFrom(<<>>, s, kept, 0, <<>>) BY DEF ComesFrom
  <2>2. <<>> \in Seq(S) OBVIOUS
  <2>3. Good(0) BY <1>5, <2>1, <2>2
  <2> QED BY <2>3
<1>7. ASSUME NEW i \in Nat, i + 1 <= n, Good(i) PROVE Good(i + 1)
  <2> DEFINE t == picked[i]
  <2>1. PICK at : ComesFrom(t, s, kept, i, at) BY <1>7
  <2>2. t \in Seq(S) /\ Len(t) \in Nat BY <1>7, SetOfSeq
  <2>3. i + 1 \in 1 .. n /\ s[i + 1] \in S BY <1>1, <1>7
  <2> HIDE DEF t
  <2>4. CASE i + 1 \in kept
    <3> DEFINE u == Append(t, s[i + 1])
               at2 == [j \in 1 .. Len(t) + 1 |-> IF j = Len(t) + 1 THEN i + 1 ELSE at[j]]
    <3>1. picked[i + 1] = u
      <4>1. (i + 1) - 1 = i OBVIOUS
      <4> QED BY <1>5, <2>3, <2>4, <4>1 DEF t
    <3>2. /\ u \in Seq(S) /\ Len(u) = Len(t) + 1
          /\ \A j \in 1 .. Len(t) : u[j] = t[j]
          /\ u[Len(t) + 1] = s[i + 1]
      BY <2>2, <2>3, AppendFacts
    <3> HIDE DEF u
    <3>3. \A j \in 1 .. Len(t) : at[j] \in 1 .. i /\ at[j] \in kept /\ t[j] = s[at[j]]
      BY <2>1 DEF ComesFrom
    <3>4. at2 \in [1 .. Len(u) -> 1 .. i + 1] BY <2>2, <3>2, <3>3
    <3>5. \A j \in 1 .. Len(u) : at2[j] \in kept /\ u[j] = s[at2[j]]
      <4> TAKE j \in 1 .. Len(u)
      <4>1. CASE j = Len(t) + 1 BY <2>4, <3>2, <4>1
      <4>2. CASE j # Len(t) + 1
        <5>1. j \in 1 .. Len(t) /\ at2[j] = at[j] BY <2>2, <3>2, <4>2
        <5> QED BY <3>2, <3>3, <5>1
      <4> QED BY <4>1, <4>2
    <3>6. \A j, k \in 1 .. Len(u) : j < k => at2[j] < at2[k]
      <4> SUFFICES ASSUME NEW j \in 1 .. Len(u), NEW k \in 1 .. Len(u), j < k PROVE at2[j] < at2[k]
        OBVIOUS
      <4>1. j \in 1 .. Len(t) /\ at2[j] = at[j] BY <2>2, <3>2
      <4>2. CASE k = Len(t) + 1 BY <2>2, <3>2, <3>3, <4>1, <4>2
      <4>3. CASE k # Len(t) + 1
        <5>1. k \in 1 .. Len(t) /\ at2[k] = at[k] BY <2>2, <3>2, <4>3
        <5> QED BY <2>1, <4>1, <5>1 DEF ComesFrom
      <4> QED BY <4>2, <4>3
    <3>7. \A l \in 1 .. i + 1 : l \in kept => \E j \in 1 .. Len(u) : at2[j] = l
      <4> SUFFICES ASSUME NEW l \in 1 .. i + 1, l \in kept PROVE \E j \in 1 .. Len(u) : at2[j] = l
        OBVIOUS
      <4>1. CASE l = i + 1
        <5>1. Len(t) + 1 \in 1 .. Len(u) /\ at2[Len(t) + 1] = l BY <2>2, <3>2, <4>1
        <5> QED BY <5>1
      <4>2. CASE l # i + 1
        <5>1. l \in 1 .. i BY <4>2
        <5>2. PICK j \in 1 .. Len(t) : at[j] = l BY <2>1, <5>1 DEF ComesFrom
        <5>3. j \in 1 .. Len(u) /\ at2[j] = l BY <2>2, <3>2, <5>2
        <5> QED BY <5>3
      <4> QED BY <4>1, <4>2
    <3> HIDE DEF at2
    <3>8. ComesFrom(u, s, kept, i + 1, at2) BY <3>4, <3>5, <3>6, <3>7 DEF ComesFrom
    <3> QED BY <3>1, <3>2, <3>8
  <2>5. CASE i + 1 \notin kept
    <3>1. picked[i + 1] = t BY <1>5, <2>3, <2>5 DEF t
    <3>2. ComesFrom(t, s, kept, i + 1, at)
      <4>1. at \in [1 .. Len(t) -> 1 .. i + 1] BY <2>1 DEF ComesFrom
      <4>2. \A l \in 1 .. i + 1 : l \in kept => l \in 1 .. i BY <2>5
      <4> QED BY <2>1, <4>1, <4>2 DEF ComesFrom
    <3> QED BY <2>2, <3>1, <3>2
  <2> QED BY <2>4, <2>5
<1>8. n \in I
  <2> HIDE DEF Good
  <2>1. \A i \in Nat : i \in I => i + 1 \in I BY <1>7, <1>1
  <2> HIDE DEF I
  <2> QED BY <1>1, <1>6, <2>1, SetInduction
<1> QED BY <1>1, <1>4, <1>8

LEMMA ActiveFacts ==
  ASSUME NEW names \in Seq(Name), NEW off
  PROVE  /\ Active(names, off) \in Seq(Name)
         /\ ToSet(Active(names, off)) = ToSet(names) \ off
         /\ IsInjective(names) => IsInjective(Active(names, off))
<1> DEFINE kept == {i \in DOMAIN names : names[i] \notin off}
           r == Active(names, off)
<1>1. r = Select(names, kept) BY DEF Active
<1>2. r \in Seq(Name) BY <1>1, SelectFacts
<1>3. PICK at : ComesFrom(r, names, kept, Len(names), at) BY <1>1, SelectFacts
<1>4. /\ \A j \in 1 .. Len(r) : /\ at[j] \in 1 .. Len(names) /\ at[j] \in kept
                                /\ r[j] = names[at[j]]
      /\ \A j, k \in 1 .. Len(r) : j < k => at[j] < at[k]
      /\ \A i \in 1 .. Len(names) : i \in kept => \E j \in 1 .. Len(r) : at[j] = i
  BY <1>3 DEF ComesFrom
<1>5. \A i \in 1 .. Len(names) : i \in kept <=> names[i] \notin off BY SetOfSeq
<1> HIDE DEF kept, r
<1>6. ToSet(r) = ToSet(names) \ off
  <2>1. ASSUME NEW x \in ToSet(r) PROVE x \in ToSet(names) \ off
    <3>1. PICK j \in 1 .. Len(r) : r[j] = x BY <1>2, SetOfSeq
    <3> QED BY <1>4, <1>5, <3>1, SetOfSeq
  <2>2. ASSUME NEW x \in ToSet(names) \ off PROVE x \in ToSet(r)
    <3>1. PICK i \in 1 .. Len(names) : names[i] = x BY SetOfSeq
    <3>2. PICK j \in 1 .. Len(r) : at[j] = i BY <1>4, <1>5, <3>1
    <3>3. r[j] = x BY <1>4, <3>1, <3>2
    <3> QED BY <1>2, <3>3, SetOfSeq
  <2> QED BY <2>1, <2>2
<1>7. ASSUME IsInjective(names) PROVE IsInjective(r)
  <2>1. \A k, l \in 1 .. Len(names) : names[k] = names[l] => k = l BY <1>7, SetOfSeq
  <2>2. Len(r) \in Nat /\ Len(names) \in Nat BY <1>2, SetOfSeq
  <2> SUFFICES ASSUME NEW j \in 1 .. Len(r), NEW k \in 1 .. Len(r), r[j] = r[k] PROVE j = k
    BY <1>2, SetOfSeq
  <2>3. at[j] = at[k] BY <1>4, <2>1
  <2>4. at[j] \in Int /\ at[k] \in Int BY <1>4, <2>2
  <2>5. ~(j < k) /\ ~(k < j) BY <1>4, <2>3, <2>4
  <2> QED BY <2>2, <2>5
<1> QED BY <1>2, <1>6, <1>7 DEF r

LEMMA ActiveNonEmpty ==
  ASSUME NEW names \in Seq(Name), NEW off
  PROVE  Active(names, off) # <<>> <=> ToSet(names) \ off # {}
<1> DEFINE r == Active(names, off)
<1>1. r \in Seq(Name) /\ ToSet(r) = ToSet(names) \ off BY ActiveFacts
<1> HIDE DEF r
<1>2. Len(r) \in Nat /\ (r = <<>> <=> Len(r) = 0) BY <1>1, SetOfSeq
<1>3. Len(r) > 0 => r[1] \in ToSet(r) BY <1>1, <1>2, SetOfSeq
<1>4. Len(r) = 0 => ToSet(r) = {}
  <2>1. \A x : x \in ToSet(r) <=> \E i \in 1 .. Len(r) : r[i] = x BY <1>1, SetOfSeq
  <2> QED BY <2>1
<1> QED BY <1>1, <1>2, <1>3, <1>4 DEF r
-----------------------------------------------------------------------------
(* The legend.                                                             *)

\* What a step does to the legend and to the order of the series.
LEMMA StepsOfLegend ==
  ASSUME [Next]_vars
  PROVE  /\ kit' = kit /\ unstack' = unstack
         /\ \/ \E row \in SUBSET ToSet(kit.names) :
                 /\ kit.source = "fixed"
                 /\ series' = series \o NewNames(row)
                 /\ AddLines(NewNames(row))
                 /\ disabled' = disabled
            \/ \E name \in ToSet(series) : ClickAnchor(name) \/ ClickLabel(name)
            \/ \E name \in ToSet(series) : Has("highlight") /\ activeLine = Undefined /\ MouseOver(name)
            \/ \E name \in ToSet(series) : Has("highlight") /\ activeLine = name /\ MouseOut(name)
            \/ \E name \in ToSet(series), place \in DOMAIN series : Has("order") /\ DropLine(name, place)
            \/ /\ \E reply \in Replies, colors \in Recolorings : Splice(reply, colors)
               /\ UNCHANGED <<series, disabled, lineVars>>
            \/ UNCHANGED <<series, disabled, legendVars>>
<1> USE DEF Clicked, pointVars
<1>1. ASSUME NEW row \in SUBSET ToSet(kit.names), Row(row)
      PROVE  /\ kit' = kit /\ unstack' = unstack /\ disabled' = disabled
             /\ kit.source = "fixed" /\ series' = series \o NewNames(row)
             /\ AddLines(NewNames(row))
  BY <1>1 DEF Row, AddRow
<1>2. ASSUME NEW reply, NEW colors, Reply(reply, colors)
      PROVE  /\ kit' = kit /\ unstack' = unstack
             /\ Splice(reply, colors) /\ UNCHANGED <<series, disabled, lineVars>>
  BY <1>2 DEF Reply, Splice
<1>3. ASSUME NEW name, Anchor(name) PROVE kit' = kit /\ unstack' = unstack /\ ClickAnchor(name)
  BY <1>3 DEF Anchor
<1>4. ASSUME NEW name, Label(name) PROVE kit' = kit /\ unstack' = unstack /\ ClickLabel(name)
  BY <1>4 DEF Label
<1>5. ASSUME NEW name, Enter(name)
      PROVE  /\ kit' = kit /\ unstack' = unstack /\ MouseOver(name)
             /\ Has("highlight") /\ activeLine = Undefined
  BY <1>5 DEF Enter
<1>6. ASSUME NEW name, Leave(name)
      PROVE  /\ kit' = kit /\ unstack' = unstack /\ MouseOut(name)
             /\ Has("highlight") /\ activeLine = name
  BY <1>6 DEF Leave
<1>7. ASSUME NEW name, NEW place, Drop(name, place)
      PROVE  kit' = kit /\ unstack' = unstack /\ Has("order") /\ DropLine(name, place)
  BY <1>7 DEF Drop
<1>8. ASSUME NEW x, NEW graphic, Move(x, graphic)
      PROVE  kit' = kit /\ unstack' = unstack /\ UNCHANGED <<series, disabled, legendVars>>
  BY <1>8 DEF Move, graphVars
<1>9. ASSUME Out
      PROVE  kit' = kit /\ unstack' = unstack /\ UNCHANGED <<series, disabled, legendVars>>
  BY <1>9 DEF Out, graphVars
<1>10. ASSUME NEW side, Press(side)
      PROVE  kit' = kit /\ unstack' = unstack /\ UNCHANGED <<series, disabled, legendVars>>
  BY <1>10 DEF Press, MouseDown, graphVars
<1>11. ASSUME NEW distance, Drag(distance)
      PROVE  kit' = kit /\ unstack' = unstack /\ UNCHANGED <<series, disabled, legendVars>>
  BY <1>11 DEF Drag, Pan
<1>12. ASSUME Release
      PROVE  kit' = kit /\ unstack' = unstack /\ UNCHANGED <<series, disabled, legendVars>>
  BY <1>12 DEF Release, MouseUp, graphVars
<1>13. ASSUME NEW width, Configure(width)
      PROVE  kit' = kit /\ unstack' = unstack /\ UNCHANGED <<series, disabled, legendVars>>
  BY <1>13 DEF Configure, Resize, graphVars
<1>14. ASSUME NEW low, NEW high, SlideHandles(low, high)
      PROVE  kit' = kit /\ unstack' = unstack /\ UNCHANGED <<series, disabled, legendVars>>
  BY <1>14 DEF SlideHandles, Pan
<1>15. ASSUME NEW value, JoinHandles(value)
      PROVE  kit' = kit /\ unstack' = unstack /\ UNCHANGED <<series, disabled, legendVars>>
  BY <1>15 DEF JoinHandles, Meet, graphVars
<1>16. ASSUME NEW scale, Smoothen(scale)
      PROVE  kit' = kit /\ unstack' = unstack /\ UNCHANGED <<series, disabled, legendVars>>
  BY <1>16 DEF Smoothen
<1>17. ASSUME UNCHANGED vars
      PROVE  kit' = kit /\ unstack' = unstack /\ UNCHANGED <<series, disabled, legendVars>>
  BY <1>17 DEF vars, graphVars
<1> QED
  BY <1>1, <1>2, <1>3, <1>4, <1>5, <1>6, <1>7, <1>8, <1>9, <1>10, <1>11, <1>12, <1>13, <1>14,
     <1>15, <1>16, <1>17 DEF Next

\* The series, the legend's lines and its items on the screen have the same names, none of
\* them twice; what is off has a grey line, and something is on; and a place kept for a
\* series is one it can go back to.
LegendInv ==
  /\ kit \in Kits
  /\ series \in Seq(Name) /\ lines \in Seq(Name) /\ list \in Seq(Name)
  /\ IsInjective(series) /\ IsInjective(list)
  /\ ToSet(lines) = ToSet(series) /\ ToSet(list) = ToSet(series) /\ Len(list) = Len(series)
  /\ disabled \subseteq ToSet(series) /\ greyed = disabled
  /\ ToSet(series) \ disabled # {}
  /\ \A name \in Name : originalIndex[name] = Undefined \/ originalIndex[name] \in 1 .. Len(series)
  /\ originalIndex = [name \in Name |-> originalIndex[name]]

LEMMA NewNamesFacts ==
  ASSUME LegendInv, NEW row \in SUBSET ToSet(kit.names)
  PROVE  /\ NewNames(row) \in Seq(Name) /\ IsInjective(NewNames(row))
         /\ ToSet(NewNames(row)) = row \ ToSet(series)
<1>1. kit.names \in Seq(Name) BY KitConstants DEF LegendInv
<1>2. IsFiniteSet(ToSet(kit.names)) /\ ToSet(kit.names) \subseteq Name
  <2>1. Len(kit.names) \in Nat /\ DOMAIN kit.names = 1 .. Len(kit.names)
        /\ ToSet(kit.names) \subseteq Name
    BY <1>1, SetOfSeq
  <2>2. IsFiniteSet(1 .. Len(kit.names)) BY <2>1, FS_Interval
  <2>3. kit.names \in Surjection(1 .. Len(kit.names), ToSet(kit.names))
    BY <1>1, <2>1 DEF Surjection, ToSet
  <2> QED BY <2>1, <2>2, <2>3, FS_Surjection
<1>3. IsFiniteSet(row \ ToSet(series)) BY <1>2, FS_Subset
<1>4. /\ NewNames(row) \in Seq(row \ ToSet(series)) /\ IsInjective(NewNames(row))
      /\ ToSet(NewNames(row)) = row \ ToSet(series)
  BY <1>3, SetToSeqFacts DEF NewNames
<1>5. row \ ToSet(series) \subseteq Name BY <1>2
<1> QED BY <1>4, <1>5, SeqMonotonic

LEMMA LegendInvHolds == Spec => []LegendInv
<1>1. Init => LegendInv
  <2> SUFFICES ASSUME Init PROVE LegendInv
    OBVIOUS
  <2>1. /\ kit \in Kits /\ kit.names \in Seq(Name) /\ kit.names # <<>> /\ IsInjective(kit.names)
    BY KitConstants DEF Init
  <2>2. Len(kit.names) \in Nat /\ Len(kit.names) # 0 /\ \A i \in 1 .. Len(kit.names) : kit.names[i] \in Name
    BY <2>1, SetOfSeq, ElementOfSeq
  <2>3. /\ series = <<kit.names[1]>> \/ series = kit.names
        /\ disabled = {}
        /\ LegendInit
    BY DEF Init, Construct
  <2>4. series \in Seq(Name) /\ IsInjective(series) /\ Len(series) > 0
    <3>1. kit.names[1] \in Name BY <2>2
    <3>2. CASE series = <<kit.names[1]>> BY <3>1, <3>2 DEF IsInjective
    <3> QED BY <2>1, <2>2, <2>3, <3>2
  <2>5. /\ Reverse(series) \in Seq(Name) /\ Len(Reverse(series)) = Len(series)
        /\ ToSet(Reverse(series)) = ToSet(series) /\ IsInjective(Reverse(series))
    BY <2>4, ReverseFacts
  <2>6. series[1] \in ToSet(series) BY <2>4, SetOfSeq
  <2>7. originalIndex = [name \in Name |-> Undefined] /\ greyed = {} BY <2>3 DEF LegendInit
  <2>8. lines = Reverse(series) /\ list = Reverse(series) BY <2>3 DEF LegendInit
  <2> QED BY <2>1, <2>3, <2>4, <2>5, <2>6, <2>7, <2>8 DEF LegendInv
<1>2. LegendInv /\ [Next]_vars => LegendInv'
  <2> SUFFICES ASSUME LegendInv, [Next]_vars PROVE LegendInv'
    OBVIOUS
  <2>0. kit' = kit BY StepsOfLegend
  <2>a. Len(series) \in Nat /\ Len(list) \in Nat BY SetOfSeq DEF LegendInv
  <2>1. ASSUME NEW row \in SUBSET ToSet(kit.names), series' = series \o NewNames(row),
               AddLines(NewNames(row)), disabled' = disabled
        PROVE  LegendInv'
    <3> DEFINE new == NewNames(row)
    <3>1. new \in Seq(Name) /\ IsInjective(new) /\ ToSet(new) = row \ ToSet(series)
      BY NewNamesFacts
    <3>2. /\ lines' = lines \o new /\ list' = list \o new
          /\ greyed' = greyed /\ originalIndex' = originalIndex
      BY <2>1 DEF AddLines, highlightVars
    <3> HIDE DEF new
    <3>3. series' = series \o new BY <2>1 DEF new
    <3>4. /\ series' \in Seq(Name) /\ IsInjective(series')
          /\ ToSet(series') = ToSet(series) \cup ToSet(new)
          /\ Len(series') = Len(series) + Len(new)
      BY <3>1, <3>3, ConcatFacts DEF LegendInv
    <3>5. lines' \in Seq(Name) /\ ToSet(lines') = ToSet(series) \cup ToSet(new)
      BY <3>1, <3>2, ConcatFacts DEF LegendInv
    <3>6. /\ list' \in Seq(Name) /\ IsInjective(list')
          /\ ToSet(list') = ToSet(series) \cup ToSet(new)
          /\ Len(list') = Len(series) + Len(new)
      BY <3>1, <3>2, ConcatFacts DEF LegendInv
    <3>7. Len(new) \in Nat BY <3>1, SetOfSeq
    <3>8. \A i \in 1 .. Len(series) : i \in 1 .. Len(series') BY <2>a, <3>4, <3>7
    <3> QED BY <2>0, <2>1, <3>2, <3>4, <3>5, <3>6, <3>8 DEF LegendInv
  <2>2. ASSUME NEW name \in ToSet(series), ClickAnchor(name) PROVE LegendInv'
    <3>1. UNCHANGED <<series, lines, list, originalIndex>>
      BY <2>2 DEF ClickAnchor, highlightVars
    <3>2. CASE name \in disabled
      BY <2>0, <2>2, <3>1, <3>2 DEF ClickAnchor, LegendInv
    <3>3. CASE name \notin disabled /\ Len(Active(series, disabled)) <= 1
      BY <2>0, <2>2, <3>1, <3>3 DEF ClickAnchor, LegendInv
    <3>4. CASE name \notin disabled /\ ~(Len(Active(series, disabled)) <= 1)
      <4> DEFINE r == Active(series, disabled)
      <4>1. /\ r \in Seq(Name) /\ IsInjective(r) /\ ToSet(r) = ToSet(series) \ disabled
        BY ActiveFacts DEF LegendInv
      <4> HIDE DEF r
      <4>2. Len(r) \in Nat /\ ~(Len(r) <= 1) BY <3>4, <4>1, SetOfSeq DEF r
      <4>3. 1 \in 1 .. Len(r) /\ 2 \in 1 .. Len(r) BY <4>2
      <4>4. r[1] # r[2] /\ r[1] \in ToSet(r) /\ r[2] \in ToSet(r) BY <4>1, <4>3, SetOfSeq
      <4>5. disabled' = disabled \cup {name} /\ greyed' = greyed \cup {name}
        BY <2>2, <3>4 DEF ClickAnchor
      <4>6. ToSet(series) \ disabled' # {} BY <4>1, <4>4, <4>5
      <4> QED BY <2>0, <2>2, <3>1, <4>5, <4>6 DEF LegendInv
    <3> QED BY <3>2, <3>3, <3>4
  <2>3. ASSUME NEW name \in ToSet(series), ClickLabel(name) PROVE LegendInv'
    <3>1. UNCHANGED <<series, lines, list, originalIndex>>
      BY <2>3 DEF ClickLabel, highlightVars
    <3>2. \/ /\ disabled' = (disabled \cup ToSet(lines)) \ {name}
             /\ greyed' = ToSet(lines) \ {name}
          \/ /\ disabled' = disabled \ ToSet(lines)
             /\ greyed' = {}
      BY <2>3 DEF ClickLabel
    <3> QED BY <2>0, <2>3, <3>1, <3>2 DEF LegendInv
  <2>4. ASSUME NEW name \in ToSet(series), activeLine = Undefined, MouseOver(name) PROVE LegendInv'
    <3> DEFINE index == IndexOf(name, series)
               rest == RemoveAt(series, index)
    <3>1. /\ UNCHANGED <<disabled, lines, list, greyed>>
          /\ series' = IF unstack THEN Append(rest, name) ELSE series
          /\ originalIndex' = IF unstack THEN [originalIndex EXCEPT ![name] = index] ELSE originalIndex
      BY <2>4 DEF MouseOver
    <3>2. index \in 1 .. Len(series) /\ series[index] = name
      <4>1. \E i \in DOMAIN series : series[i] = name BY SetOfSeq DEF LegendInv
      <4> QED BY <4>1, SetOfSeq DEF IndexOf, LegendInv
    <3> HIDE DEF index
    <3>3. /\ rest \in Seq(Name) /\ Len(rest) = Len(series) - 1 /\ IsInjective(rest)
          /\ ToSet(rest) = ToSet(series) \ {name}
      <4>1. series \in Seq(Name) /\ IsInjective(series) BY DEF LegendInv
      <4> QED BY <3>2, <4>1, RemoveAtFacts
    <3> HIDE DEF rest
    <3>4. name \in Name BY SetOfSeq DEF LegendInv
    <3>5. /\ Append(rest, name) \in Seq(Name) /\ Len(Append(rest, name)) = Len(rest) + 1
          /\ ToSet(Append(rest, name)) = ToSet(rest) \cup {name}
          /\ IsInjective(Append(rest, name))
      BY <3>3, <3>4, AppendFacts
    <3>6. /\ series' \in Seq(Name) /\ IsInjective(series') /\ ToSet(series') = ToSet(series)
          /\ Len(series') = Len(series)
      <4>1. (Len(series) - 1) + 1 = Len(series) /\ name \in ToSet(series) BY <2>a
      <4>2. (ToSet(series) \ {name}) \cup {name} = ToSet(series) BY <4>1
      <4>3. series \in Seq(Name) /\ IsInjective(series) BY DEF LegendInv
      <4> QED BY <3>1, <3>3, <3>5, <4>1, <4>2, <4>3
    <3> QED BY <2>0, <3>1, <3>2, <3>6 DEF LegendInv
  <2>5. ASSUME NEW name \in ToSet(series), activeLine = name, MouseOut(name) PROVE LegendInv'
    <3> DEFINE front == Front(series)
               last == Last(series)
    <3>1. name \in Name /\ name # Undefined BY SetOfSeq, GraphConstants DEF LegendInv
    <3>2. /\ UNCHANGED <<disabled, lines, list, greyed>>
          /\ series' = IF originalIndex[name] = Undefined THEN series
                       ELSE InsertAt(front, originalIndex[name], last)
          /\ originalIndex' = [originalIndex EXCEPT ![name] = Undefined]
      BY <2>5, <3>1 DEF MouseOut
    <3>3. Len(series) # 0 BY SetOfSeq DEF LegendInv
    <3>4. /\ front \in Seq(Name) /\ Len(front) = Len(series) - 1 /\ IsInjective(front)
          /\ ToSet(front) = ToSet(series) \ {last} /\ last \in ToSet(series)
      BY <2>a, <3>3, FrontFacts DEF LegendInv
    <3> HIDE DEF front, last
    <3>5. /\ series' \in Seq(Name) /\ IsInjective(series') /\ ToSet(series') = ToSet(series)
          /\ Len(series') = Len(series)
      <4>1. CASE originalIndex[name] = Undefined BY <3>2, <4>1 DEF LegendInv
      <4>2. CASE originalIndex[name] # Undefined
        <5> DEFINE i == originalIndex[name]
        <5>1. i \in 1 .. Len(front) + 1 BY <2>a, <3>1, <3>4, <4>2 DEF LegendInv
        <5>2. last \in Name BY <3>4, SetOfSeq DEF LegendInv
        <5> HIDE DEF i
        <5>3. /\ InsertAt(front, i, last) \in Seq(Name) /\ Len(InsertAt(front, i, last)) = Len(front) + 1
              /\ ToSet(InsertAt(front, i, last)) = ToSet(front) \cup {last}
              /\ IsInjective(InsertAt(front, i, last))
          BY <3>4, <5>1, <5>2, InsertAtFacts
        <5>4. (ToSet(series) \ {last}) \cup {last} = ToSet(series) BY <3>4
        <5>5. (Len(series) - 1) + 1 = Len(series) BY <2>a
        <5>6. series' = InsertAt(front, i, last) BY <3>2, <4>2 DEF i
        <5> QED BY <3>4, <5>3, <5>4, <5>5, <5>6
      <4> QED BY <4>1, <4>2
    <3> QED BY <2>0, <3>2, <3>5 DEF LegendInv
  <2>6. ASSUME NEW name \in ToSet(series), NEW place \in DOMAIN series, DropLine(name, place)
        PROVE  LegendInv'
    <3> DEFINE index == IndexOf(name, list)
               rest == RemoveAt(list, index)
    <3>1. /\ UNCHANGED <<disabled, lines, greyed, originalIndex>>
          /\ list' = InsertAt(rest, place, name)
          /\ series' = Reverse(list')
      BY <2>6 DEF DropLine, highlightVars
    <3>2. index \in 1 .. Len(list) /\ list[index] = name
      <4>1. \E i \in DOMAIN list : list[i] = name BY SetOfSeq DEF LegendInv
      <4> QED BY <4>1, SetOfSeq DEF IndexOf, LegendInv
    <3> HIDE DEF index
    <3>3. /\ rest \in Seq(Name) /\ Len(rest) = Len(list) - 1 /\ IsInjective(rest)
          /\ ToSet(rest) = ToSet(list) \ {name}
      BY <3>2, RemoveAtFacts DEF LegendInv
    <3> HIDE DEF rest
    <3>4. name \in Name /\ place \in 1 .. Len(rest) + 1 BY <2>a, <3>3, SetOfSeq DEF LegendInv
    <3>5. /\ list' \in Seq(Name) /\ Len(list') = Len(rest) + 1
          /\ ToSet(list') = ToSet(rest) \cup {name} /\ IsInjective(list')
      BY <3>1, <3>3, <3>4, InsertAtFacts
    <3>6. /\ series' \in Seq(Name) /\ Len(series') = Len(list')
          /\ ToSet(series') = ToSet(list') /\ IsInjective(series')
      BY <3>1, <3>5, ReverseFacts
    <3>7. ToSet(list') = ToSet(series) /\ Len(list') = Len(series)
      BY <2>a, <3>3, <3>5 DEF LegendInv
    <3> QED BY <2>0, <3>1, <3>5, <3>6, <3>7 DEF LegendInv
  <2>7. CASE UNCHANGED <<series, disabled, lineVars>> \/ UNCHANGED <<series, disabled, legendVars>>
    BY <2>0, <2>7 DEF LegendInv, lineVars, legendVars
  <2> QED BY <2>1, <2>2, <2>3, <2>4, <2>5, <2>6, <2>7, StepsOfLegend
<1> QED BY <1>1, <1>2, PTL DEF Spec

\* However lines are clicked, dragged and pointed at and whatever rows come in, the legend
\* shows as disabled just what is not drawn, and some series is left to draw.
THEOREM LegendShowsWhatIsOff == Spec => []LegendShowsDisabled
<1>1. LegendInv => LegendShowsDisabled
  BY ActiveNonEmpty DEF LegendInv, LegendShowsDisabled
<1> QED BY <1>1, LegendInvHolds, PTL

-----------------------------------------------------------------------------
\* While a line of an unstacked graph is highlighted its series has been taken from its
\* place and put last, and that place is kept; otherwise the series are where they belong.
\* Colours, the kept ones too, are such as were given; a dimmed line is not the highlighted
\* one, and a colour has been kept for it.
HighlightInv ==
  /\ unstack = ~kit.stacked
  /\ natural \in Seq(Name) /\ Len(natural) = Len(series) /\ ToSet(natural) = ToSet(series)
  /\ activeLine \in ToSet(lines) \cup {Undefined}
  /\ activeLine # Undefined => Has("highlight")
  /\ activeLine = Undefined \/ ~unstack => series = natural
  /\ activeLine # Undefined /\ unstack =>
       \E i \in 1 .. Len(natural) :
         /\ natural[i] = activeLine
         /\ series = Append(RemoveAt(natural, i), natural[i])
         /\ originalIndex[activeLine] = i
  /\ \A name \in Name : originalIndex[name] # Undefined => activeLine = name /\ unstack
  /\ \A name \in Name :
       /\ given[name] \subseteq Hue
       /\ colorSafe[name] \in {Undefined} \cup [hue : given[name], dimmed : {0}]
       /\ color[name] \in [hue : given[name], dimmed : {0, 1}]
  /\ \A name \in Name : color[name].dimmed = 1 =>
       /\ name \in ToSet(lines) /\ name # activeLine /\ activeLine # Undefined
       /\ colorSafe[name] # Undefined

\* Lines are highlighted on stacked graphs, or where no row comes in and no line is dragged.
LEMMA HighlightInPlace ==
  ASSUME LegendInv, HighlightInv, kit.source = "fixed" \/ Has("order")
  PROVE  series = natural
BY KitConstants DEF LegendInv, HighlightInv, Has

LEMMA HighlightInvHolds == Spec => []HighlightInv
<1>1. Init => HighlightInv
  <2> SUFFICES ASSUME Init PROVE HighlightInv
    OBVIOUS
  <2>1. unstack = ~kit.stacked BY DEF Init, Construct
  <2>2. kit \in Kits /\ kit.names \in Seq(Name) /\ kit.names # <<>> BY KitConstants DEF Init
  <2>3. Len(kit.names) \in Nat /\ Len(kit.names) # 0 /\ \A i \in 1 .. Len(kit.names) : kit.names[i] \in Name
    BY <2>2, SetOfSeq, ElementOfSeq
  <2>4. series = <<kit.names[1]>> \/ series = kit.names BY DEF Init, Construct
  <2>5. series \in Seq(Name)
    <3>1. kit.names[1] \in Name BY <2>3
    <3>2. CASE series = <<kit.names[1]>> BY <3>1, <3>2
    <3> QED BY <2>2, <2>4, <3>2
  <2>6. LegendInit BY DEF Init
  <2>7. /\ color = [name \in Name |-> [hue |-> Palette[name], dimmed |-> 0]]
        /\ given = [name \in Name |-> {Palette[name]}]
    BY DEF Init, Construct
  <2>8. \A name \in Name : /\ Palette[name] \in Hue /\ given[name] = {Palette[name]}
                           /\ color[name] = [hue |-> Palette[name], dimmed |-> 0]
    BY <2>7, GraphConstants
  <2>9. \A name \in Name :
          /\ given[name] \subseteq Hue
          /\ colorSafe[name] \in {Undefined} \cup [hue : given[name], dimmed : {0}]
          /\ color[name] \in [hue : given[name], dimmed : {0, 1}] /\ color[name].dimmed = 0
    <3> TAKE name \in Name
    <3>1. colorSafe[name] = Undefined BY <2>6 DEF LegendInit
    <3>2. /\ Palette[name] \in Hue /\ given[name] = {Palette[name]}
          /\ color[name] = [hue |-> Palette[name], dimmed |-> 0]
      BY <2>8
    <3> QED BY <3>1, <3>2
  <2> QED BY <2>1, <2>5, <2>6, <2>9, GraphConstants DEF LegendInit, HighlightInv
<1>2. LegendInv /\ LegendInv' /\ HighlightInv /\ [Next]_vars => HighlightInv'
  <2> SUFFICES ASSUME LegendInv, LegendInv', HighlightInv, [Next]_vars PROVE HighlightInv'
    OBVIOUS
  <2>0. kit' = kit /\ unstack' = unstack /\ (unstack = ~kit.stacked) /\ Undefined \notin Name \cup Int
    BY StepsOfLegend, GraphConstants DEF HighlightInv
  <2>a. /\ series' \in Seq(Name) /\ ToSet(lines) = ToSet(series) /\ ToSet(lines') = ToSet(series')
        /\ ToSet(series) \subseteq Name
    BY SetOfSeq DEF LegendInv
  <2>1. ASSUME NEW row \in SUBSET ToSet(kit.names), kit.source = "fixed",
               series' = series \o NewNames(row), AddLines(NewNames(row))
        PROVE  HighlightInv'
    <3> DEFINE new == NewNames(row)
    <3>1. /\ new \in Seq(Name) /\ lines' = lines \o new /\ natural' = natural \o new
          /\ UNCHANGED <<activeLine, originalIndex, color, given, colorSafe>>
      BY <2>1, NewNamesFacts DEF AddLines, highlightVars
    <3>2. series' = natural' /\ series = natural BY <2>1, <3>1, HighlightInPlace
    <3> HIDE DEF new
    <3>3. ToSet(lines') = ToSet(lines) \cup ToSet(new) BY <3>1, ConcatFacts DEF LegendInv
    <3>4. unstack => activeLine = Undefined
      BY <2>0, <2>1, KitConstants DEF LegendInv, HighlightInv, Has
    <3> QED BY <2>0, <2>a, <3>1, <3>2, <3>3, <3>4 DEF HighlightInv, Has
  <2>2. ASSUME NEW name, ClickAnchor(name) \/ ClickLabel(name) PROVE HighlightInv'
    <3>1. UNCHANGED <<series, lines, natural, activeLine, originalIndex, color, given, colorSafe>>
      BY <2>2 DEF ClickAnchor, ClickLabel, highlightVars
    <3> QED BY <2>0, <3>1 DEF HighlightInv, Has
  <2>3. ASSUME NEW name \in ToSet(series), Has("highlight"), activeLine = Undefined, MouseOver(name)
        PROVE  HighlightInv'
    <3> DEFINE index == IndexOf(name, series)
               others == ToSet(lines) \ {name}
    <3>1. /\ activeLine' = name
          /\ series' = IF unstack THEN Append(RemoveAt(series, index), name) ELSE series
          /\ originalIndex' = IF unstack THEN [originalIndex EXCEPT ![name] = index] ELSE originalIndex
          /\ colorSafe' = [other \in Name |->
                             IF other \in others /\ colorSafe[other] = Undefined
                             THEN color[other] ELSE colorSafe[other]]
          /\ color' = [other \in Name |->
                         IF other \in others THEN [color[other] EXCEPT !.dimmed = @ + 1]
                         ELSE color[other]]
          /\ UNCHANGED <<lines, given, natural>>
      BY <2>3 DEF MouseOver
    <3>2. index \in 1 .. Len(series) /\ series[index] = name
      <4>1. \E i \in DOMAIN series : series[i] = name BY SetOfSeq DEF LegendInv
      <4> QED BY <4>1, SetOfSeq DEF IndexOf, LegendInv
    <3> HIDE DEF index
    <3>3. series = natural /\ \A n \in Name : originalIndex[n] = Undefined /\ color[n].dimmed = 0
      BY <2>0, <2>3 DEF HighlightInv
    <3>4. name \in Name /\ name \in ToSet(lines) /\ name # Undefined BY <2>0, <2>a
    <3>5. /\ natural' \in Seq(Name) /\ Len(natural') = Len(series') /\ ToSet(natural') = ToSet(series')
      <4>1. CASE ~unstack BY <3>1, <3>3, <4>1 DEF HighlightInv
      <4>2. CASE unstack
        <5> DEFINE rest == RemoveAt(series, index)
        <5>1. /\ rest \in Seq(Name) /\ Len(rest) = Len(series) - 1
              /\ ToSet(rest) = ToSet(series) \ {name}
          BY <3>2, RemoveAtFacts DEF LegendInv
        <5> HIDE DEF rest
        <5>2. Len(Append(rest, name)) = Len(rest) + 1 /\ ToSet(Append(rest, name)) = ToSet(rest) \cup {name}
          BY <3>4, <5>1, AppendFacts
        <5>3. Len(series) \in Nat BY SetOfSeq DEF LegendInv
        <5>4. series' = Append(rest, name) BY <3>1, <4>2 DEF rest
        <5>5. Len(series') = Len(series) BY <5>1, <5>2, <5>3, <5>4
        <5>6. ToSet(series') = ToSet(series) BY <5>1, <5>2, <5>4
        <5> QED BY <3>1, <5>5, <5>6 DEF HighlightInv
      <4> QED BY <4>1, <4>2
    <3>6. unstack => /\ natural'[index] = name /\ index \in 1 .. Len(natural')
                     /\ series' = Append(RemoveAt(natural', index), natural'[index])
                     /\ originalIndex'[name] = index
      BY <3>1, <3>2, <3>3, <3>4 DEF LegendInv
    <3>7. \A n \in Name : originalIndex'[n] # Undefined => n = name /\ unstack
      BY <3>1, <3>3 DEF LegendInv
    <3>8. ~unstack => series' = natural' BY <3>1, <3>3
    <3>9. \A n \in Name : /\ colorSafe'[n] \in {Undefined} \cup [hue : given[n], dimmed : {0}]
                          /\ color'[n] \in [hue : given[n], dimmed : {0, 1}]
                          /\ color'[n].dimmed = 1 => n \in others /\ colorSafe'[n] # Undefined
      <4> HIDE DEF others
      <4> TAKE n \in Name
      <4> DEFINE c == color[n]
      <4>1. /\ colorSafe[n] \in {Undefined} \cup [hue : given[n], dimmed : {0}]
            /\ c \in [hue : given[n], dimmed : {0, 1}] /\ c.dimmed = 0
            /\ given[n] \subseteq Hue
            /\ color'[n] = IF n \in others THEN [c EXCEPT !.dimmed = @ + 1] ELSE c
            /\ colorSafe'[n] = IF n \in others /\ colorSafe[n] = Undefined THEN c ELSE colorSafe[n]
        BY <3>1, <3>3 DEF HighlightInv
      <4> HIDE DEF c
      <4>2. c \in [hue : given[n], dimmed : {0}] /\ c # Undefined
        BY <4>1, GraphConstants
      <4>3. /\ [c EXCEPT !.dimmed = @ + 1] \in [hue : given[n], dimmed : {1}]
        BY <4>2
      <4> QED BY <4>1, <4>2, <4>3
    <3> QED BY <2>0, <2>3, <3>1, <3>4, <3>5, <3>6, <3>7, <3>8, <3>9 DEF HighlightInv, Has
  <2>4. ASSUME NEW name \in ToSet(series), activeLine = name, MouseOut(name) PROVE HighlightInv'
    <3>1. name \in Name /\ name # Undefined BY <2>0, <2>a
    <3>2. /\ activeLine' = Undefined
          /\ series' = IF originalIndex[name] = Undefined THEN series
                       ELSE InsertAt(Front(series), originalIndex[name], Last(series))
          /\ originalIndex' = [originalIndex EXCEPT ![name] = Undefined]
          /\ color' = [other \in Name |->
                         IF other \in ToSet(lines) /\ colorSafe[other] # Undefined
                         THEN colorSafe[other] ELSE color[other]]
          /\ UNCHANGED <<given, colorSafe, lines, natural>>
      BY <2>4, <3>1 DEF MouseOut
    <3>3. series' = natural
      <4>1. CASE ~unstack BY <2>4, <3>1, <3>2, <4>1 DEF HighlightInv
      <4>2. CASE unstack
        <5>1. PICK i \in 1 .. Len(natural) :
                /\ natural[i] = name
                /\ series = Append(RemoveAt(natural, i), natural[i])
                /\ originalIndex[name] = i
          BY <2>4, <3>1, <4>2 DEF HighlightInv
        <5>2. i # Undefined
          <6>1. Len(natural) \in Nat BY SetOfSeq DEF HighlightInv
          <6> QED BY <2>0, <5>1, <6>1
        <5>3. InsertAt(Front(series), i, Last(series)) = natural
          BY <5>1, PutBack DEF HighlightInv
        <5> QED BY <3>2, <5>1, <5>2, <5>3
      <4> QED BY <4>1, <4>2
    <3>4. \A n \in Name : originalIndex'[n] = Undefined
      BY <2>4, <3>1, <3>2 DEF HighlightInv, LegendInv
    <3>5. \A n \in Name : color'[n] \in [hue : given[n], dimmed : {0}]
      <4> TAKE n \in Name
      <4>1. /\ color'[n] = IF n \in ToSet(lines) /\ colorSafe[n] # Undefined THEN colorSafe[n] ELSE color[n]
            /\ colorSafe[n] \in {Undefined} \cup [hue : given[n], dimmed : {0}]
            /\ color[n] \in [hue : given[n], dimmed : {0, 1}]
            /\ color[n].dimmed = 1 => n \in ToSet(lines) /\ colorSafe[n] # Undefined
        BY <3>2 DEF HighlightInv
      <4> QED BY <4>1
    <3>6. \A n \in Name : color'[n].dimmed = 0 /\ color'[n] \in [hue : given[n], dimmed : {0, 1}]
      BY <3>5
    <3> QED BY <2>0, <3>2, <3>3, <3>4, <3>6 DEF HighlightInv, Has
  <2>5. ASSUME NEW name \in ToSet(series), NEW place \in DOMAIN series, Has("order"), DropLine(name, place)
        PROVE  HighlightInv'
    <3>1. /\ natural' = series'
          /\ UNCHANGED <<lines, activeLine, originalIndex, color, given, colorSafe>>
      BY <2>5 DEF DropLine, highlightVars
    <3>2. unstack => activeLine = Undefined
      BY <2>0, <2>5, KitConstants DEF LegendInv, HighlightInv, Has
    <3> QED BY <2>0, <2>a, <3>1, <3>2 DEF HighlightInv, Has
  <2>6. CASE UNCHANGED <<series, disabled, legendVars>>
    BY <2>0, <2>6 DEF HighlightInv, legendVars, Has
  <2>7. ASSUME NEW reply \in Replies, NEW colors \in Recolorings, Splice(reply, colors),
               UNCHANGED <<series, disabled, lineVars>>
        PROVE  HighlightInv'
    <3> DEFINE recolored == {n \in DOMAIN reply : colors[n] # Undefined}
    <3>1. UNCHANGED <<series, lines, natural, activeLine, originalIndex, colorSafe>>
      BY <2>7 DEF lineVars
    <3>2. /\ color' = [n \in Name |-> IF n \in recolored THEN [hue |-> colors[n], dimmed |-> 0]
                                      ELSE color[n]]
          /\ given' = [n \in Name |-> given[n] \cup IF n \in recolored THEN {colors[n]} ELSE {}]
      BY <2>7 DEF Splice
    <3>3. ASSUME NEW n \in Name, n \in recolored PROVE colors[n] \in Hue
      BY <3>3, PointConstants
    <3> HIDE DEF recolored
    <3>4. \A n \in Name :
            /\ given'[n] \subseteq Hue
            /\ colorSafe'[n] \in {Undefined} \cup [hue : given'[n], dimmed : {0}]
            /\ color'[n] \in [hue : given'[n], dimmed : {0, 1}]
            /\ color'[n].dimmed = 1 => color[n].dimmed = 1
      <4> TAKE n \in Name
      <4>1. /\ given[n] \subseteq Hue
            /\ colorSafe[n] \in {Undefined} \cup [hue : given[n], dimmed : {0}]
            /\ color[n] \in [hue : given[n], dimmed : {0, 1}]
        BY DEF HighlightInv
      <4>2. CASE n \in recolored
        <5>1. color'[n] = [hue |-> colors[n], dimmed |-> 0] /\ given'[n] = given[n] \cup {colors[n]}
          BY <3>2, <4>2
        <5> QED BY <3>1, <3>3, <4>1, <4>2, <5>1
      <4>3. CASE n \notin recolored
        BY <3>1, <3>2, <4>1, <4>3
      <4> QED BY <4>2, <4>3
    <3> QED BY <2>0, <3>1, <3>4 DEF HighlightInv, Has
  <2> QED BY <2>1, <2>2, <2>3, <2>4, <2>5, <2>6, <2>7, StepsOfLegend
<1> QED BY <1>1, <1>2, LegendInvHolds, PTL DEF Spec

\* Moving the pointer over the lines leaves no trace: once no line is highlighted the series
\* are in their order again, and each in a full colour that it was given, by the page or by
\* a reply, even one that came while it was dimmed; meanwhile none is lost or doubled, and
\* none dimmed twice.
THEOREM HighlightIsUndone == Spec => []HighlightLeavesNoTrace
<1>1. HighlightInv /\ LegendInv => HighlightLeavesNoTrace
  <2> SUFFICES ASSUME HighlightInv, LegendInv PROVE HighlightLeavesNoTrace
    OBVIOUS
  <2>1. \A name \in Name :
          /\ color[name].dimmed \in {0, 1} /\ color[name].hue \in given[name]
          /\ color[name].dimmed = 1 => name # activeLine /\ activeLine # Undefined
    BY DEF HighlightInv
  <2>2. ToSet(lines) \subseteq Name BY SetOfSeq DEF LegendInv
  <2>3. activeLine # Undefined => activeLine \in Name BY <2>2 DEF HighlightInv
  <2> QED BY <2>1, <2>2, <2>3 DEF HighlightInv, HighlightLeavesNoTrace, InFullColour
<1> QED BY <1>1, LegendInvHolds, HighlightInvHolds, PTL

-----------------------------------------------------------------------------
(* The screen.                                                             *)

\* What a step does to the graph: nothing, or it draws it, or tries once more to make it.
LEMMA StepsOfGraph ==
  ASSUME [Next]_vars
  PROVE  \/ UNCHANGED graphVars
         \/ /\ kit.source = "ajax" /\ ~Built
            /\ \E reply \in Replies, colors \in Recolorings : Splice(reply, colors)
            /\ ConstructAgain
            /\ UNCHANGED <<disabled, window, unstack, aggregation>>
         \/ /\ Render
            /\ unstack' = unstack
            /\ Built \/ (disabled' = disabled /\ aggregation' = aggregation)
            /\ window' = window \/ Has("preview") \/ Has("slider")
            /\ aggregation' = aggregation \/ (Has("smoother") /\ aggregation' \in Scales)
<1> USE DEF Clicked, pointVars
<1>1. ASSUME NEW row, Row(row)
      PROVE  /\ Render /\ unstack' = unstack /\ Built
             /\ window' = window /\ aggregation' = aggregation
  BY <1>1 DEF Row
<1>2. ASSUME NEW reply \in Replies, NEW colors \in Recolorings, Reply(reply, colors), ~Built
      PROVE  /\ kit.source = "ajax" /\ Splice(reply, colors) /\ ConstructAgain
             /\ UNCHANGED <<disabled, window, unstack, aggregation>>
  BY <1>2 DEF Reply
<1>3. ASSUME NEW reply \in Replies, NEW colors \in Recolorings, Reply(reply, colors), Built
      PROVE  /\ Render /\ unstack' = unstack /\ Built
             /\ window' = window /\ aggregation' = aggregation
  BY <1>3 DEF Reply
<1>4. ASSUME NEW name,
             Anchor(name) \/ Label(name) \/ Enter(name) \/ Leave(name) \/ \E place : Drop(name, place)
      PROVE  /\ Render /\ unstack' = unstack /\ Built
             /\ window' = window /\ aggregation' = aggregation
  BY <1>4 DEF Anchor, Label, Enter, Leave, Drop
<1>5. ASSUME NEW x, NEW graphic, Move(x, graphic) PROVE UNCHANGED graphVars
  BY <1>5 DEF Move
<1>6. ASSUME Out PROVE UNCHANGED graphVars
  BY <1>6 DEF Out
<1>7. ASSUME NEW side, Press(side) PROVE UNCHANGED graphVars
  BY <1>7 DEF Press, MouseDown
<1>8. ASSUME NEW distance, Drag(distance)
      PROVE  /\ Render /\ unstack' = unstack /\ Has("preview")
             /\ disabled' = disabled /\ aggregation' = aggregation
  BY <1>8 DEF Drag, Pan
<1>9. ASSUME Release PROVE UNCHANGED graphVars
  BY <1>9 DEF Release, MouseUp
<1>10. ASSUME NEW width, Configure(width) PROVE UNCHANGED graphVars
  BY <1>10 DEF Configure, Resize
<1>11. ASSUME NEW low, NEW high, SlideHandles(low, high)
       PROVE  /\ Render /\ unstack' = unstack /\ Has("slider")
              /\ disabled' = disabled /\ aggregation' = aggregation
  BY <1>11 DEF SlideHandles, Pan
<1>12. ASSUME NEW value, JoinHandles(value) PROVE UNCHANGED graphVars
  BY <1>12 DEF JoinHandles, Meet
<1>13. ASSUME NEW scale \in Scales, Smoothen(scale)
       PROVE  /\ Render /\ unstack' = unstack /\ Built
              /\ window' = window /\ Has("smoother") /\ aggregation' \in Scales
  BY <1>13 DEF Smoothen, SetScale
<1>14. ASSUME UNCHANGED vars PROVE UNCHANGED graphVars
  BY <1>14 DEF vars
<1> HIDE DEF Clicked, pointVars
<1> QED
  BY <1>1, <1>2, <1>3, <1>4, <1>5, <1>6, <1>7, <1>8, <1>9, <1>10, <1>11, <1>12, <1>13, <1>14 DEF Next

\* What has been drawn, unless drawing threw, is what is to be drawn now.  A graph that a
\* reply can still bring about has been left as it was.
ScreenInv ==
  /\ failed \in BOOLEAN /\ unstack \in BOOLEAN
  /\ aggregation \in Nat \ {0}
  /\ ~failed => stackedData = StackData(series, disabled, data, window, aggregation)
  /\ kit.source = "ajax" /\ ~Built => disabled = {} /\ window = Open /\ aggregation = 1

LEMMA StackDataFacts ==
  ASSUME NEW names \in Seq(Name), NEW off, NEW points, NEW win, NEW scale
  PROVE  /\ Len(StackData(names, off, points, win, scale)) = Len(Active(names, off))
         /\ StackData(names, off, points, win, scale) = <<>> <=> Active(names, off) = <<>>
         /\ DOMAIN StackData(names, off, points, win, scale) = 1 .. Len(Active(names, off))
         /\ \A i \in 1 .. Len(Active(names, off)) :
              StackData(names, off, points, win, scale)[i]
                = Smooth(Slice(points[Active(names, off)[i]], win), scale)
<1> DEFINE active == Active(names, off)
           slice(i) == Smooth(Slice(points[active[i]], win), scale)
           r == [i \in DOMAIN active |-> slice(i)]
           T == {slice(i) : i \in DOMAIN active}
<1>1. active \in Seq(Name) BY ActiveFacts
<1> HIDE DEF active
<1>2. Len(active) \in Nat /\ DOMAIN active = 1 .. Len(active) /\ (active = <<>> <=> Len(active) = 0)
  BY <1>1, SetOfSeq
<1>3. StackData(names, off, points, win, scale) = r BY DEF StackData, active
<1> HIDE DEF slice
<1>4. r \in Seq(T) /\ Len(r) = Len(active) /\ \A i \in 1 .. Len(active) : r[i] = slice(i) BY <1>2
<1>5. r = <<>> <=> Len(r) = 0 BY <1>4, SetOfSeq
<1> QED BY <1>2, <1>3, <1>4, <1>5 DEF active, slice

LEMMA ScreenInvHolds == Spec => []ScreenInv
<1>1. Init => ScreenInv
  <2> SUFFICES ASSUME Init PROVE ScreenInv
    OBVIOUS
  <2>1. kit \in Kits /\ kit.stacked \in BOOLEAN BY KitConstants DEF Init
  <2>2. PICK names, points : Construct(names, points, kit.stacked)
    BY DEF Init
  <2>3. /\ series = names /\ data = points /\ disabled = {} /\ window = Open /\ unstack = ~kit.stacked
        /\ aggregation = 1 /\ failed = Refused(Lists(names, points), kit.stacked)
        /\ stackedData = IF failed THEN <<>> ELSE StackData(names, {}, points, Open, 1)
    BY <2>2 DEF Construct
  <2>4. failed \in BOOLEAN BY <2>3 DEF Refused
  <2> QED BY <2>1, <2>3, <2>4 DEF ScreenInv
<1>2. LegendInv' /\ ScreenInv /\ [Next]_vars => ScreenInv'
  <2> SUFFICES ASSUME LegendInv', ScreenInv, [Next]_vars PROVE ScreenInv'
    OBVIOUS
  <2>0. kit' = kit BY StepsOfLegend
  <2>1. CASE UNCHANGED graphVars
    BY <2>0, <2>1 DEF graphVars, pointVars, ScreenInv, Built, StackData, Open
  <2>2. CASE /\ kit.source = "ajax" /\ ~Built /\ ConstructAgain
             /\ UNCHANGED <<disabled, window, unstack, aggregation>>
    <3>1. disabled' = {} /\ window' = Open /\ aggregation' = 1 BY <2>2 DEF ScreenInv
    <3>2. /\ failed' = Refused(Lists(series', data'), ~unstack)
          /\ stackedData' = IF failed' THEN <<>> ELSE StackData(series', {}, data', Open, 1)
      BY <2>2 DEF ConstructAgain
    <3>3. failed' \in BOOLEAN BY <3>2 DEF Refused
    <3> QED BY <2>0, <2>2, <3>1, <3>2, <3>3 DEF ScreenInv, Open
  <2>3. CASE /\ Render
             /\ unstack' = unstack
             /\ Built \/ (disabled' = disabled /\ aggregation' = aggregation)
             /\ window' = window \/ Has("preview") \/ Has("slider")
             /\ aggregation' = aggregation \/ (Has("smoother") /\ aggregation' \in Scales)
    <3> DEFINE drawn == StackData(series', disabled', data', window', aggregation')
    <3>1. /\ failed' \in BOOLEAN
          /\ ~failed' => stackedData' = drawn
          /\ failed' => stackedData' = stackedData
      BY <2>3 DEF Render
    <3>2. drawn # <<>>
      <4>1. series' \in Seq(Name) /\ ToSet(series') \ disabled' # {} BY DEF LegendInv
      <4>2. Active(series', disabled') # <<>> BY <4>1, ActiveNonEmpty
      <4> QED BY <4>1, <4>2, StackDataFacts
    <3> HIDE DEF drawn
    <3>3. aggregation' \in Nat \ {0} BY <2>3, PointConstants DEF ScreenInv
    <3>4. ASSUME kit.source = "ajax", ~Built' PROVE disabled' = {} /\ window' = Open /\ aggregation' = 1
      <4>1. ~Built BY <3>1, <3>2, <3>4 DEF Built
      <4>2. window' = window
        <5>1. kit' \in Kits BY DEF LegendInv
        <5> QED BY <2>0, <2>3, <3>4, <5>1, KitConstants DEF Has
      <4> QED BY <2>3, <3>4, <4>1, <4>2 DEF ScreenInv
    <3> QED BY <2>0, <2>3, <3>1, <3>3, <3>4 DEF ScreenInv, drawn, Open
  <2> QED BY <2>1, <2>2, <2>3, StepsOfGraph
<1> QED BY <1>1, <1>2, LegendInvHolds, PTL DEF Spec

\* What a step does to the variables of the extensions.
LEMMA StepsOfExtensions ==
  ASSUME [Next]_vars
  PROVE  /\ visible' = visible \/ visible' \in BOOLEAN
         /\ \/ slider' = slider
            \/ \E low, high : slider' = [slider EXCEPT !.low = low, !.high = high]
            \/ \E low, high : \E refused \in BOOLEAN :
                 slider' = [low |-> low, high |-> high, refused |-> refused]
         /\ previewWidth' = previewWidth \/ previewWidth' \in PreviewWidths
<1> DEFINE Kept ==
             /\ visible' = visible \/ visible' \in BOOLEAN
             /\ \/ slider' = slider
                \/ \E low, high : slider' = [slider EXCEPT !.low = low, !.high = high]
                \/ \E low, high : \E refused \in BOOLEAN :
                     slider' = [low |-> low, high |-> high, refused |-> refused]
             /\ previewWidth' = previewWidth \/ previewWidth' \in PreviewWidths
<1>1. ASSUME Updated PROVE Kept
  <2>1. visible' = visible BY <1>1 DEF Updated, HoverUpdated, hoverVars
  <2>2. CASE UNCHANGED rangeVars BY <2>1, <2>2 DEF rangeVars
  <2>3. CASE PreviewUpdated BY <2>1, <2>3 DEF PreviewUpdated
  <2>4. CASE SliderUpdated
    <3>1. PICK low, high : slider' = [slider EXCEPT !.low = low, !.high = high]
      <4> DEFINE domain == DataDomain(series', data')
                 l == IF window'.xMin = Undefined THEN domain.min ELSE slider.low
                 h == IF window'.xMax = Undefined THEN domain.max ELSE slider.high
                 f == [slider EXCEPT !.low = l]
      <4>1. slider' = [slider EXCEPT !.low = IF window'.xMin = Undefined THEN domain.min ELSE @,
                                     !.high = IF window'.xMax = Undefined THEN domain.max ELSE @]
        BY <2>4 DEF SliderUpdated
      <4>2. f.high = slider.high \/ "high" \notin DOMAIN slider OBVIOUS
      <4> HIDE DEF domain
      <4>3. slider' = [slider EXCEPT !.low = l, !.high = h] BY <4>1, <4>2
      <4> QED BY <4>3
    <3> QED BY <2>1, <2>4, <3>1 DEF SliderUpdated
  <2> QED BY <1>1, <2>2, <2>3, <2>4 DEF Updated
<1>2. ASSUME NEW NewWindow, Pan(NewWindow) PROVE visible' = visible
  BY <1>2 DEF Pan, HoverUpdated, hoverVars
<1>3. ASSUME NEW row, Row(row) PROVE Kept BY <1>1, <1>3 DEF Row
<1>4. ASSUME NEW reply, NEW colors, Reply(reply, colors) PROVE Kept
  BY <1>1, <1>4 DEF Reply, hoverVars, rangeVars
<1>5. ASSUME NEW name,
             Anchor(name) \/ Label(name) \/ Enter(name) \/ Leave(name) \/ \E place : Drop(name, place)
      PROVE  Kept
  BY <1>1, <1>5 DEF Anchor, Label, Enter, Leave, Drop, Clicked
<1>6. ASSUME NEW x, NEW graphic, Move(x, graphic) PROVE Kept
  BY <1>6 DEF Move, MouseMove, rangeVars
<1>7. ASSUME Out PROVE Kept BY <1>7 DEF Out, Hide, rangeVars
<1>8. ASSUME NEW side, Press(side) PROVE Kept BY <1>8 DEF Press, MouseDown, hoverVars
<1>9. ASSUME NEW distance, Drag(distance) PROVE Kept
  BY <1>2, <1>9 DEF Drag, PreviewUpdated
<1>10. ASSUME Release PROVE Kept BY <1>10 DEF Release, MouseUp, hoverVars
<1>11. ASSUME NEW width \in PreviewWidths, Configure(width) PROVE Kept
  BY <1>11 DEF Configure, Resize, hoverVars
<1>12. ASSUME NEW low, NEW high, SlideHandles(low, high) PROVE Kept
  <2>1. visible' = visible BY <1>2, <1>12 DEF SlideHandles
  <2>2. slider' = [low |-> low, high |-> high, refused |-> FALSE] /\ previewWidth' = previewWidth
    BY <1>12 DEF SlideHandles, Pan, Slide
  <2> QED BY <2>1, <2>2
<1>13. ASSUME NEW value, JoinHandles(value) PROVE Kept
  BY <1>13 DEF JoinHandles, Meet, hoverVars
<1>14. ASSUME NEW scale, Smoothen(scale) PROVE Kept BY <1>1, <1>14 DEF Smoothen
<1>15. ASSUME UNCHANGED vars PROVE Kept BY <1>15 DEF vars, hoverVars, rangeVars
<1> HIDE DEF Kept
<1>16. Kept
  BY <1>3, <1>4, <1>5, <1>6, <1>7, <1>8, <1>9, <1>10, <1>11, <1>12, <1>13, <1>14, <1>15 DEF Next
<1> QED BY <1>16 DEF Kept

ExtensionTypes ==
  /\ visible \in BOOLEAN
  /\ Has("slider") => "refused" \in DOMAIN slider /\ slider.refused \in BOOLEAN
  /\ Has("preview") => previewWidth \in PreviewWidths

LEMMA ExtensionTypesHold == Spec => []ExtensionTypes
<1>1. Init => ExtensionTypes
  <2> SUFFICES ASSUME Init PROVE ExtensionTypes
    OBVIOUS
  <2>1. HoverInit /\ (Has("preview") \/ Has("slider") => RangeInit) BY DEF Init
  <2>2. visible \in BOOLEAN BY <2>1 DEF HoverInit
  <2>3. ASSUME RangeInit
        PROVE  "refused" \in DOMAIN slider /\ slider.refused \in BOOLEAN /\ previewWidth \in PreviewWidths
    BY <2>3 DEF RangeInit
  <2> QED BY <2>1, <2>2, <2>3 DEF ExtensionTypes
<1>2. ExtensionTypes /\ [Next]_vars => ExtensionTypes'
  <2> SUFFICES ASSUME ExtensionTypes, [Next]_vars PROVE ExtensionTypes'
    OBVIOUS
  <2>1. kit' = kit BY StepsOfLegend
  <2>2. ASSUME Has("slider")' PROVE "refused" \in DOMAIN slider' /\ slider'.refused \in BOOLEAN
    <3>1. Has("slider") /\ "refused" \in DOMAIN slider /\ slider.refused \in BOOLEAN
      BY <2>1, <2>2 DEF ExtensionTypes, Has
    <3>2. CASE slider' = slider BY <3>1, <3>2
    <3>3. ASSUME NEW low, NEW high, slider' = [slider EXCEPT !.low = low, !.high = high]
          PROVE  "refused" \in DOMAIN slider' /\ slider'.refused \in BOOLEAN
      BY <3>1, <3>3
    <3>4. ASSUME NEW low, NEW high, NEW refused \in BOOLEAN,
                 slider' = [low |-> low, high |-> high, refused |-> refused]
          PROVE  "refused" \in DOMAIN slider' /\ slider'.refused \in BOOLEAN
      BY <3>4
    <3> QED BY <3>2, <3>3, <3>4, StepsOfExtensions
  <2> QED BY <2>1, <2>2, StepsOfExtensions DEF ExtensionTypes, Has
<1> QED BY <1>1, <1>2, PTL DEF Spec

LEMMA LengthOfInjective ==
  ASSUME NEW S, NEW s \in Seq(S), IsInjective(s)
  PROVE  Len(s) = Cardinality(ToSet(s))
<1>1. Len(s) \in Nat /\ DOMAIN s = 1 .. Len(s) BY SetOfSeq
<1>2. IsFiniteSet(1 .. Len(s)) /\ Cardinality(1 .. Len(s)) = Len(s) BY <1>1, FS_Interval
<1>3. s \in Bijection(1 .. Len(s), ToSet(s))
  BY <1>1 DEF Bijection, Injection, Surjection, IsInjective, ToSet
<1> QED BY <1>2, <1>3, FS_Bijection DEF ExistsBijection

\* Types: no series is there twice, the lines in the legend are those of the series, and
\* unless drawing threw there is a slice for each series that is on.
THEOREM ChartTypeCorrect == Spec => []TypeOK
<1>1. LegendInv /\ HighlightInv /\ ScreenInv /\ ExtensionTypes => TypeOK
  <2> SUFFICES ASSUME LegendInv, HighlightInv, ScreenInv, ExtensionTypes PROVE TypeOK
    OBVIOUS
  <2>1. ToSet(series) \subseteq Name /\ Len(series) = Cardinality(ToSet(series))
    BY SetOfSeq, LengthOfInjective DEF LegendInv
  <2>2. ~failed => Len(stackedData) = Len(Active(series, disabled))
    BY StackDataFacts DEF LegendInv, ScreenInv
  <2>3. GraphTypeOK BY <2>1, <2>2 DEF LegendInv, ScreenInv, GraphTypeOK
  <2> QED BY <2>3 DEF LegendInv, HighlightInv, ExtensionTypes, TypeOK
<1> QED BY <1>1, LegendInvHolds, HighlightInvHolds, ScreenInvHolds, ExtensionTypesHold, PTL

-----------------------------------------------------------------------------
(* The points.                                                             *)

PointSet == [x : Int, y : {"number", "null", "text"}]

\* What a step does to the points; the lines tell that no series is new.
LEMMA StepsOfPoints ==
  ASSUME [Next]_vars
  PROVE  \/ \E row \in SUBSET ToSet(kit.names) : kit.source = "fixed" /\ AddRow(row)
         \/ \E reply \in Replies, colors \in Recolorings :
              kit.source = "ajax" /\ Splice(reply, colors) /\ lines' = lines
         \/ UNCHANGED <<data, currentSize, currentIndex, lines>>
<1> DEFINE Kept == UNCHANGED <<data, currentSize, currentIndex, lines>>
<1> USE DEF pointVars, Clicked
<1>1. ASSUME NEW row, Row(row) PROVE kit.source = "fixed" /\ AddRow(row) BY <1>1 DEF Row
<1>2. ASSUME NEW reply, NEW colors, Reply(reply, colors)
      PROVE  kit.source = "ajax" /\ Splice(reply, colors) /\ lines' = lines
  BY <1>2 DEF Reply, lineVars
<1>3. ASSUME NEW name, Anchor(name) \/ Label(name) PROVE Kept
  BY <1>3 DEF Anchor, Label, ClickAnchor, ClickLabel
<1>4. ASSUME NEW name, Enter(name) PROVE Kept
  BY <1>4 DEF Enter, MouseOver, legendVars
<1>5. ASSUME NEW name, Leave(name) PROVE Kept
  BY <1>5 DEF Leave, MouseOut, legendVars
<1>6. ASSUME NEW name, NEW place, Drop(name, place) PROVE Kept
  BY <1>6 DEF Drop, DropLine
<1>7. ASSUME NEW x, NEW graphic, Move(x, graphic) PROVE Kept
  BY <1>7 DEF Move, graphVars, legendVars
<1>8. ASSUME Out PROVE Kept BY <1>8 DEF Out, graphVars, legendVars
<1>9. ASSUME NEW side, Press(side) PROVE Kept
  BY <1>9 DEF Press, MouseDown, graphVars, legendVars
<1>10. ASSUME NEW distance, Drag(distance) PROVE Kept BY <1>10 DEF Drag, Pan, legendVars
<1>11. ASSUME Release PROVE Kept BY <1>11 DEF Release, MouseUp, graphVars, legendVars
<1>12. ASSUME NEW width, Configure(width) PROVE Kept
  BY <1>12 DEF Configure, Resize, graphVars, legendVars
<1>13. ASSUME NEW low, NEW high, SlideHandles(low, high) PROVE Kept
  BY <1>13 DEF SlideHandles, Pan, legendVars
<1>14. ASSUME NEW value, JoinHandles(value) PROVE Kept
  BY <1>14 DEF JoinHandles, Meet, graphVars, legendVars
<1>15. ASSUME NEW scale, Smoothen(scale) PROVE Kept BY <1>15 DEF Smoothen, legendVars
<1>16. ASSUME UNCHANGED vars PROVE Kept BY <1>16 DEF vars, graphVars, legendVars
<1> HIDE DEF Clicked, pointVars, Kept
<1>17. \/ \E row \in SUBSET ToSet(kit.names) : kit.source = "fixed" /\ AddRow(row)
       \/ \E reply \in Replies, colors \in Recolorings :
              kit.source = "ajax" /\ Splice(reply, colors) /\ lines' = lines
       \/ Kept
  BY <1>1, <1>2, <1>3, <1>4, <1>5, <1>6, <1>7, <1>8, <1>9, <1>10, <1>11, <1>12, <1>13, <1>14, <1>15,
     <1>16 DEF Next
<1> QED BY <1>17 DEF Kept

\* The time of the m-th row there ever was: those the series began with, and the first one
\* added, which has the time of the last of these.
RowTime(m) == IF m <= MaxDataPoints - 2 THEN m * TimeInterval ELSE (m - 1) * TimeInterval

\* The last size of index rows.
Rows(size, index) == [j \in 1 .. size |-> Point(RowTime(index - size + j))]

LEMMA RowTimeFacts ==
  ASSUME NEW m \in Nat, NEW n \in Nat
  PROVE  /\ RowTime(m) \in Nat
         /\ m <= n => RowTime(m) <= RowTime(n)
         /\ m + 2 <= n => RowTime(m) < RowTime(n)
         /\ m < n /\ n <= MaxDataPoints - 2 => RowTime(m) < RowTime(n)
<1> DEFINE T == TimeInterval
<1>1. T \in Nat /\ T > 0 /\ MaxDataPoints \in Nat /\ MaxDataPoints > 2 BY GraphConstants
<1> HIDE DEF T
<1>2. \A k \in Nat : k * T \in Nat BY <1>1
<1>3. \A k \in Nat, l \in Nat : k <= l => k * T <= l * T
  <2> TAKE k \in Nat, l \in Nat
  <2>1. ASSUME k <= l PROVE k * T <= l * T
    <3>1. l - k \in Nat /\ (l - k) * T \in Nat BY <1>1, <2>1
    <3>2. l * T = k * T + (l - k) * T BY <1>1
    <3> QED BY <1>1, <3>1, <3>2
  <2> QED BY <2>1
<1>4. \A k \in Nat : (k + 1) * T = k * T + T BY <1>1
<1>5. \A k \in Nat, l \in Nat : k + 1 <= l => k * T < l * T
  <2> TAKE k \in Nat, l \in Nat
  <2>1. ASSUME k + 1 <= l PROVE k * T < l * T
    <3>1. k + 1 \in Nat /\ (k + 1) * T <= l * T BY <1>3, <2>1
    <3> QED BY <1>1, <1>2, <1>4, <3>1
  <2> QED BY <2>1
<1>6. \A k \in Nat : RowTime(k) = IF k <= MaxDataPoints - 2 THEN k * T ELSE (k - 1) * T
  BY DEF RowTime, T
<1>7. /\ m > MaxDataPoints - 2 => m - 1 \in Nat
      /\ n > MaxDataPoints - 2 => n - 1 \in Nat
  BY <1>1
<1>8. RowTime(m) \in Nat BY <1>1, <1>2, <1>6, <1>7
<1>9. ASSUME m <= n PROVE RowTime(m) <= RowTime(n)
  <2>1. CASE n <= MaxDataPoints - 2
    <3>1. m <= MaxDataPoints - 2 BY <1>1, <1>9, <2>1
    <3> QED BY <1>3, <1>6, <1>9, <2>1, <3>1
  <2>2. CASE n > MaxDataPoints - 2 /\ m <= MaxDataPoints - 2
    <3>1. m <= n - 1 BY <1>1, <2>2
    <3>2. ~(n <= MaxDataPoints - 2) BY <1>1, <2>2
    <3> QED BY <1>3, <1>6, <1>7, <2>2, <3>1, <3>2
  <2>3. CASE n > MaxDataPoints - 2 /\ m > MaxDataPoints - 2
    <3>1. m - 1 <= n - 1 /\ ~(n <= MaxDataPoints - 2) /\ ~(m <= MaxDataPoints - 2) BY <1>1, <1>9, <2>3
    <3> QED BY <1>3, <1>6, <1>7, <2>3, <3>1
  <2> QED BY <1>1, <2>1, <2>2, <2>3
<1>10. ASSUME m + 2 <= n PROVE RowTime(m) < RowTime(n)
  <2>1. CASE n <= MaxDataPoints - 2
    <3>1. m <= MaxDataPoints - 2 /\ m + 1 <= n BY <1>1, <1>10, <2>1
    <3> QED BY <1>5, <1>6, <2>1, <3>1
  <2>2. CASE n > MaxDataPoints - 2 /\ m <= MaxDataPoints - 2
    <3>1. m + 1 <= n - 1 /\ ~(n <= MaxDataPoints - 2) BY <1>1, <1>10, <2>2
    <3> QED BY <1>5, <1>6, <1>7, <2>2, <3>1
  <2>3. CASE n > MaxDataPoints - 2 /\ m > MaxDataPoints - 2
    <3>1. (m - 1) + 1 <= n - 1 /\ ~(n <= MaxDataPoints - 2) /\ ~(m <= MaxDataPoints - 2)
      BY <1>1, <1>10, <2>3
    <3> QED BY <1>5, <1>6, <1>7, <2>3, <3>1
  <2> QED BY <1>1, <2>1, <2>2, <2>3
<1>11. ASSUME m < n, n <= MaxDataPoints - 2 PROVE RowTime(m) < RowTime(n)
  <2>1. m <= MaxDataPoints - 2 /\ m + 1 <= n BY <1>1, <1>11
  <2> QED BY <1>5, <1>6, <1>11, <2>1
<1> QED BY <1>8, <1>9, <1>10, <1>11

LEMMA RowsFacts ==
  ASSUME NEW size \in Nat, NEW index \in Nat, size <= index
  PROVE  /\ Rows(size, index) \in Seq(PointSet) /\ Len(Rows(size, index)) = size
         /\ \A j \in 1 .. size : /\ Rows(size, index)[j] = Point(RowTime(index - size + j))
                                 /\ index - size + j \in Nat
                                 /\ RowTime(index - size + j) \in Int
<1>1. ASSUME NEW j \in 1 .. size
      PROVE  /\ index - size + j \in Nat
             /\ RowTime(index - size + j) \in Int
             /\ Point(RowTime(index - size + j)) \in PointSet
  <2>1. index - size + j \in Nat OBVIOUS
  <2>2. RowTime(index - size + j) \in Nat BY <2>1, RowTimeFacts
  <2> QED BY <2>1, <2>2 DEF Point, PointSet
<1> DEFINE e(j) == Point(RowTime(index - size + j))
           r == [j \in 1 .. size |-> e(j)]
<1>2. \A j \in 1 .. size : e(j) \in PointSet BY <1>1
<1>3. Rows(size, index) = r BY DEF Rows
<1> HIDE DEF e
<1>4. r \in Seq(PointSet) /\ Len(r) = size /\ \A j \in 1 .. size : r[j] = e(j) BY <1>2
<1> QED BY <1>1, <1>3, <1>4 DEF e

LEMMA NextRow ==
  ASSUME NEW size \in Nat, NEW index \in Nat, size <= index, MaxDataPoints - 2 <= index
  PROVE  /\ Append(Rows(size, index), Point(index * TimeInterval)) = Rows(size + 1, index + 1)
         /\ Tail(Rows(size + 1, index + 1)) = Rows(size, index + 1)
<1> DEFINE p == Point(index * TimeInterval)
           s == Rows(size, index)
           r == Rows(size + 1, index + 1)
<1>1. MaxDataPoints \in Nat /\ TimeInterval \in Nat BY GraphConstants
<1>2. s \in Seq(PointSet) /\ Len(s) = size /\ \A j \in 1 .. size : s[j] = Point(RowTime(index - size + j))
  BY RowsFacts
<1>3. /\ r \in Seq(PointSet) /\ Len(r) = size + 1
      /\ \A j \in 1 .. size + 1 : r[j] = Point(RowTime((index + 1) - (size + 1) + j))
  <2>1. size + 1 \in Nat /\ index + 1 \in Nat /\ size + 1 <= index + 1 OBVIOUS
  <2> QED BY <2>1, RowsFacts
<1>4. p \in PointSet
  <2>1. index * TimeInterval \in Int BY <1>1
  <2> QED BY <2>1 DEF Point, PointSet
<1>5. RowTime(index + 1) = index * TimeInterval
  <2>1. ~(index + 1 <= MaxDataPoints - 2) /\ (index + 1) - 1 = index BY <1>1
  <2> QED BY <2>1 DEF RowTime
<1>6. Append(s, p) = r
  <2> HIDE DEF s, r
  <2>1. /\ Append(s, p) \in Seq(PointSet) /\ Len(Append(s, p)) = size + 1
        /\ \A j \in 1 .. size : Append(s, p)[j] = s[j]
        /\ Append(s, p)[size + 1] = p
    BY <1>2, <1>4, AppendFacts
  <2>2. ASSUME NEW j \in 1 .. size + 1 PROVE Append(s, p)[j] = r[j]
    <3>1. CASE j = size + 1
      <4>1. (index + 1) - (size + 1) + j = index + 1 BY <3>1
      <4> QED BY <1>3, <1>5, <2>1, <3>1, <4>1
    <3>2. CASE j # size + 1
      <4>1. j \in 1 .. size /\ (index + 1) - (size + 1) + j = index - size + j BY <3>2
      <4> QED BY <1>2, <1>3, <2>1, <4>1
    <3> QED BY <3>1, <3>2
  <2> QED BY <1>3, <2>1, <2>2, SeqEqual
<1>7. Tail(r) = Rows(size, index + 1)
  <2> DEFINE t == Rows(size, index + 1)
  <2>1. t \in Seq(PointSet) /\ Len(t) = size /\ \A j \in 1 .. size : t[j] = Point(RowTime((index + 1) - size + j))
    <3>1. index + 1 \in Nat /\ size <= index + 1 OBVIOUS
    <3> QED BY <3>1, RowsFacts
  <2> HIDE DEF r, t
  <2>2. r # <<>>
    <3>1. Len(r) # 0 BY <1>3
    <3> QED BY <1>3, <3>1, SetOfSeq
  <2>3. /\ Tail(r) \in Seq(PointSet) /\ Len(Tail(r)) = Len(r) - 1
        /\ \A j \in 1 .. Len(Tail(r)) : Tail(r)[j] = r[j + 1]
    BY <1>3, <2>2, HeadTailProperties
  <2>4. Len(Tail(r)) = size BY <1>3, <2>3
  <2>5. ASSUME NEW j \in 1 .. size PROVE Tail(r)[j] = t[j]
    <3>1. j + 1 \in 1 .. size + 1 /\ (index + 1) - (size + 1) + (j + 1) = (index + 1) - size + j OBVIOUS
    <3> QED BY <1>3, <2>1, <2>3, <2>4, <3>1
  <2>6. Tail(r) = t BY <2>1, <2>3, <2>4, <2>5, SeqEqual
  <2> QED BY <2>6 DEF t
<1> QED BY <1>6, <1>7

\* All series of a FixedDuration have the same rows: the last ones there were.
RowsInv ==
  kit.source = "fixed" =>
    /\ currentSize \in Nat /\ currentIndex \in Nat
    /\ MaxDataPoints - 2 <= currentSize /\ currentSize <= MaxDataPoints
    /\ currentSize <= currentIndex
    /\ currentSize = currentIndex \/ currentSize = MaxDataPoints
    /\ \A name \in ToSet(series) : data[name] = Rows(currentSize, currentIndex)
    /\ ~failed

LEMMA EvenListsStack ==
  ASSUME NEW names \in Seq(Name), NEW points, NEW n,
         \A name \in ToSet(names) : Len(points[name]) = n
  PROVE  Stackable(Lists(names, points))
<1>1. \A i \in 1 .. Len(names) : names[i] \in ToSet(names) BY SetOfSeq
<1>2. DOMAIN names = 1 .. Len(names) /\ Len(names) \in Nat BY SetOfSeq
<1> DEFINE lists == Lists(names, points)
           T == {points[names[i]] : i \in 1 .. Len(names)}
<1>3. lists \in Seq(T) /\ Len(lists) = Len(names) /\ \A i \in 1 .. Len(names) : lists[i] = points[names[i]]
  BY <1>2 DEF Lists
<1>4. \A i \in 1 .. Len(names) : Len(lists[i]) = n BY <1>1, <1>3
<1> HIDE DEF lists, T
<1>5. \A i \in NonEmpty(lists) : i \in 1 .. Len(names) BY <1>3 DEF NonEmpty
<1>6. \A i \in NonEmpty(lists) : \A j \in i .. Len(lists) : j \in 1 .. Len(names)
  BY <1>2, <1>3, <1>5
<1> QED BY <1>4, <1>5, <1>6 DEF Stackable, lists

LEMMA RowsInvHolds == Spec => []RowsInv
<1>1. Init => RowsInv
  <2> SUFFICES ASSUME Init, kit.source = "fixed" PROVE RowsInv
    BY DEF RowsInv
  <2> DEFINE name == kit.names[1]
             points == [n \in Name |-> IF n = name THEN ZeroFilled ELSE <<>>]
             N == MaxDataPoints - 2
  <2>1. /\ Construct(<<name>>, points, kit.stacked) /\ RowsBegin BY DEF Init
  <2>2. name \in Name
    <3>1. kit.names \in Seq(Name) /\ kit.names # <<>> BY KitConstants DEF Init
    <3>2. 1 \in 1 .. Len(kit.names) BY <3>1, SetOfSeq
    <3> QED BY <3>1, <3>2, ElementOfSeq
  <2>3. MaxDataPoints \in Nat /\ MaxDataPoints > 2 /\ N \in Nat /\ N > 0 BY GraphConstants
  <2>4. currentSize = N /\ currentIndex = N BY <2>1 DEF RowsBegin
  <2>5. ZeroFilled = Rows(N, N)
    <3>1. \A i \in 1 .. N : N - N + i = i /\ i <= N BY <2>3
    <3>2. \A i \in 1 .. N : RowTime(N - N + i) = i * TimeInterval BY <3>1 DEF RowTime
    <3> QED BY <3>2 DEF ZeroFilled, Rows
  <2>6. series = <<name>> /\ data = points /\ failed = Refused(Lists(<<name>>, points), kit.stacked)
    BY <2>1 DEF Construct
  <2> HIDE DEF name, N
  <2>7. ToSet(series) = {name} BY <2>6 DEF ToSet
  <2>8. data[name] = Rows(N, N) BY <2>2, <2>5, <2>6
  <2> DEFINE lists == Lists(<<name>>, points)
             s == Rows(N, N)
  <2>9. lists = <<s>>
    <3>1. points[name] = s BY <2>2, <2>5
    <3> HIDE DEF points, s
    <3> QED BY <3>1 DEF Lists
  <2>10. ValidSeries(s)
    <3>1. /\ s \in Seq(PointSet) /\ Len(s) = N
          /\ \A j \in 1 .. N : s[j] = Point(RowTime(N - N + j)) BY <2>3, RowsFacts
    <3>2. \A j \in 1 .. N : s[j] = Point(RowTime(j))
      <4>1. \A j \in 1 .. N : N - N + j = j BY <2>3
      <4> QED BY <3>1, <4>1
    <3> HIDE DEF s
    <3>a. \A x : Point(x).x = x /\ Point(x).y = "number" BY DEF Point
    <3>3. \A j \in 1 .. N : s[j].x = RowTime(j) /\ s[j].y = "number" BY <3>2, <3>a
    <3>4. 1 \in 1 .. N /\ N \in 1 .. N /\ (N >= 3 => 2 \in 1 .. N /\ 3 \in 1 .. N) BY <2>3
    <3>5. Last(s) = s[N] BY <3>1 DEF Last
    <3>6. RowTime(1) <= RowTime(2) /\ RowTime(2) <= RowTime(3) BY RowTimeFacts
    <3>7. RowTime(1) <= RowTime(N) BY <2>3, RowTimeFacts
    <3> QED BY <3>1, <3>3, <3>4, <3>5, <3>6, <3>7 DEF ValidSeries
  <2>11. Stackable(lists)
    <3> HIDE DEF points, s
    <3>1. points[name] = s BY <2>6, <2>8 DEF s
    <3>2. \A n \in ToSet(<<name>>) : Len(points[n]) = Len(s)
      BY <3>1 DEF ToSet
    <3>3. <<name>> \in Seq(Name) BY <2>2
    <3> QED BY <3>2, <3>3, EvenListsStack
  <2>12. ~failed
    <3> HIDE DEF lists, s
    <3>1. \A i \in DOMAIN lists : ValidSeries(lists[i]) BY <2>9, <2>10
    <3>2. failed = Refused(lists, kit.stacked) BY <2>6 DEF lists
    <3> QED BY <2>11, <3>1, <3>2 DEF Refused
  <2>13. MaxDataPoints - 2 <= N /\ N <= MaxDataPoints BY <2>3 DEF N
  <2> QED BY <2>3, <2>4, <2>7, <2>8, <2>12, <2>13 DEF RowsInv
<1>2. LegendInv /\ LegendInv' /\ RowsInv /\ [Next]_vars => RowsInv'
  <2> SUFFICES ASSUME LegendInv, LegendInv', RowsInv, [Next]_vars, kit.source = "fixed"
               PROVE  RowsInv'
    BY StepsOfLegend DEF RowsInv
  <2>0. kit' = kit BY StepsOfLegend
  <2>1. /\ currentSize \in Nat /\ currentIndex \in Nat
        /\ MaxDataPoints - 2 <= currentSize /\ currentSize <= MaxDataPoints
        /\ currentSize <= currentIndex
        /\ currentSize = currentIndex \/ currentSize = MaxDataPoints
        /\ \A name \in ToSet(series) : data[name] = Rows(currentSize, currentIndex)
        /\ ~failed
    BY DEF RowsInv
  <2>2. /\ currentSize' \in Nat /\ currentIndex' \in Nat
        /\ MaxDataPoints - 2 <= currentSize' /\ currentSize' <= MaxDataPoints
        /\ currentSize' <= currentIndex'
        /\ currentSize' = currentIndex' \/ currentSize' = MaxDataPoints
        /\ \A name \in ToSet(series') : data'[name] = Rows(currentSize', currentIndex')
    <3>1. ASSUME NEW row \in SUBSET ToSet(kit.names), AddRow(row)
          PROVE  /\ currentSize' \in Nat /\ currentIndex' \in Nat
                 /\ MaxDataPoints - 2 <= currentSize' /\ currentSize' <= MaxDataPoints
                 /\ currentSize' <= currentIndex'
                 /\ currentSize' = currentIndex' \/ currentSize' = MaxDataPoints
                 /\ \A name \in ToSet(series') : data'[name] = Rows(currentSize', currentIndex')
      <4> DEFINE names == series \o NewNames(row)
                 p == Point(currentIndex * TimeInterval)
                 full == MaxDataPoints <= currentSize
                 s == Rows(currentSize, currentIndex)
      <4>0. MaxDataPoints \in Nat /\ MaxDataPoints > 2 /\ TimeInterval \in Nat BY GraphConstants
      <4>1. /\ series' = names
            /\ data' = [name \in Name |->
                          IF name \notin ToSet(names) THEN data[name]
                          ELSE IF full THEN Tail(Append(AddItem(name), p)) ELSE Append(AddItem(name), p)]
            /\ currentSize' = IF full THEN currentSize ELSE currentSize + 1
            /\ currentIndex' = currentIndex + 1
        BY <3>1 DEF AddRow
      <4>2. ToSet(series') \subseteq Name BY SetOfSeq DEF LegendInv
      <4>3. ASSUME NEW name PROVE AddItem(name) = s
        <5>1. CASE name \in ToSet(series) BY <2>1, <5>1 DEF AddItem
        <5>2. CASE name \notin ToSet(series)
          <6>1. series[1] \in ToSet(series)
            <7>1. series \in Seq(Name) /\ ToSet(series) # {} BY DEF LegendInv
            <7>2. 1 \in 1 .. Len(series) BY <7>1, SetOfSeq
            <7> QED BY <7>1, <7>2, SetOfSeq
          <6>2. data[series[1]] = s BY <2>1, <6>1
          <6>3. /\ s \in Seq(PointSet) /\ DOMAIN s = 1 .. currentSize
                /\ \A j \in 1 .. currentSize : s[j] = Point(RowTime(currentIndex - currentSize + j))
            <7>1. /\ s \in Seq(PointSet) /\ Len(s) = currentSize
                  /\ \A j \in 1 .. currentSize : s[j] = Point(RowTime(currentIndex - currentSize + j))
              BY <2>1, RowsFacts
            <7> HIDE DEF s
            <7> QED BY <7>1, SetOfSeq
          <6>4. \A j \in 1 .. currentSize : Point(s[j].x) = s[j] BY <6>3 DEF Point
          <6> HIDE DEF s
          <6>5. AddItem(name) = [j \in 1 .. currentSize |-> Point(s[j].x)]
            BY <5>2, <6>2, <6>3 DEF AddItem
          <6>6. s = [j \in 1 .. currentSize |-> s[j]] BY <6>3
          <6> QED BY <6>4, <6>5, <6>6
        <5> QED BY <5>1, <5>2
      <4>4. \A name \in ToSet(series') :
              data'[name] = IF full THEN Tail(Append(s, p)) ELSE Append(s, p)
        <5> HIDE DEF s, p, full
        <5> QED BY <4>1, <4>2, <4>3
      <4>5. MaxDataPoints - 2 <= currentIndex BY <2>1, <4>0
      <4>6. Append(s, p) = Rows(currentSize + 1, currentIndex + 1)
            /\ Tail(Rows(currentSize + 1, currentIndex + 1)) = Rows(currentSize, currentIndex + 1)
        BY <2>1, <4>5, NextRow
      <4>7. /\ currentSize' \in Nat /\ currentIndex' \in Nat
            /\ MaxDataPoints - 2 <= currentSize' /\ currentSize' <= MaxDataPoints
            /\ currentSize' <= currentIndex'
            /\ currentSize' = currentIndex' \/ currentSize' = MaxDataPoints
        BY <2>1, <4>0, <4>1
      <4> QED BY <4>1, <4>4, <4>6, <4>7
    <3>2. ASSUME UNCHANGED <<data, currentSize, currentIndex, lines>>
          PROVE  /\ currentSize' \in Nat /\ currentIndex' \in Nat
                 /\ MaxDataPoints - 2 <= currentSize' /\ currentSize' <= MaxDataPoints
                 /\ currentSize' <= currentIndex'
                 /\ currentSize' = currentIndex' \/ currentSize' = MaxDataPoints
                 /\ \A name \in ToSet(series') : data'[name] = Rows(currentSize', currentIndex')
      <4>1. ToSet(series') = ToSet(series) BY <3>2 DEF LegendInv
      <4> QED BY <2>1, <3>2, <4>1
    <3> QED BY <3>1, <3>2, StepsOfPoints
  <2>3. ~failed'
    <3>1. CASE UNCHANGED graphVars BY <2>1, <3>1 DEF graphVars
    <3>2. CASE Render
      <4>1. Len(Rows(currentSize', currentIndex')) = currentSize' BY <2>2, RowsFacts
      <4>2. \A name \in ToSet(series') : Len(data'[name]) = currentSize' BY <2>2, <4>1
      <4>3. Stackable(Lists(series', data')) BY <4>2, EvenListsStack DEF LegendInv
      <4> QED BY <3>2, <4>3 DEF Render
    <3> QED BY <3>1, <3>2, StepsOfGraph
  <2> QED BY <2>0, <2>2, <2>3 DEF RowsInv
<1> QED BY <1>1, <1>2, LegendInvHolds, PTL DEF Spec

-----------------------------------------------------------------------------
(* Filling up.                                                             *)

LEMMA TotalFacts ==
  ASSUME NEW f \in Seq(Int)
  PROVE  \E p \in [0 .. Len(f) -> Int] : Digits(p, Len(f), 1, f) /\ Total(f) = p[Len(f)]
<1> DEFINE n == Len(f)
           Adds(p) == p = [k \in 0 .. n |-> IF k = 0 THEN 0 ELSE p[k - 1] + f[k]]
           sum == CHOOSE p : Adds(p)
<1>1. n \in Nat /\ f \in [1 .. n -> Int] BY LenProperties
<1>2. PICK p \in [0 .. n -> Int] : Digits(p, n, 1, f)
  <2>1. 1 \in Int OBVIOUS
  <2> HIDE DEF n
  <2> QED BY <1>1, <2>1, DigitsExist
<1>3. p[0] = 0 /\ \A k \in 1 .. n : p[k] = p[k - 1] + f[k]
  <2>1. \A k \in 1 .. n : p[k - 1] \in Int BY <1>1, <1>2
  <2> QED BY <1>2, <2>1 DEF Digits
<1>4. Adds(p)
  <2>1. \A k \in 0 .. n : p[k] = IF k = 0 THEN 0 ELSE p[k - 1] + f[k]
    <3>1. \A k \in 0 .. n : k = 0 \/ k \in 1 .. n BY <1>1
    <3> QED BY <1>3, <3>1
  <2>2. p = [k \in 0 .. n |-> p[k]] BY <1>2
  <2> QED BY <2>1, <2>2
<1>5. Adds(sum)
  <2> HIDE DEF Adds
  <2> QED BY <1>4
<1>6. Total(f) = sum[n] BY DEF Total
<1> HIDE DEF sum
<1>7. sum[0] = 0 /\ \A k \in 1 .. n : sum[k] = sum[k - 1] + f[k]
  <2>1. \A k \in 1 .. n : k \in 0 .. n /\ k # 0 BY <1>1
  <2>2. 0 \in 0 .. n BY <1>1
  <2> QED BY <1>5, <2>1, <2>2
<1> DEFINE I == {k \in Nat : k <= n => sum[k] \in Int}
<1>8. 0 \in I BY <1>7
<1>9. ASSUME NEW k \in Nat, k \in I PROVE k + 1 \in I
  <2> SUFFICES ASSUME k + 1 <= n PROVE sum[k + 1] \in Int
    OBVIOUS
  <2>1. k + 1 \in 1 .. n /\ (k + 1) - 1 = k /\ sum[k] \in Int BY <1>1, <1>9
  <2>2. sum[k + 1] = sum[k] + f[k + 1] BY <1>7, <2>1
  <2> QED BY <1>1, <2>1, <2>2
<1>10. \A k \in 0 .. n : sum[k] \in Int
  <2> HIDE DEF I
  <2>1. \A k \in Nat : k \in I BY <1>8, <1>9, SetInduction
  <2> QED BY <1>1, <2>1 DEF I
<1>11. sum = [k \in 0 .. n |-> sum[k]] BY <1>5
<1>12. sum \in [0 .. n -> Int] BY <1>10, <1>11
<1>13. Digits(sum, n, 1, f)
  <2>1. \A k \in 1 .. n : k - 1 \in 0 .. n BY <1>1
  <2>2. \A k \in 1 .. n : 1 * sum[k - 1] = sum[k - 1] BY <1>10, <2>1
  <2>3. \A k \in 1 .. n : sum[k] = 1 * sum[k - 1] + f[k] BY <1>7, <2>2
  <2> QED BY <1>7, <2>3 DEF Digits
<1> QED BY <1>6, <1>12, <1>13

\* Smaller numbers have a smaller sum.
LEMMA TotalLess ==
  ASSUME NEW f \in Seq(Int), NEW g \in Seq(Int), Len(f) = Len(g),
         \A k \in 1 .. Len(f) : g[k] <= f[k]
  PROVE  /\ Total(f) \in Int /\ Total(g) \in Int /\ Total(g) <= Total(f)
         /\ (\E k \in 1 .. Len(f) : g[k] < f[k]) => Total(g) < Total(f)
<1> DEFINE n == Len(f)
<1>1. n \in Nat /\ f \in [1 .. n -> Int] /\ g \in [1 .. n -> Int] BY LenProperties
<1>2. PICK p \in [0 .. n -> Int] : Digits(p, n, 1, f) /\ Total(f) = p[n] BY TotalFacts
<1>3. PICK q \in [0 .. n -> Int] : Digits(q, n, 1, g) /\ Total(g) = q[n] BY TotalFacts
<1>4. /\ p[0] = 0 /\ q[0] = 0
      /\ \A k \in 1 .. n : /\ k - 1 \in 0 .. n
                           /\ p[k] = p[k - 1] + f[k] /\ q[k] = q[k - 1] + g[k]
  <2>1. \A k \in 1 .. n : k - 1 \in 0 .. n BY <1>1
  <2>2. \A k \in 1 .. n : p[k - 1] \in Int /\ q[k - 1] \in Int BY <1>2, <1>3, <2>1
  <2> QED BY <1>2, <1>3, <2>1, <2>2 DEF Digits
<1> HIDE DEF n
<1> DEFINE Below(m) == /\ q[m] <= p[m]
                       /\ (\E k \in 1 .. m : g[k] < f[k]) => q[m] < p[m]
           I == {m \in Nat : m <= n => Below(m)}
<1>5. 0 \in I BY <1>4
<1>6. ASSUME NEW m \in Nat, m \in I PROVE m + 1 \in I
  <2> SUFFICES ASSUME m + 1 <= n PROVE Below(m + 1)
    OBVIOUS
  <2>1. m + 1 \in 1 .. n /\ (m + 1) - 1 = m /\ m \in 0 .. n /\ m + 1 \in 0 .. n /\ Below(m) BY <1>1, <1>6
  <2>2. p[m + 1] = p[m] + f[m + 1] /\ q[m + 1] = q[m] + g[m + 1] BY <1>4, <2>1
  <2>3. /\ p[m] \in Int /\ q[m] \in Int /\ f[m + 1] \in Int /\ g[m + 1] \in Int
        /\ g[m + 1] <= f[m + 1]
    BY <1>1, <2>1 DEF n
  <2>4. \A k \in 1 .. m + 1 : k \in 1 .. m \/ k = m + 1 OBVIOUS
  <2>5. ASSUME NEW k \in 1 .. m + 1, g[k] < f[k] PROVE q[m + 1] < p[m + 1]
    <3>1. CASE k \in 1 .. m
      <4>1. \E l \in 1 .. m : g[l] < f[l] BY <2>5, <3>1
      <4>2. q[m] < p[m] BY <2>1, <4>1
      <4> QED BY <2>2, <2>3, <4>2
    <3>2. CASE k = m + 1 BY <2>1, <2>2, <2>3, <2>5, <3>2
    <3> QED BY <2>4, <3>1, <3>2
  <2>6. q[m + 1] <= p[m + 1] BY <2>1, <2>2, <2>3
  <2> QED BY <2>5, <2>6
<1>7. Below(n)
  <2> HIDE DEF Below
  <2>1. \A m \in Nat : m \in I => m + 1 \in I BY <1>6
  <2> HIDE DEF I
  <2>2. n \in I BY <1>1, <1>5, <2>1, SetInduction
  <2> QED BY <1>1, <2>2 DEF I
<1>8. n \in 0 .. n BY <1>1
<1> QED BY <1>2, <1>3, <1>7, <1>8 DEF n

\* The sum of as many numbers between two bounds.
LEMMA TotalBounds ==
  ASSUME NEW f \in Seq(Int), NEW low \in Int, NEW high \in Int,
         \A k \in 1 .. Len(f) : low <= f[k] /\ f[k] <= high
  PROVE  Total(f) \in Int /\ Len(f) * low <= Total(f) /\ Total(f) <= Len(f) * high
<1> DEFINE n == Len(f)
<1>1. n \in Nat /\ f \in [1 .. n -> Int] BY LenProperties
<1>2. PICK p \in [0 .. n -> Int] : Digits(p, n, 1, f) /\ Total(f) = p[n] BY TotalFacts
<1>3. /\ p[0] = 0
      /\ \A k \in 1 .. n : k - 1 \in 0 .. n /\ p[k] = p[k - 1] + f[k]
  <2>1. \A k \in 1 .. n : k - 1 \in 0 .. n BY <1>1
  <2>2. \A k \in 1 .. n : p[k - 1] \in Int BY <1>2, <2>1
  <2> QED BY <1>2, <2>1, <2>2 DEF Digits
<1>4. \A k \in 1 .. n : low <= f[k] /\ f[k] <= high OBVIOUS
<1> HIDE DEF n
<1> DEFINE Between(m) == m * low <= p[m] /\ p[m] <= m * high
           I == {m \in Nat : m <= n => Between(m)}
<1>5. 0 \in I
  <2>1. 0 * low = 0 /\ 0 * high = 0 OBVIOUS
  <2> QED BY <1>3, <2>1
<1>6. ASSUME NEW m \in Nat, m \in I PROVE m + 1 \in I
  <2> SUFFICES ASSUME m + 1 <= n PROVE Between(m + 1)
    OBVIOUS
  <2>1. m + 1 \in 1 .. n /\ (m + 1) - 1 = m /\ m \in 0 .. n /\ m + 1 \in 0 .. n /\ Between(m) BY <1>1, <1>6
  <2>2. p[m + 1] = p[m] + f[m + 1] BY <1>3, <2>1
  <2>3. p[m] \in Int /\ f[m + 1] \in Int /\ low <= f[m + 1] /\ f[m + 1] <= high BY <1>1, <1>4, <2>1
  <2>4. /\ (m + 1) * low = m * low + low /\ (m + 1) * high = m * high + high
        /\ m * low \in Int /\ m * high \in Int
    OBVIOUS
  <2> QED BY <2>1, <2>2, <2>3, <2>4
<1>7. Between(n)
  <2> HIDE DEF Between
  <2>1. \A m \in Nat : m \in I => m + 1 \in I BY <1>6
  <2> HIDE DEF I
  <2>2. n \in I BY <1>1, <1>5, <2>1, SetInduction
  <2> QED BY <1>1, <2>2 DEF I
<1>8. n \in 0 .. n BY <1>1
<1> QED BY <1>2, <1>7, <1>8 DEF n

\* In order of time.
Ascending(s) == \A i, j \in 1 .. Len(s) : i < j => s[i].x <= s[j].x

\* r is s with a point at place i, and still in order.
WithPointAt(r, s, i, x) ==
  /\ r \in Seq(PointSet) /\ Ascending(r) /\ Len(r) = Len(s) + 1
  /\ ToSet(r) = ToSet(s) \cup {Point(x)}
  /\ \A j \in 1 .. i - 1 : r[j] = s[j]
  /\ r[i].x = x

LEMMA InsertKeepsOrder ==
  ASSUME NEW s \in Seq(PointSet), Ascending(s), NEW i \in 1 .. Len(s) + 1, NEW x \in Int,
         \A j \in 1 .. i - 1 : s[j].x <= x, i <= Len(s) => x <= s[i].x
  PROVE  WithPointAt(InsertAt(s, i, Point(x)), s, i, x)
<1> DEFINE n == Len(s)
           p == Point(x)
           r == InsertAt(s, i, p)
<1>1. n \in Nat /\ i \in Nat /\ p \in PointSet /\ p.x = x /\ \A j \in 1 .. n : s[j].x \in Int
  <2>1. \A j \in 1 .. n : s[j] \in PointSet BY ElementOfSeq
  <2>2. n \in Nat BY SetOfSeq
  <2> QED BY <2>1, <2>2 DEF PointSet, Point
<1> HIDE DEF p
<1>2. /\ r \in Seq(PointSet) /\ Len(r) = n + 1 /\ ToSet(r) = ToSet(s) \cup {p}
      /\ \A j \in 1 .. n + 1 : r[j] = IF j < i THEN s[j] ELSE IF j = i THEN p ELSE s[j - 1]
  <2>1. p \in PointSet BY <1>1
  <2>2. r \in Seq(PointSet) BY <2>1, InsertAtFacts
  <2>3. Len(r) = n + 1 BY <2>1, InsertAtFacts
  <2>4. ToSet(r) = ToSet(s) \cup {p} BY <2>1, InsertAtFacts
  <2>5. \A j \in 1 .. n + 1 : r[j] = IF j < i THEN s[j] ELSE IF j = i THEN p ELSE s[j - 1]
    BY <2>1, InsertAtFacts
  <2> QED BY <2>2, <2>3, <2>4, <2>5
<1> HIDE DEF r
<1>3. /\ \A j \in 1 .. i - 1 : j \in 1 .. n + 1 /\ j \in 1 .. n /\ r[j] = s[j]
      /\ r[i] = p
      /\ \A j \in i + 1 .. n + 1 : j - 1 \in i .. n /\ j - 1 \in 1 .. n /\ r[j] = s[j - 1]
  <2>1. ASSUME NEW j \in 1 .. i - 1 PROVE j \in 1 .. n + 1 /\ j \in 1 .. n /\ j < i
    BY <1>1
  <2>2. ASSUME NEW j \in i + 1 .. n + 1
        PROVE  j \in 1 .. n + 1 /\ j - 1 \in i .. n /\ j - 1 \in 1 .. n /\ ~(j < i) /\ j # i
    BY <1>1
  <2>3. i \in 1 .. n + 1 /\ ~(i < i) BY <1>1
  <2> QED BY <1>2, <2>1, <2>2, <2>3
<1>4. \A j \in i .. n : x <= s[j].x
  <2> TAKE j \in i .. n
  <2>1. i \in 1 .. n /\ j \in 1 .. n /\ i <= n /\ x <= s[i].x BY <1>1
  <2>2. i = j \/ s[i].x <= s[j].x BY <1>1, <2>1 DEF Ascending
  <2> QED BY <1>1, <2>1, <2>2
<1>5. ASSUME NEW j \in 1 .. n + 1, NEW k \in 1 .. n + 1, j < k PROVE r[j].x <= r[k].x
  <2>1. CASE k \in 1 .. i - 1
    <3>1. j \in 1 .. i - 1 BY <1>1, <1>5, <2>1
    <3>2. j \in 1 .. n /\ k \in 1 .. n /\ r[j] = s[j] /\ r[k] = s[k] BY <1>3, <2>1, <3>1
    <3> QED BY <1>5, <3>2 DEF Ascending
  <2>2. CASE k = i
    <3>1. j \in 1 .. i - 1 BY <1>1, <1>5, <2>2
    <3> QED BY <1>1, <1>3, <2>2, <3>1
  <2>3. CASE k \in i + 1 .. n + 1 /\ j \in 1 .. i - 1
    <3>1. s[j].x <= x /\ x <= s[k - 1].x /\ r[j] = s[j] /\ r[k] = s[k - 1]
      BY <1>3, <1>4, <2>3
    <3>2. s[j].x \in Int /\ s[k - 1].x \in Int BY <1>1, <1>3, <2>3
    <3> QED BY <3>1, <3>2
  <2>4. CASE k \in i + 1 .. n + 1 /\ j = i BY <1>1, <1>3, <1>4, <2>4
  <2>5. CASE k \in i + 1 .. n + 1 /\ j \in i + 1 .. n + 1
    <3>1. j - 1 < k - 1 /\ j - 1 \in 1 .. n /\ k - 1 \in 1 .. n BY <1>1, <1>3, <1>5, <2>5
    <3> QED BY <1>3, <2>5, <3>1 DEF Ascending
  <2> QED BY <1>1, <2>1, <2>2, <2>3, <2>4, <2>5
<1>6. Ascending(r) BY <1>2, <1>5 DEF Ascending
<1> QED BY <1>1, <1>2, <1>3, <1>6 DEF p, r, WithPointAt

\* The series ls after a pass has gone as far as place i: they have the same times up to
\* there, and their own order.
Together(ls, n, i) ==
  /\ ls \in [1 .. n -> Seq(PointSet)]
  /\ \A k \in 1 .. n : Ascending(ls[k]) /\ i <= Len(ls[k])
  /\ \A k, l \in 1 .. n : \A j \in 1 .. i : ls[k][j].x = ls[l][j].x

\* A list got from another one by keeping it or adding a point where the lists ls have one.
GrownFrom(r, s, ls, n) ==
  /\ ToSet(s) \subseteq ToSet(r)
  /\ \A p \in ToSet(r) : p \in ToSet(s) \/ \E k \in 1 .. n : \E q \in ToSet(ls[k]) : q.x = p.x

LEMMA FillStepFacts ==
  ASSUME NEW n \in Nat, NEW i \in Nat, NEW ls, Together(ls, n, i),
         NEW k0 \in 1 .. n, i + 1 <= Len(ls[k0])
  PROVE  /\ Together(FillStep(ls, i + 1), n, i + 1)
         /\ \A k \in 1 .. n : /\ GrownFrom(FillStep(ls, i + 1)[k], ls[k], ls, n)
                              /\ Len(FillStep(ls, i + 1)[k]) <= Len(ls[k]) + 1
         /\ \E k \in 1 .. n : Len(FillStep(ls, i + 1)[k]) = Len(ls[k])
<1> DEFINE present == {k \in DOMAIN ls : i + 1 <= Len(ls[k])}
           f == [k \in present |-> ls[k][i + 1].x]
           times == {ls[k][i + 1].x : k \in present}
           x == Min(times)
           r == FillStep(ls, i + 1)
<1>1. DOMAIN ls = 1 .. n /\ \A k \in 1 .. n : ls[k] \in Seq(PointSet) /\ Len(ls[k]) \in Nat
  <2>1. DOMAIN ls = 1 .. n /\ \A k \in 1 .. n : ls[k] \in Seq(PointSet) BY DEF Together
  <2> QED BY <2>1, SetOfSeq
<1>2. \A k \in 1 .. n : \A j \in 1 .. Len(ls[k]) : ls[k][j].x \in Int
  <2> TAKE k \in 1 .. n
  <2> TAKE j \in 1 .. Len(ls[k])
  <2>1. ls[k][j] \in PointSet BY <1>1, ElementOfSeq
  <2> QED BY <2>1 DEF PointSet
<1>3. \A k \in present : k \in 1 .. n /\ i + 1 \in 1 .. Len(ls[k]) /\ ls[k][i + 1].x \in Int
  <2> TAKE k \in present
  <2>1. k \in 1 .. n /\ i + 1 <= Len(ls[k]) BY <1>1
  <2>2. i + 1 \in 1 .. Len(ls[k]) BY <1>1, <2>1
  <2> QED BY <1>2, <2>1, <2>2
<1>4. k0 \in present BY <1>1
<1>5. r = [k \in 1 .. n |-> IF k \in present /\ ls[k][i + 1].x = x THEN ls[k]
                            ELSE InsertAt(ls[k], i + 1, Point(x))]
  BY <1>1 DEF FillStep
<1>6. PICK m \in present : \A k \in present : ls[m][i + 1].x <= ls[k][i + 1].x
  <2>1. present \in SUBSET (1 .. n) /\ present # {} BY <1>3, <1>4
  <2>2. \A k \in present : f[k] \in Int /\ f[k] = ls[k][i + 1].x BY <1>3
  <2> HIDE DEF present, f
  <2>3. \E k \in present : \A l \in present : f[k] <= f[l] BY <2>1, <2>2, LeastPlace
  <2> QED BY <2>2, <2>3
<1>7. \A k : k \in present <=> k \in 1 .. n /\ i + 1 <= Len(ls[k]) BY <1>1
<1> HIDE DEF present
<1>8. x \in times /\ \A y \in times : x <= y
  <2>1. ls[m][i + 1].x \in times /\ \A y \in times : ls[m][i + 1].x <= y BY <1>6
  <2> HIDE DEF times
  <2> QED BY <2>1 DEF Min
<1>9. x = ls[m][i + 1].x /\ x \in Int
  <2>1. \A y \in times : y \in Int BY <1>3
  <2>2. ls[m][i + 1].x \in times BY <1>6
  <2>3. PICK k \in present : x = ls[k][i + 1].x BY <1>8
  <2>4. ls[m][i + 1].x <= x /\ x <= ls[m][i + 1].x BY <1>6, <1>8, <2>2, <2>3
  <2>5. ls[m][i + 1].x \in Int /\ x \in Int BY <1>8, <2>1, <2>2
  <2> HIDE DEF x, times
  <2> QED BY <2>4, <2>5
<1>10. \A k \in present : x <= ls[k][i + 1].x BY <1>6, <1>9
<1> HIDE DEF x, times, r
<1>11. ASSUME NEW k \in 1 .. n, k \in present, ls[k][i + 1].x = x
       PROVE  /\ r[k] = ls[k] /\ r[k] \in Seq(PointSet) /\ Ascending(r[k])
              /\ i + 1 <= Len(r[k]) /\ Len(r[k]) <= Len(ls[k]) + 1
              /\ \A j \in 1 .. i : r[k][j].x = ls[m][j].x
              /\ r[k][i + 1].x = x
              /\ GrownFrom(r[k], ls[k], ls, n)
  <2>1. r[k] = ls[k] BY <1>5, <1>11
  <2>2. m \in 1 .. n BY <1>3, <1>6
  <2> QED BY <1>1, <1>7, <1>11, <2>1, <2>2 DEF Together, GrownFrom
<1>12. ASSUME NEW k \in 1 .. n, ~(k \in present /\ ls[k][i + 1].x = x)
       PROVE  /\ r[k] \in Seq(PointSet) /\ Ascending(r[k])
              /\ i + 1 <= Len(r[k]) /\ Len(r[k]) <= Len(ls[k]) + 1
              /\ \A j \in 1 .. i : r[k][j].x = ls[m][j].x
              /\ r[k][i + 1].x = x
              /\ GrownFrom(r[k], ls[k], ls, n)
  <2> DEFINE s == ls[k]
  <2>1. r[k] = InsertAt(s, i + 1, Point(x)) BY <1>5, <1>12
  <2>2. s \in Seq(PointSet) /\ Ascending(s) /\ i <= Len(s) /\ Len(s) \in Nat /\ m \in 1 .. n
    BY <1>1, <1>3, <1>6 DEF Together
  <2>3. i + 1 \in 1 .. Len(s) + 1 /\ (i + 1) - 1 = i BY <2>2
  <2>4. \A j \in 1 .. i : s[j].x = ls[m][j].x BY <2>2 DEF Together
  <2>5. \A j \in 1 .. i : ls[m][j].x <= x
    <3> TAKE j \in 1 .. i
    <3>1. i + 1 \in 1 .. Len(ls[m]) BY <1>3, <1>6
    <3>2. j \in 1 .. Len(ls[m]) /\ j < i + 1 BY <1>1, <2>2, <3>1
    <3> QED BY <1>9, <2>2, <3>1, <3>2 DEF Together, Ascending
  <2>6. i + 1 <= Len(s) => x <= s[i + 1].x BY <1>7, <1>10
  <2> HIDE DEF s
  <2>7. /\ r[k] \in Seq(PointSet) /\ Ascending(r[k]) /\ Len(r[k]) = Len(s) + 1
        /\ ToSet(r[k]) = ToSet(s) \cup {Point(x)}
        /\ \A j \in 1 .. i : r[k][j] = s[j]
        /\ r[k][i + 1].x = x
    <3> DEFINE place == i + 1
               t == InsertAt(s, place, Point(x))
    <3>1. \A j \in 1 .. place - 1 : s[j].x <= x BY <2>3, <2>4, <2>5
    <3>2. place \in 1 .. Len(s) + 1 /\ (place <= Len(s) => x <= s[place].x) /\ place - 1 = i
      BY <2>3, <2>6
    <3> HIDE DEF place
    <3>3. WithPointAt(t, s, place, x)
      BY <1>9, <2>2, <3>1, <3>2, InsertKeepsOrder
    <3>4. r[k] = t BY <2>1 DEF place
    <3> HIDE DEF t
    <3> QED BY <3>2, <3>3, <3>4 DEF place, WithPointAt
  <2>8. GrownFrom(r[k], s, ls, n)
    <3>1. i + 1 \in 1 .. Len(ls[m]) /\ ls[m] \in Seq(PointSet) BY <1>1, <1>3, <1>6
    <3>2. ls[m][i + 1] \in ToSet(ls[m]) /\ ls[m][i + 1].x = x BY <1>9, <3>1, SetOfSeq
    <3>3. Point(x).x = x BY DEF Point
    <3> QED BY <2>2, <2>7, <3>2, <3>3 DEF GrownFrom
  <2>9. i + 1 <= Len(r[k]) /\ Len(r[k]) <= Len(s) + 1 BY <2>2, <2>7
  <2> QED BY <2>4, <2>7, <2>8, <2>9 DEF s
<1>13. \A k \in 1 .. n : /\ r[k] \in Seq(PointSet) /\ Ascending(r[k])
                         /\ i + 1 <= Len(r[k]) /\ Len(r[k]) <= Len(ls[k]) + 1
                         /\ \A j \in 1 .. i : r[k][j].x = ls[m][j].x
                         /\ r[k][i + 1].x = x
                         /\ GrownFrom(r[k], ls[k], ls, n)
  BY <1>11, <1>12
<1>14. Together(r, n, i + 1)
  <2>1. r \in [1 .. n -> Seq(PointSet)]
    <3>1. r = [k \in 1 .. n |-> r[k]] BY <1>5
    <3> QED BY <1>13, <3>1
  <2>2. \A j \in 1 .. i + 1 : j \in 1 .. i \/ j = i + 1 OBVIOUS
  <2>3. \A k, l \in 1 .. n : \A j \in 1 .. i + 1 : r[k][j].x = r[l][j].x BY <1>13, <2>2
  <2> QED BY <1>13, <2>1, <2>3 DEF Together
<1>15. m \in 1 .. n /\ Len(r[m]) = Len(ls[m])
  <2>1. m \in 1 .. n BY <1>3, <1>6
  <2> QED BY <1>6, <1>9, <1>11, <2>1
<1> QED BY <1>13, <1>14, <1>15 DEF r

LEMMA TotalOfNat ==
  ASSUME NEW f \in Seq(Nat)
  PROVE  /\ Total(f) \in Nat
         /\ Total(f) = 0 => \A k \in 1 .. Len(f) : f[k] = 0
<1> DEFINE n == Len(f)
           g == [k \in 1 .. n |-> 0]
<1>1. f \in Seq(Int) /\ n \in Nat /\ \A k \in 1 .. n : f[k] \in Nat
  <2>1. Nat \subseteq Int OBVIOUS
  <2> QED BY <2>1, SeqMonotonic, SetOfSeq, ElementOfSeq
<1>2. g \in Seq(Int) /\ Len(g) = n /\ \A k \in 1 .. n : g[k] = 0 BY <1>1
<1> HIDE DEF n, g
<1>3. Total(g) = 0
  <2>1. Total(g) \in Int /\ Len(g) * 0 <= Total(g) /\ Total(g) <= Len(g) * 0
    <3> DEFINE zero == 0
    <3>1. zero \in Int /\ \A k \in 1 .. Len(g) : zero <= g[k] /\ g[k] <= zero BY <1>2
    <3> HIDE DEF zero
    <3>2. Total(g) \in Int /\ Len(g) * zero <= Total(g) /\ Total(g) <= Len(g) * zero
      BY <1>2, <3>1, TotalBounds
    <3> QED BY <3>2 DEF zero
  <2>2. n * 0 = 0 BY <1>1
  <2> QED BY <1>2, <2>1, <2>2
<1>4. \A k \in 1 .. n : g[k] <= f[k] BY <1>1, <1>2
<1>5. /\ Total(f) \in Int /\ Total(g) <= Total(f)
      /\ (\E k \in 1 .. n : g[k] < f[k]) => Total(g) < Total(f)
  BY <1>1, <1>2, <1>4, TotalLess DEF n
<1>6. ASSUME Total(f) = 0, NEW k \in 1 .. n PROVE f[k] = 0
  <2>1. ~(g[k] < f[k]) BY <1>3, <1>5, <1>6
  <2> QED BY <1>1, <1>2, <2>1
<1> QED BY <1>3, <1>5, <1>6 DEF n

LEMMA LongestFacts ==
  ASSUME NEW n \in Nat, n > 0, NEW ls, DOMAIN ls = 1 .. n, \A k \in 1 .. n : Len(ls[k]) \in Nat
  PROVE  \E k \in 1 .. n : /\ Max({Len(ls[l]) : l \in DOMAIN ls}) = Len(ls[k])
                           /\ \A l \in 1 .. n : Len(ls[l]) <= Len(ls[k])
<1> DEFINE f == [l \in 1 .. n |-> -Len(ls[l])]
           S == {Len(ls[l]) : l \in DOMAIN ls}
           P == 1 .. n
<1>1. PICK k \in 1 .. n : \A l \in 1 .. n : Len(ls[l]) <= Len(ls[k])
  <2>1. \A l \in P : f[l] \in Int /\ f[l] = -Len(ls[l]) OBVIOUS
  <2>2. P \in SUBSET (1 .. n) /\ 1 \in P OBVIOUS
  <2> HIDE DEF f, P
  <2>3. PICK k \in P : \A l \in P : f[k] <= f[l] BY <2>1, <2>2, LeastPlace
  <2>4. \A l \in P : Len(ls[l]) \in Int BY <2>2
  <2>5. \A l \in P : Len(ls[l]) <= Len(ls[k]) BY <2>1, <2>3, <2>4
  <2> QED BY <2>5 DEF P
<1>2. Len(ls[k]) \in S /\ \A y \in S : Len(ls[k]) >= y BY <1>1
<1>3. \A y \in S : y \in Nat OBVIOUS
<1> HIDE DEF S
<1>4. Max(S) \in S /\ \A y \in S : Max(S) >= y BY <1>2 DEF Max
<1>5. Max(S) = Len(ls[k]) BY <1>2, <1>3, <1>4
<1> QED BY <1>1, <1>5 DEF S

\* The points beyond place i.
Beyond(ls, n, i) == [k \in 1 .. n |-> Len(ls[k]) - i]

\* After i passes over lists: the series have grown together up to place i and fewer points
\* are left with each pass, or they had grown together before.
Passed(ls, lists, n, i) ==
  /\ \A k \in 1 .. n : GrownFrom(ls[k], lists[k], lists, n)
  /\ \/ Together(ls, n, i) /\ Total(Beyond(ls, n, i)) <= Total(Beyond(lists, n, 0)) - i
     \/ \E m \in 0 .. i : Together(ls, n, m) /\ \A k \in 1 .. n : Len(ls[k]) = m

NextPass(ls, i) == IF i <= Max({Len(ls[k]) : k \in DOMAIN ls}) THEN FillStep(ls, i) ELSE ls

LEMMA OverFacts ==
  ASSUME NEW n \in Nat, NEW i \in Nat, NEW ls, Together(ls, n, i)
  PROVE  /\ Beyond(ls, n, i) \in Seq(Nat) /\ Len(Beyond(ls, n, i)) = n
         /\ \A k \in 1 .. n : Beyond(ls, n, i)[k] = Len(ls[k]) - i
         /\ Beyond(ls, n, i) \in Seq(Int) /\ Total(Beyond(ls, n, i)) \in Nat
<1> DEFINE e(k) == Len(ls[k]) - i
           r == [k \in 1 .. n |-> e(k)]
<1>1. \A k \in 1 .. n : e(k) \in Nat
  <2>1. \A k \in 1 .. n : ls[k] \in Seq(PointSet) /\ i <= Len(ls[k]) BY DEF Together
  <2>2. \A k \in 1 .. n : Len(ls[k]) \in Nat BY <2>1, SetOfSeq
  <2> QED BY <2>1, <2>2
<1> HIDE DEF e
<1>2. r \in Seq(Nat) /\ Len(r) = n /\ \A k \in 1 .. n : r[k] = e(k) BY <1>1
<1>3. r = Beyond(ls, n, i) BY DEF Beyond, e
<1> HIDE DEF r
<1>4. Nat \subseteq Int OBVIOUS
<1>5. r \in Seq(Int) BY <1>2, <1>4, SeqMonotonic
<1> QED BY <1>2, <1>3, <1>5, TotalOfNat DEF e

LEMMA NextPassFacts ==
  ASSUME NEW n \in Nat, n > 0, NEW i \in Nat, NEW ls, NEW lists, Passed(ls, lists, n, i),
         Together(lists, n, 0)
  PROVE  Passed(NextPass(ls, i + 1), lists, n, i + 1)
<1> DEFINE r == NextPass(ls, i + 1)
           longest == Max({Len(ls[k]) : k \in DOMAIN ls})
           bound == Total(Beyond(lists, n, 0))
<1>1. PICK i0 \in Nat : Together(ls, n, i0) BY DEF Passed
<1>2. DOMAIN ls = 1 .. n /\ \A k \in 1 .. n : Len(ls[k]) \in Nat
  <2>1. \A k \in 1 .. n : ls[k] \in Seq(PointSet) BY <1>1 DEF Together
  <2>2. DOMAIN ls = 1 .. n BY <1>1 DEF Together
  <2> QED BY <2>1, <2>2, SetOfSeq
<1>3. PICK k0 \in 1 .. n : longest = Len(ls[k0]) /\ \A k \in 1 .. n : Len(ls[k]) <= Len(ls[k0])
  BY <1>2, LongestFacts
<1>4. bound \in Nat
  <2>1. 0 \in Nat OBVIOUS
  <2> QED BY <2>1, OverFacts
<1>5. r = IF i + 1 <= longest THEN FillStep(ls, i + 1) ELSE ls BY DEF NextPass
<1> HIDE DEF r, longest, bound
<1>6. CASE Together(ls, n, i) /\ Total(Beyond(ls, n, i)) <= bound - i /\ i + 1 <= longest
  <2>1. i + 1 <= Len(ls[k0]) BY <1>3, <1>6
  <2>2. r = FillStep(ls, i + 1) BY <1>5, <1>6
  <2>3. /\ Together(r, n, i + 1)
        /\ \A k \in 1 .. n : GrownFrom(r[k], ls[k], ls, n) /\ Len(r[k]) <= Len(ls[k]) + 1
        /\ \E k \in 1 .. n : Len(r[k]) = Len(ls[k])
    BY <1>6, <2>1, <2>2, FillStepFacts
  <2>4. \A k \in 1 .. n : GrownFrom(r[k], lists[k], lists, n)
    <3>1. \A k \in 1 .. n : GrownFrom(ls[k], lists[k], lists, n) BY DEF Passed
    <3> TAKE k \in 1 .. n
    <3>2. ToSet(lists[k]) \subseteq ToSet(r[k]) BY <2>3, <3>1 DEF GrownFrom
    <3>3. ASSUME NEW p \in ToSet(r[k])
          PROVE  p \in ToSet(lists[k]) \/ \E l \in 1 .. n : \E q \in ToSet(lists[l]) : q.x = p.x
      <4>1. CASE p \in ToSet(ls[k]) BY <3>1, <4>1 DEF GrownFrom
      <4>2. CASE p \notin ToSet(ls[k])
        <5>1. PICK l \in 1 .. n : \E q \in ToSet(ls[l]) : q.x = p.x BY <2>3, <3>3, <4>2 DEF GrownFrom
        <5>2. PICK q \in ToSet(ls[l]) : q.x = p.x BY <5>1
        <5>3. q \in ToSet(lists[l]) \/ \E h \in 1 .. n : \E o \in ToSet(lists[h]) : o.x = q.x
          BY <3>1, <5>2 DEF GrownFrom
        <5> QED BY <5>2, <5>3
      <4> QED BY <4>1, <4>2
    <3> QED BY <3>2, <3>3 DEF GrownFrom
  <2>5. Total(Beyond(r, n, i + 1)) <= bound - (i + 1)
    <3> DEFINE f == Beyond(ls, n, i)
               g == Beyond(r, n, i + 1)
    <3>1. /\ f \in Seq(Int) /\ Len(f) = n /\ Total(f) \in Nat
          /\ \A k \in 1 .. n : f[k] = Len(ls[k]) - i
      BY <1>6, OverFacts
    <3>2. /\ g \in Seq(Int) /\ Len(g) = n /\ Total(g) \in Nat
          /\ \A k \in 1 .. n : g[k] = Len(r[k]) - (i + 1)
      BY <2>3, OverFacts
    <3>3. \A k \in 1 .. n : Len(r[k]) \in Nat
      <4>1. \A k \in 1 .. n : r[k] \in Seq(PointSet) BY <2>3 DEF Together
      <4> QED BY <4>1, SetOfSeq
    <3>4. \A k \in 1 .. n : g[k] <= f[k] /\ (Len(r[k]) = Len(ls[k]) => g[k] < f[k])
      <4> TAKE k \in 1 .. n
      <4>1. /\ f[k] = Len(ls[k]) - i /\ g[k] = Len(r[k]) - (i + 1)
            /\ Len(r[k]) <= Len(ls[k]) + 1 /\ Len(r[k]) \in Nat /\ Len(ls[k]) \in Nat
        BY <1>2, <2>3, <3>1, <3>2, <3>3
      <4> HIDE DEF f, g
      <4> QED BY <4>1
    <3> HIDE DEF f, g
    <3>5. Total(g) < Total(f)
      <4>1. \E k \in 1 .. n : g[k] < f[k] BY <2>3, <3>4
      <4> QED BY <3>1, <3>2, <3>4, <4>1, TotalLess
    <3>6. Total(f) <= bound - i BY <1>6 DEF f
    <3>7. Total(g) <= bound - (i + 1) BY <1>4, <3>1, <3>2, <3>5, <3>6
    <3> QED BY <3>7 DEF g
  <2> QED BY <2>3, <2>4, <2>5 DEF Passed, r, bound
<1>7. CASE Together(ls, n, i) /\ ~(i + 1 <= longest)
  <2>1. r = ls BY <1>5, <1>7
  <2>2. \A k \in 1 .. n : Len(ls[k]) = i
    <3>1. \A k \in 1 .. n : i <= Len(ls[k]) BY <1>7 DEF Together
    <3>2. longest \in Nat /\ \A k \in 1 .. n : Len(ls[k]) <= longest BY <1>2, <1>3
    <3> QED BY <1>2, <1>7, <3>1, <3>2
  <2>3. i \in 0 .. i + 1 OBVIOUS
  <2>4. \E m \in 0 .. i + 1 : Together(ls, n, m) /\ \A k \in 1 .. n : Len(ls[k]) = m
    BY <1>7, <2>2, <2>3
  <2>5. Passed(ls, lists, n, i + 1) BY <2>4 DEF Passed
  <2> QED BY <2>1, <2>5 DEF r
<1>8. ASSUME NEW m \in 0 .. i, Together(ls, n, m), \A k \in 1 .. n : Len(ls[k]) = m
      PROVE  Passed(NextPass(ls, i + 1), lists, n, i + 1)
  <2>1. ~(i + 1 <= longest) BY <1>3, <1>8
  <2>2. r = ls BY <1>5, <2>1
  <2>3. m \in 0 .. i + 1 OBVIOUS
  <2>4. \E l \in 0 .. i + 1 : Together(ls, n, l) /\ \A k \in 1 .. n : Len(ls[k]) = l
    BY <1>8, <2>3
  <2>5. Passed(ls, lists, n, i + 1) BY <2>4 DEF Passed
  <2> QED BY <2>2, <2>5 DEF r
<1>9. \/ Together(ls, n, i) /\ Total(Beyond(ls, n, i)) <= bound - i
      \/ \E m \in 0 .. i : Together(ls, n, m) /\ \A k \in 1 .. n : Len(ls[k]) = m
  BY DEF Passed, bound
<1> QED BY <1>6, <1>7, <1>8, <1>9 DEF r

\* What filling up makes of lists: all have the same times, in order, each has all its own
\* points, and none a time that is not in one of the lists.
FilledUp(ls, lists, n) ==
  /\ ls \in [1 .. n -> Seq(PointSet)]
  /\ \A k \in 1 .. n : Ascending(ls[k]) /\ GrownFrom(ls[k], lists[k], lists, n)
  /\ \A k, l \in 1 .. n : /\ Len(ls[k]) = Len(ls[l])
                          /\ \A j \in 1 .. Len(ls[k]) : ls[k][j].x = ls[l][j].x

LEMMA ZeroFillFacts ==
  ASSUME NEW n \in Nat, n > 0, NEW lists \in [1 .. n -> Seq(PointSet)],
         \A k \in 1 .. n : Ascending(lists[k])
  PROVE  FilledUp(ZeroFill(lists), lists, n)
<1> DEFINE bound == Total([k \in DOMAIN lists |-> Len(lists[k])])
           Passes(f) == f = [i \in 0 .. bound |-> IF i = 0 THEN lists
                               ELSE IF i <= Max({Len(f[i - 1][k]) : k \in DOMAIN f[i - 1]})
                                    THEN FillStep(f[i - 1], i) ELSE f[i - 1]]
           pass == CHOOSE f : Passes(f)
           Steps1(f) == f[0] = lists /\ \A i \in 1 .. bound : f[i] = NextPass(f[i - 1], i)
           T == [1 .. n -> Seq(PointSet)]
<1>1. \A k \in 1 .. n : lists[k] \in Seq(PointSet) /\ Len(lists[k]) \in Nat BY SetOfSeq
<1>2. Together(lists, n, 0) BY <1>1 DEF Together
<1>3. bound = Total(Beyond(lists, n, 0)) /\ bound \in Nat
  <2>1. \A k \in 1 .. n : Len(lists[k]) - 0 = Len(lists[k]) BY <1>1
  <2>2. Beyond(lists, n, 0) = [k \in DOMAIN lists |-> Len(lists[k])] BY <2>1 DEF Beyond
  <2>3. 0 \in Nat OBVIOUS
  <2> QED BY <1>2, <2>2, <2>3, OverFacts
<1> HIDE DEF bound
<1>4. Passed(lists, lists, n, 0)
  <2>1. \A k \in 1 .. n : GrownFrom(lists[k], lists[k], lists, n) BY DEF GrownFrom
  <2>2. Total(Beyond(lists, n, 0)) <= Total(Beyond(lists, n, 0)) - 0 BY <1>3
  <2> QED BY <1>2, <2>1, <2>2 DEF Passed
<1>5. ASSUME NEW f, Steps1(f), NEW i \in 0 .. bound PROVE Passed(f[i], lists, n, i)
  <2> DEFINE I == {m \in Nat : m <= bound => Passed(f[m], lists, n, m)}
  <2>1. 0 \in I BY <1>4, <1>5
  <2>2. ASSUME NEW m \in Nat, m \in I PROVE m + 1 \in I
    <3> SUFFICES ASSUME m + 1 <= bound PROVE Passed(f[m + 1], lists, n, m + 1)
      OBVIOUS
    <3>1. m + 1 \in 1 .. bound /\ (m + 1) - 1 = m /\ Passed(f[m], lists, n, m) BY <1>3, <2>2
    <3>2. f[m + 1] = NextPass(f[m], m + 1) BY <1>5, <3>1
    <3> QED BY <1>2, <3>1, <3>2, NextPassFacts
  <2> HIDE DEF I
  <2>3. i \in Nat /\ i <= bound BY <1>3
  <2>4. \A m \in Nat : m \in I BY <2>1, <2>2, SetInduction
  <2>5. i \in I BY <2>3, <2>4
  <2> QED BY <2>3, <2>5 DEF I
<1>6. \E f : Passes(f)
  <2> DEFINE step == [i \in 1 .. bound |->
                        [ls \in T |-> IF NextPass(ls, i) \in T THEN NextPass(ls, i) ELSE ls]]
  <2>1. step \in [1 .. bound -> [T -> T]] /\ lists \in T
    <3> HIDE DEF T
    <3>1. \A i \in 1 .. bound : [ls \in T |-> IF NextPass(ls, i) \in T THEN NextPass(ls, i) ELSE ls]
                                  \in [T -> T]
      OBVIOUS
    <3> QED BY <3>1 DEF T
  <2>2. PICK f \in [0 .. bound -> T] : Steps(f, bound, lists, step)
    <3> HIDE DEF step, T
    <3> QED BY <1>3, <2>1, StepsExist
  <2> DEFINE I == {m \in Nat : m <= bound => Passed(f[m], lists, n, m)}
  <2>3. 0 \in I BY <1>4, <2>2 DEF Steps
  <2>4. ASSUME NEW m \in Nat, Passed(f[m], lists, n, m), m + 1 <= bound
        PROVE  f[m + 1] = NextPass(f[m], m + 1) /\ Passed(f[m + 1], lists, n, m + 1)
    <3>1. m + 1 \in 1 .. bound /\ (m + 1) - 1 = m /\ m \in 0 .. bound BY <1>3, <2>4
    <3>2. Passed(NextPass(f[m], m + 1), lists, n, m + 1) BY <1>2, <2>4, NextPassFacts
    <3>3. NextPass(f[m], m + 1) \in T BY <3>2 DEF Passed, Together
    <3>4. f[m] \in T BY <2>2, <3>1
    <3>5. f[m + 1] = step[m + 1][f[m]] BY <2>2, <3>1 DEF Steps
    <3> HIDE DEF T
    <3>6. step[m + 1][f[m]] = NextPass(f[m], m + 1) BY <3>1, <3>3, <3>4
    <3> QED BY <3>2, <3>5, <3>6
  <2>5. \A m \in Nat : m \in I => m + 1 \in I
    <3> TAKE m \in Nat
    <3> SUFFICES ASSUME m \in I, m + 1 <= bound PROVE Passed(f[m + 1], lists, n, m + 1)
      OBVIOUS
    <3>1. Passed(f[m], lists, n, m) BY <1>3
    <3> QED BY <2>4, <3>1
  <2> HIDE DEF I
  <2>6. \A m \in Nat : m \in I BY <2>3, <2>5, SetInduction
  <2>7. \A i \in 1 .. bound : f[i] = NextPass(f[i - 1], i)
    <3> TAKE i \in 1 .. bound
    <3>1. i - 1 \in Nat /\ i - 1 <= bound /\ (i - 1) + 1 = i /\ i <= bound BY <1>3
    <3>2. Passed(f[i - 1], lists, n, i - 1) BY <2>6, <3>1 DEF I
    <3> DEFINE m == i - 1
    <3>3. m \in Nat /\ Passed(f[m], lists, n, m) /\ m + 1 <= bound BY <3>1, <3>2
    <3> HIDE DEF m
    <3>4. f[m + 1] = NextPass(f[m], m + 1) BY <2>4, <3>3
    <3> QED BY <3>1, <3>4 DEF m
  <2>8. Passes(f)
    <3>1. f[0] = lists BY <2>2 DEF Steps
    <3>2. ASSUME NEW i \in 0 .. bound
          PROVE  f[i] = IF i = 0 THEN lists
                        ELSE IF i <= Max({Len(f[i - 1][k]) : k \in DOMAIN f[i - 1]})
                             THEN FillStep(f[i - 1], i) ELSE f[i - 1]
      <4>1. i # 0 => i \in 1 .. bound BY <1>3
      <4> QED BY <2>7, <3>1, <4>1 DEF NextPass
    <3>3. f = [i \in 0 .. bound |-> f[i]] BY <2>2
    <3> QED BY <3>2, <3>3
  <2> HIDE DEF Passes
  <2> QED BY <2>8
<1>7. Passes(pass)
  <2> HIDE DEF Passes
  <2> QED BY <1>6
<1>8. ZeroFill(lists) = pass[bound] BY DEF ZeroFill, bound
<1> HIDE DEF pass
<1>9. Steps1(pass)
  <2>1. 0 \in 0 .. bound /\ \A i \in 1 .. bound : i \in 0 .. bound /\ i # 0 BY <1>3
  <2>2. pass[0] = lists BY <1>7, <2>1
  <2>3. ASSUME NEW i \in 1 .. bound PROVE pass[i] = NextPass(pass[i - 1], i)
    BY <1>7, <2>1 DEF NextPass
  <2> QED BY <2>2, <2>3
<1> DEFINE ls == pass[bound]
<1>10. Passed(ls, lists, n, bound)
  <2>1. bound \in 0 .. bound BY <1>3
  <2> HIDE DEF Steps1
  <2> QED BY <1>5, <1>9, <2>1
<1> HIDE DEF ls
<1>11. PICK m \in Nat : Together(ls, n, m) /\ \A k \in 1 .. n : Len(ls[k]) = m
  <2>1. CASE Together(ls, n, bound) /\ Total(Beyond(ls, n, bound)) <= bound - bound
    <3> DEFINE over == Beyond(ls, n, bound)
    <3>1. /\ over \in Seq(Nat) /\ Len(over) = n /\ Total(over) \in Nat
          /\ \A k \in 1 .. n : over[k] = Len(ls[k]) - bound
      BY <1>3, <2>1, OverFacts
    <3>2. Total(over) <= bound - bound BY <2>1
    <3> HIDE DEF over
    <3>3. Total(over) = 0 BY <1>3, <3>1, <3>2
    <3>4. \A k \in 1 .. n : over[k] = 0 BY <3>1, <3>3, TotalOfNat
    <3>5. \A k \in 1 .. n : Len(ls[k]) \in Nat
      <4>1. \A k \in 1 .. n : ls[k] \in Seq(PointSet) BY <2>1 DEF Together
      <4> QED BY <4>1, SetOfSeq
    <3>6. \A k \in 1 .. n : Len(ls[k]) = bound
      <4> TAKE k \in 1 .. n
      <4>1. Len(ls[k]) - bound = 0 /\ Len(ls[k]) \in Nat BY <3>1, <3>4, <3>5
      <4> QED BY <1>3, <4>1
    <3> QED BY <1>3, <2>1, <3>6
  <2>2. CASE \E m \in 0 .. bound : Together(ls, n, m) /\ \A k \in 1 .. n : Len(ls[k]) = m
    <3>1. PICK m \in 0 .. bound : Together(ls, n, m) /\ \A k \in 1 .. n : Len(ls[k]) = m
      BY <2>2
    <3>2. m \in Nat OBVIOUS
    <3> QED BY <3>1, <3>2
  <2> QED BY <1>3, <1>10, <2>1, <2>2 DEF Passed
<1>12. \A k \in 1 .. n : GrownFrom(ls[k], lists[k], lists, n) BY <1>10 DEF Passed
<1>13. FilledUp(ls, lists, n) BY <1>11, <1>12 DEF Together, FilledUp
<1> QED BY <1>8, <1>13 DEF ls

\* The points of each series are in order of time.
InOrder(points) == \A name \in Name : points[name] \in Seq(PointSet) /\ Ascending(points[name])

LEMMA GivenPoints ==
  ASSUME NEW points \in Documents \cup Replies
  PROVE  points \in [Name -> Seq(PointSet)] /\ InOrder(points)
<1>1. points \in [Name -> Seq(PointSet)] BY PointConstants DEF PointSet
<1>2. \A name \in Name : \A i, j \in DOMAIN points[name] : i < j => points[name][i].x <= points[name][j].x
  BY PointConstants
<1>3. \A name \in Name : points[name] \in Seq(PointSet) BY <1>1
<1>4. \A name \in Name : DOMAIN points[name] = 1 .. Len(points[name]) BY <1>3, SetOfSeq
<1> QED BY <1>1, <1>2, <1>3, <1>4 DEF InOrder, Ascending

LEMMA FilledFacts ==
  ASSUME NEW names \in Seq(Name), names # <<>>, IsInjective(names), NEW points, InOrder(points)
  PROVE  /\ FilledUp(ZeroFill(Lists(names, points)), Lists(names, points), Len(names))
         /\ \A i \in 1 .. Len(names) :
              /\ Lists(names, points)[i] = points[names[i]]
              /\ Filled(names, points)[names[i]] = ZeroFill(Lists(names, points))[i]
         /\ \A name \in Name \ ToSet(names) : Filled(names, points)[name] = points[name]
<1> DEFINE n == Len(names)
           lists == Lists(names, points)
           filled == ZeroFill(lists)
<1>1. n \in Nat /\ n > 0 /\ DOMAIN names = 1 .. n /\ \A i \in 1 .. n : names[i] \in Name
  BY SetOfSeq, ElementOfSeq
<1>2. lists = [i \in 1 .. n |-> points[names[i]]] BY <1>1 DEF Lists
<1>3. lists \in [1 .. n -> Seq(PointSet)] /\ \A k \in 1 .. n : Ascending(lists[k]) /\ lists[k] = points[names[k]]
  BY <1>1, <1>2 DEF InOrder
<1> HIDE DEF n, lists
<1>4. FilledUp(filled, lists, n) BY <1>1, <1>3, ZeroFillFacts
<1> HIDE DEF filled
<1>5. Filled(names, points) = [name \in Name |-> IF name \in ToSet(names) THEN filled[IndexOf(name, names)]
                                                 ELSE points[name]]
  BY DEF Filled, filled, lists
<1>6. ASSUME NEW i \in 1 .. n PROVE Filled(names, points)[names[i]] = filled[i]
  <2>1. names[i] \in Name /\ names[i] \in ToSet(names) BY <1>1, SetOfSeq DEF n
  <2>2. IndexOf(names[i], names) = i
    <3>1. \A j \in DOMAIN names : names[j] = names[i] => j = i BY <1>1, SetOfSeq DEF n
    <3> QED BY <1>1, <3>1 DEF IndexOf
  <2> QED BY <1>5, <2>1, <2>2
<1> QED BY <1>3, <1>4, <1>5, <1>6 DEF n, lists, filled

LEMMA FilledLengths ==
  ASSUME NEW names \in Seq(Name), names # <<>>, IsInjective(names), NEW points, InOrder(points)
  PROVE  \E n : \A name \in ToSet(names) : Len(Filled(names, points)[name]) = n
<1> DEFINE filled == ZeroFill(Lists(names, points))
<1>1. /\ FilledUp(filled, Lists(names, points), Len(names))
      /\ \A i \in 1 .. Len(names) : Filled(names, points)[names[i]] = filled[i]
  BY FilledFacts
<1> HIDE DEF filled
<1>2. \A k, l \in 1 .. Len(names) : Len(filled[k]) = Len(filled[l]) BY <1>1 DEF FilledUp
<1>3. \A name \in ToSet(names) : \E i \in 1 .. Len(names) : names[i] = name BY SetOfSeq
<1>4. 1 \in 1 .. Len(names) BY SetOfSeq
<1>5. \A name \in ToSet(names) : Len(Filled(names, points)[name]) = Len(filled[1])
  BY <1>1, <1>2, <1>3, <1>4
<1> QED BY <1>5

LEMMA FilledIsInOrder ==
  ASSUME NEW names \in Seq(Name), names # <<>>, IsInjective(names), NEW points, InOrder(points)
  PROVE  InOrder(Filled(names, points))
<1> DEFINE filled == ZeroFill(Lists(names, points))
<1>1. \A i \in 1 .. Len(names) : filled[i] \in Seq(PointSet) /\ Ascending(filled[i])
                                 /\ Filled(names, points)[names[i]] = filled[i]
  BY FilledFacts DEF FilledUp
<1>2. \A name \in Name \ ToSet(names) : Filled(names, points)[name] = points[name] BY FilledFacts
<1>3. \A name \in ToSet(names) : \E i \in 1 .. Len(names) : names[i] = name BY SetOfSeq
<1> HIDE DEF filled
<1> QED BY <1>1, <1>2, <1>3 DEF InOrder

\* The points are in order; those filled up were so once and for all.
PointsInv ==
  /\ kit.source # "fixed" => InOrder(data)
  /\ Has("fill") =>
       /\ ToSet(series) = ToSet(kit.names)
       /\ \E points \in Documents : data = Filled(kit.names, points)
       /\ failed => \E name \in ToSet(series) : ~ValidSeries(data[name])

LEMMA PointsInvHolds == Spec => []PointsInv
<1>1. Init => PointsInv
  <2> SUFFICES ASSUME Init, kit.source # "fixed" PROVE PointsInv
    BY KitConstants DEF PointsInv, Has, Init
  <2>1. kit.names \in Seq(Name) /\ kit.names # <<>> /\ IsInjective(kit.names) /\ kit \in Kits
    BY KitConstants DEF Init
  <2>2. PICK points \in IF kit.source = "ajax" THEN Replies ELSE Documents :
          Construct(kit.names, IF Has("fill") THEN Filled(kit.names, points) ELSE points, kit.stacked)
    BY DEF Init
  <2>3. InOrder(points) BY <2>2, GivenPoints
  <2>4. /\ data = IF Has("fill") THEN Filled(kit.names, points) ELSE points
        /\ series = kit.names /\ failed = Refused(Lists(kit.names, data), kit.stacked)
    BY <2>2 DEF Construct
  <2>5. InOrder(data) BY <2>1, <2>3, <2>4, FilledIsInOrder
  <2>6. ASSUME Has("fill")
        PROVE  /\ points \in Documents /\ data = Filled(kit.names, points)
               /\ failed => \E name \in ToSet(series) : ~ValidSeries(data[name])
    <3>1. points \in Documents BY <2>1, <2>2, <2>6, KitConstants DEF Has
    <3>2. data = Filled(kit.names, points) BY <2>4, <2>6
    <3> DEFINE n == Len(kit.names)
    <3>3. PICK length : \A name \in ToSet(kit.names) : Len(data[name]) = length
      BY <2>1, <2>3, <3>2, FilledLengths
    <3>7. Stackable(Lists(kit.names, data)) BY <2>1, <3>3, EvenListsStack
    <3>8. ASSUME failed PROVE \E name \in ToSet(series) : ~ValidSeries(data[name])
      <4> DEFINE lists == Lists(kit.names, data)
      <4>1. DOMAIN lists = 1 .. n /\ \A i \in 1 .. n : lists[i] = data[kit.names[i]]
        BY <2>1, SetOfSeq DEF Lists
      <4> HIDE DEF lists, n
      <4>2. \E i \in DOMAIN lists : ~ValidSeries(lists[i]) BY <2>4, <3>7, <3>8 DEF Refused, lists
      <4>3. PICK i \in 1 .. n : ~ValidSeries(data[kit.names[i]]) BY <4>1, <4>2
      <4>4. kit.names[i] \in ToSet(series) BY <2>1, <2>4, <4>3, SetOfSeq DEF n
      <4> QED BY <4>3, <4>4
    <3> QED BY <3>1, <3>2, <3>8
  <2> QED BY <2>4, <2>5, <2>6 DEF PointsInv
<1>2. LegendInv /\ LegendInv' /\ PointsInv /\ [Next]_vars => PointsInv'
  <2> SUFFICES ASSUME LegendInv, LegendInv', PointsInv, [Next]_vars PROVE PointsInv'
    OBVIOUS
  <2>0. kit' = kit /\ (Has("fill")' <=> Has("fill")) BY StepsOfLegend DEF Has
  <2>1. CASE kit.source = "fixed"
    BY <2>0, <2>1, KitConstants DEF LegendInv, PointsInv, Has
  <2>2. CASE kit.source = "ajax"
    <3>1. ~Has("fill")' BY <2>0, <2>2, KitConstants DEF LegendInv, Has
    <3>2. InOrder(data) BY <2>2 DEF PointsInv
    <3>3. ASSUME NEW reply \in Replies, NEW colors, Splice(reply, colors) PROVE InOrder(data')
      <4>1. reply \in [Name -> Seq(PointSet)] /\ InOrder(reply) BY GivenPoints
      <4>2. data' = [name \in Name |-> IF name \in DOMAIN reply THEN reply[name] ELSE data[name]]
        BY <3>3 DEF Splice
      <4> QED BY <4>1, <4>2 DEF InOrder
    <3>4. ASSUME data' = data PROVE InOrder(data') BY <3>2, <3>4 DEF InOrder
    <3>5. InOrder(data') BY <2>2, <3>3, <3>4, StepsOfPoints
    <3> QED BY <3>1, <3>5 DEF PointsInv, InOrder
  <2>3. CASE kit.source = "static"
    <3>1. data' = data /\ lines' = lines BY <2>3, StepsOfPoints
    <3>2. ToSet(series') = ToSet(series) BY <3>1 DEF LegendInv
    <3>3. InOrder(data') BY <2>3, <3>1 DEF PointsInv, InOrder
    <3>4. ASSUME Has("fill")
          PROVE  failed' => \E name \in ToSet(series') : ~ValidSeries(data'[name])
      <4>1. CASE UNCHANGED graphVars
        BY <3>1, <3>2, <3>4, <4>1 DEF PointsInv, graphVars
      <4>2. CASE Render
        <5>1. kit.names \in Seq(Name) /\ kit.names # <<>> /\ IsInjective(kit.names)
          BY KitConstants DEF LegendInv
        <5>2. PICK points \in Documents : data = Filled(kit.names, points) BY <3>4 DEF PointsInv
        <5>3. InOrder(points) BY GivenPoints
        <5>4. PICK length : \A name \in ToSet(kit.names) : Len(data[name]) = length
          BY <5>1, <5>2, <5>3, FilledLengths
        <5>5. \A name \in ToSet(series') : Len(data'[name]) = length
          BY <3>1, <3>2, <3>4, <5>4 DEF PointsInv
        <5>6. Stackable(Lists(series', data')) BY <5>5, EvenListsStack DEF LegendInv
        <5> QED BY <4>2, <5>6 DEF Render
      <4> QED BY <2>3, <4>1, <4>2, StepsOfGraph
    <3> QED BY <2>0, <3>1, <3>2, <3>3, <3>4 DEF PointsInv, InOrder
  <2> QED BY <2>1, <2>2, <2>3, KitConstants DEF LegendInv
<1> QED BY <1>1, <1>2, LegendInvHolds, PTL DEF Spec

\* The series fit together: the rows of a FixedDuration stay together and can always be
\* drawn, and filling up keeps all points, in order, makes no times up, and gives series
\* that can be stacked.
THEOREM SeriesFit == Spec => []SeriesFitTogether
<1>1. ASSUME LegendInv, RowsInv, kit.source = "fixed" PROVE RowsStayTogether /\ ~failed
  <2> DEFINE s == Rows(currentSize, currentIndex)
             i0 == currentIndex - currentSize
  <2>1. /\ currentSize \in Nat /\ currentIndex \in Nat /\ currentSize <= currentIndex
        /\ currentSize <= MaxDataPoints /\ ~failed
        /\ \A name \in ToSet(series) : data[name] = s
    BY <1>1 DEF RowsInv
  <2>2. /\ s \in Seq(PointSet) /\ Len(s) = currentSize
        /\ \A j \in 1 .. currentSize : s[j] = Point(RowTime(i0 + j)) /\ i0 + j \in Nat
    BY <2>1, RowsFacts
  <2>3. \A j \in 1 .. Len(s) - 1 : s[j].x <= s[j + 1].x
    <3> TAKE j \in 1 .. Len(s) - 1
    <3>1. j \in 1 .. currentSize /\ j + 1 \in 1 .. currentSize /\ i0 + j <= i0 + (j + 1)
      BY <2>1, <2>2
    <3>2. RowTime(i0 + j) <= RowTime(i0 + (j + 1)) BY <2>2, <3>1, RowTimeFacts
    <3> HIDE DEF s, i0
    <3>3. \A x : Point(x).x = x BY DEF Point
    <3> QED BY <2>2, <3>1, <3>2, <3>3
  <2> HIDE DEF s
  <2> QED BY <2>1, <2>2, <2>3 DEF RowsStayTogether
<1>2. ASSUME LegendInv, PointsInv, Has("fill") PROVE FillKeepsPoints
  <2>1. kit.names \in Seq(Name) /\ kit.names # <<>> /\ IsInjective(kit.names)
    BY <1>2, KitConstants DEF LegendInv
  <2>2. PICK points \in Documents : data = Filled(kit.names, points) BY <1>2 DEF PointsInv
  <2>3. InOrder(points) BY GivenPoints
  <2> DEFINE n == Len(kit.names)
             lists == Lists(kit.names, points)
             filled == ZeroFill(lists)
             times(l, name) == {p.x : p \in ToSet(l[name])}
  <2>4. /\ FilledUp(filled, lists, n)
        /\ \A i \in 1 .. n : lists[i] = points[kit.names[i]] /\ data[kit.names[i]] = filled[i]
    BY <2>1, <2>2, <2>3, FilledFacts
  <2>5. ToSet(series) = ToSet(kit.names) BY <1>2 DEF PointsInv
  <2>6. \A name : name \in ToSet(series) <=> \E i \in 1 .. n : kit.names[i] = name
    BY <2>1, <2>5, SetOfSeq
  <2> HIDE DEF n, lists, filled
  <2>7. ASSUME NEW name \in ToSet(series)
        PROVE  /\ ToSet(points[name]) \subseteq ToSet(data[name])
               /\ times(data, name) = UNION {times(points, other) : other \in ToSet(series)}
               /\ \A j \in 1 .. Len(data[name]) - 1 : data[name][j].x <= data[name][j + 1].x
    <3>1. PICK k \in 1 .. n : kit.names[k] = name BY <2>6, <2>7
    <3>2. /\ points[name] = lists[k] /\ data[name] = filled[k]
          /\ filled[k] \in Seq(PointSet) /\ Ascending(filled[k]) /\ GrownFrom(filled[k], lists[k], lists, n)
      BY <2>4, <3>1 DEF FilledUp
    <3>3. Len(filled[k]) \in Nat BY <3>2, SetOfSeq
    <3>4. \A j \in 1 .. Len(filled[k]) - 1 : filled[k][j].x <= filled[k][j + 1].x
      <4> TAKE j \in 1 .. Len(filled[k]) - 1
      <4>1. j \in 1 .. Len(filled[k]) /\ j + 1 \in 1 .. Len(filled[k]) /\ j < j + 1 BY <3>3
      <4> QED BY <3>2, <4>1 DEF Ascending
    <3>5. ASSUME NEW x \in times(data, name)
          PROVE  x \in UNION {times(points, other) : other \in ToSet(series)}
      <4>1. PICK p \in ToSet(filled[k]) : x = p.x BY <3>2, <3>5
      <4>2. \E l \in 1 .. n : \E q \in ToSet(lists[l]) : q.x = x
        BY <3>2, <4>1 DEF GrownFrom
      <4>3. PICK l \in 1 .. n : \E q \in ToSet(lists[l]) : q.x = x BY <4>2
      <4>4. kit.names[l] \in ToSet(series) /\ lists[l] = points[kit.names[l]] BY <2>4, <2>6
      <4>5. x \in times(points, kit.names[l]) BY <4>3, <4>4
      <4> QED BY <4>4, <4>5
    <3>6. ASSUME NEW x \in UNION {times(points, other) : other \in ToSet(series)}
          PROVE  x \in times(data, name)
      <4>1. PICK other \in ToSet(series) : x \in times(points, other) BY <3>6
      <4>2. PICK l \in 1 .. n : kit.names[l] = other BY <2>6, <4>1
      <4>3. PICK p \in ToSet(lists[l]) : x = p.x BY <2>4, <4>1, <4>2
      <4>4. p \in ToSet(filled[l]) /\ filled[l] \in Seq(PointSet) BY <2>4, <4>3 DEF FilledUp, GrownFrom
      <4>5. PICK j \in 1 .. Len(filled[l]) : filled[l][j] = p BY <4>4, SetOfSeq
      <4>6. j \in 1 .. Len(filled[k]) /\ filled[k][j].x = x BY <2>4, <4>3, <4>5 DEF FilledUp
      <4>7. filled[k][j] \in ToSet(filled[k]) BY <3>2, <4>6, SetOfSeq
      <4> QED BY <3>2, <4>6, <4>7
    <3>7. ToSet(points[name]) \subseteq ToSet(data[name]) BY <3>2 DEF GrownFrom
    <3> HIDE DEF times
    <3> QED BY <3>2, <3>4, <3>5, <3>6, <3>7
  <2> QED BY <2>2, <2>7 DEF FillKeepsPoints
<1>3. LegendInv /\ RowsInv /\ PointsInv => SeriesFitTogether
  BY <1>1, <1>2 DEF SeriesFitTogether, PointsInv
<1> QED BY <1>3, LegendInvHolds, RowsInvHolds, PointsInvHolds, PTL

-----------------------------------------------------------------------------
(* Slices and smoothing.                                                   *)

LEMMA SliceFacts ==
  ASSUME NEW s \in Seq(PointSet), Ascending(s), NEW win
  PROVE  /\ Slice(s, win) \in Seq(PointSet) /\ Ascending(Slice(s, win))
         /\ ToSet(Slice(s, win)) = {p \in ToSet(s) : InWindow(p, win)}
<1> DEFINE kept == {i \in DOMAIN s : InWindow(s[i], win)}
           r == Slice(s, win)
<1>1. r = Select(s, kept) BY DEF Slice
<1>2. r \in Seq(PointSet) BY <1>1, SelectFacts
<1>3. PICK at : ComesFrom(r, s, kept, Len(s), at) BY <1>1, SelectFacts
<1>4. /\ \A j \in 1 .. Len(r) : /\ at[j] \in 1 .. Len(s) /\ at[j] \in kept
                                /\ r[j] = s[at[j]]
      /\ \A j, k \in 1 .. Len(r) : j < k => at[j] < at[k]
      /\ \A i \in 1 .. Len(s) : i \in kept => \E j \in 1 .. Len(r) : at[j] = i
  BY <1>3 DEF ComesFrom
<1>5. \A i \in 1 .. Len(s) : i \in kept <=> InWindow(s[i], win) BY SetOfSeq
<1> HIDE DEF kept, r
<1>6. Ascending(r) BY <1>4 DEF Ascending
<1>7. ASSUME NEW p \in ToSet(r) PROVE p \in {q \in ToSet(s) : InWindow(q, win)}
  <2>1. PICK j \in 1 .. Len(r) : r[j] = p BY <1>2, <1>7, SetOfSeq
  <2>2. p = s[at[j]] /\ at[j] \in 1 .. Len(s) /\ InWindow(s[at[j]], win) BY <1>4, <1>5, <2>1
  <2>3. p \in ToSet(s) BY <2>2, SetOfSeq
  <2> QED BY <2>2, <2>3
<1>8. ASSUME NEW p \in ToSet(s), InWindow(p, win) PROVE p \in ToSet(r)
  <2>1. PICK i \in 1 .. Len(s) : s[i] = p BY SetOfSeq
  <2>2. i \in kept BY <1>5, <1>8, <2>1
  <2>3. PICK j \in 1 .. Len(r) : at[j] = i BY <1>4, <2>2
  <2>4. r[j] = p BY <1>4, <2>1, <2>3
  <2> QED BY <1>2, <2>4, SetOfSeq
<1> QED BY <1>2, <1>6, <1>7, <1>8 DEF r

LEMMA AverageFacts ==
  ASSUME NEW s \in Seq(PointSet), Len(s) > 0, NEW low \in Int, NEW high \in Int,
         \A j \in 1 .. Len(s) : low <= s[j].x /\ s[j].x <= high
  PROVE  Average(s) \in PointSet /\ low <= Average(s).x /\ Average(s).x <= high
<1> DEFINE n == Len(s)
           e(j) == s[j].x
           f == [j \in 1 .. n |-> e(j)]
           total == Total(f)
<1>1. n \in Nat /\ n > 0 /\ DOMAIN s = 1 .. n BY SetOfSeq
<1>2. \A j \in 1 .. n : e(j) \in Int
  <2>1. \A j \in 1 .. n : s[j] \in PointSet BY ElementOfSeq
  <2> QED BY <2>1 DEF PointSet
<1>3. \A j \in 1 .. n : low <= e(j) /\ e(j) <= high OBVIOUS
<1> HIDE DEF e, n
<1>4. f \in Seq(Int) /\ Len(f) = n /\ \A j \in 1 .. n : f[j] = e(j) BY <1>1, <1>2
<1>5. Average(s) = Point(total \div n) BY <1>1 DEF Average, e, n
<1> HIDE DEF f, total
<1>6. total \in Int /\ n * low <= total /\ total <= n * high BY <1>3, <1>4, TotalBounds DEF total
<1>7. low <= total \div n /\ total \div n <= high /\ total \div n \in Int
  BY <1>1, <1>6, DivFacts, DivAtLeast, DivAtMost
<1> QED BY <1>5, <1>7 DEF Point, PointSet

\* Smoothing keeps the order, and makes one point of every scale points and of those left.
LEMMA SmoothFacts ==
  ASSUME NEW s \in Seq(PointSet), Ascending(s), NEW scale \in Nat \ {0}
  PROVE  LET r == Smooth(s, scale)
         IN  /\ r \in Seq(PointSet) /\ Ascending(r)
             /\ scale = 1 => r = s
             /\ Len(r) * scale < Len(s) + scale /\ Len(r) * scale >= Len(s)
<1> DEFINE r == Smooth(s, scale)
           n == Len(s)
<1>1. n \in Nat /\ \A j \in 1 .. n : s[j] \in PointSet /\ s[j].x \in Int
  <2>1. \A j \in 1 .. n : s[j] \in PointSet BY ElementOfSeq
  <2> QED BY <2>1, SetOfSeq DEF PointSet
<1>2. CASE scale = 1
  <2>1. r = s BY <1>2 DEF Smooth
  <2>2. n * 1 < n + 1 /\ n * 1 >= n BY <1>1
  <2> QED BY <1>2, <2>1, <2>2
<1>3. CASE scale # 1
  <2> DEFINE count == (n + scale - 1) \div scale
             low(g) == (g - 1) * scale + 1
             high(g) == Min({g * scale, n})
             e(g) == Average(SubSeq(s, low(g), high(g)))
             t == [g \in 1 .. count |-> e(g)]
  <2>1. r = t BY <1>3 DEF Smooth
  <2>2. /\ count \in Int
        /\ scale * count <= n + scale - 1 /\ n + scale - 1 < scale * count + scale
    <3>1. n + scale - 1 \in Int BY <1>1
    <3> QED BY <3>1, DivFacts
  <2> HIDE DEF count
  <2>3. count >= 0 /\ count \in Nat
    <3>1. scale * (count + 1) > 0 BY <1>1, <2>2
    <3>2. count + 1 > 0 BY <2>2, <3>1
    <3> QED BY <2>2, <3>2
  <2>4. ASSUME NEW g \in 1 .. count
        PROVE  /\ low(g) \in 1 .. n /\ high(g) \in 1 .. n /\ low(g) <= high(g)
               /\ high(g) <= g * scale /\ g * scale \in Int
    <3>1. g * scale \in Int /\ (g - 1) * scale \in Int /\ (g - 1) * scale = g * scale - scale
      BY <2>3
    <3>2. (g - 1) * scale >= 0 BY <2>3
    <3>3. g * scale <= count * scale BY <2>3
    <3>4. g * scale <= n + scale - 1 BY <1>1, <2>2, <2>3, <3>1, <3>3
    <3>5. low(g) <= n BY <1>1, <3>1, <3>4
    <3>6. high(g) \in {g * scale, n} /\ high(g) <= g * scale /\ high(g) <= n
      <4> DEFINE m == IF g * scale <= n THEN g * scale ELSE n
      <4>1. m \in {g * scale, n} /\ \A y \in {g * scale, n} : m <= y BY <1>1, <3>1
      <4> HIDE DEF m
      <4>2. high(g) \in {g * scale, n} /\ \A y \in {g * scale, n} : high(g) <= y
        BY <4>1 DEF Min
      <4> QED BY <4>2
    <3>7. low(g) <= high(g) BY <1>1, <3>1, <3>5, <3>6
    <3> QED BY <1>1, <3>1, <3>2, <3>5, <3>6, <3>7
  <2> HIDE DEF high
  <2>5. ASSUME NEW g \in 1 .. count
        PROVE  e(g) \in PointSet /\ s[low(g)].x <= e(g).x /\ e(g).x <= s[high(g)].x
    <3> DEFINE l == low(g)
               h == high(g)
               sub == SubSeq(s, l, h)
    <3>1. l \in 1 .. n /\ h \in 1 .. n /\ l <= h BY <2>4
    <3> HIDE DEF l, h, n
    <3>2. /\ \A j \in l .. h : s[j] \in PointSet
          /\ l \in Int /\ h \in Int
      BY <1>1, <3>1
    <3>3. /\ sub \in Seq(PointSet) /\ Len(sub) = h - l + 1
          /\ \A j \in 1 .. h - l + 1 : sub[j] = s[l + j - 1]
      BY <1>1, <3>1, <3>2, SubSeqProperties
    <3>4. Len(sub) > 0 BY <3>1, <3>2, <3>3
    <3> HIDE DEF sub
    <3>5. \A j \in 1 .. Len(sub) : s[l].x <= sub[j].x /\ sub[j].x <= s[h].x
      <4> TAKE j \in 1 .. Len(sub)
      <4>1. l + j - 1 \in 1 .. n /\ l <= l + j - 1 /\ l + j - 1 <= h /\ sub[j] = s[l + j - 1]
        BY <1>1, <3>1, <3>2, <3>3
      <4> DEFINE k == l + j - 1
      <4>2. k \in 1 .. n /\ l <= k /\ k <= h /\ sub[j] = s[k] BY <4>1
      <4> HIDE DEF k
      <4>3. l = k \/ s[l].x <= s[k].x BY <1>1, <3>1, <4>2 DEF Ascending, n
      <4>4. k = h \/ s[k].x <= s[h].x BY <1>1, <3>1, <4>2 DEF Ascending, n
      <4> QED BY <1>1, <3>1, <4>2, <4>3, <4>4
    <3>6. s[l].x \in Int /\ s[h].x \in Int BY <1>1, <3>1
    <3>7. Average(sub) \in PointSet /\ s[l].x <= Average(sub).x /\ Average(sub).x <= s[h].x
      BY <3>3, <3>4, <3>5, <3>6, AverageFacts
    <3> QED BY <3>7 DEF sub, l, h
  <2>6. ASSUME NEW g \in 1 .. count, NEW k \in 1 .. count, g < k PROVE e(g).x <= e(k).x
    <3>1. high(g) <= g * scale /\ g * scale \in Int BY <2>4
    <3>2. g * scale <= (k - 1) * scale /\ (k - 1) * scale \in Int BY <2>3, <2>6
    <3>3. high(g) \in 1 .. n /\ low(k) \in 1 .. n BY <2>4
    <3>7. high(g) \in Int BY <1>1, <3>3
    <3>8. low(k) = (k - 1) * scale + 1 OBVIOUS
    <3>9. high(g) < low(k) BY <3>1, <3>2, <3>7, <3>8
    <3>4. e(g).x <= s[high(g)].x /\ s[low(k)].x <= e(k).x /\ e(g).x \in Int /\ e(k).x \in Int
      BY <2>5 DEF PointSet
    <3> HIDE DEF e, low
    <3>5. s[high(g)].x <= s[low(k)].x BY <3>3, <3>9 DEF Ascending, n
    <3>6. s[high(g)].x \in Int /\ s[low(k)].x \in Int BY <1>1, <3>3
    <3> QED BY <3>4, <3>5, <3>6
  <2> HIDE DEF e
  <2>7. t \in Seq(PointSet) /\ Len(t) = count /\ \A g \in 1 .. count : t[g] = e(g)
    BY <2>3, <2>5
  <2>8. Ascending(t) BY <2>6, <2>7 DEF Ascending
  <2>9. count * scale < n + scale /\ count * scale >= n
    <3>1. count * scale = scale * count /\ scale * count \in Int BY <2>3
    <3> QED BY <1>1, <2>2, <3>1
  <2> HIDE DEF t
  <2> QED BY <1>3, <2>1, <2>7, <2>8, <2>9
<1> QED BY <1>2, <1>3

\* Every series has its points in order of time, wherever they come from.
LEMMA SeriesInOrder ==
  ASSUME LegendInv, RowsInv, PointsInv, NEW name \in ToSet(series)
  PROVE  data[name] \in Seq(PointSet) /\ Ascending(data[name])
<1>1. CASE kit.source # "fixed"
  <2>1. name \in Name BY SetOfSeq DEF LegendInv
  <2> QED BY <1>1, <2>1 DEF PointsInv, InOrder
<1>2. CASE kit.source = "fixed"
  <2> DEFINE s == Rows(currentSize, currentIndex)
             i0 == currentIndex - currentSize
  <2>1. /\ currentSize \in Nat /\ currentIndex \in Nat /\ currentSize <= currentIndex
        /\ currentSize <= MaxDataPoints /\ data[name] = s
    BY <1>2 DEF RowsInv
  <2>2. /\ s \in Seq(PointSet) /\ Len(s) = currentSize
        /\ \A j \in 1 .. currentSize : s[j] = Point(RowTime(i0 + j)) /\ i0 + j \in Nat
    BY <2>1, RowsFacts
  <2>3. ASSUME NEW i \in 1 .. Len(s), NEW j \in 1 .. Len(s), i < j PROVE s[i].x <= s[j].x
    <3>1. i \in 1 .. currentSize /\ j \in 1 .. currentSize /\ i0 + i <= i0 + j
      BY <2>1, <2>2, <2>3
    <3>2. RowTime(i0 + i) <= RowTime(i0 + j) BY <2>2, <3>1, RowTimeFacts
    <3> HIDE DEF s, i0
    <3>3. \A x : Point(x).x = x BY DEF Point
    <3> QED BY <2>2, <3>1, <3>2, <3>3
  <2> HIDE DEF s
  <2> QED BY <2>1, <2>2, <2>3 DEF Ascending
<1> QED BY <1>1, <1>2

\* The slices on the screen, as they were last drawn.
Slices(s, points) ==
  /\ s \in Seq(PointSet) /\ Ascending(s)
  /\ aggregation = 1 => ToSet(s) = {p \in ToSet(points) : InWindow(p, window)}
  /\ Len(s) * aggregation < Len(Slice(points, window)) + aggregation
  /\ Len(s) * aggregation >= Len(Slice(points, window))

LEMMA ScreenFacts ==
  ASSUME LegendInv, RowsInv, PointsInv, ScreenInv, ~failed
  PROVE  /\ Active(series, disabled) \in Seq(Name)
         /\ Len(stackedData) = Len(Active(series, disabled))
         /\ DOMAIN stackedData = 1 .. Len(Active(series, disabled))
         /\ \A i \in 1 .. Len(Active(series, disabled)) :
              /\ Active(series, disabled)[i] \in ToSet(series)
              /\ Slices(stackedData[i], data[Active(series, disabled)[i]])
<1> DEFINE active == Active(series, disabled)
<1>1. /\ active \in Seq(Name)
      /\ \A i \in 1 .. Len(active) : active[i] \in ToSet(series)
  <2>1. active \in Seq(Name) /\ ToSet(active) = ToSet(series) \ disabled
    BY ActiveFacts DEF LegendInv
  <2> HIDE DEF active
  <2> QED BY <2>1, SetOfSeq
<1>2. stackedData = StackData(series, disabled, data, window, aggregation) BY DEF ScreenInv
<1>3. /\ Len(stackedData) = Len(active) /\ DOMAIN stackedData = 1 .. Len(active)
      /\ \A i \in 1 .. Len(active) :
           stackedData[i] = Smooth(Slice(data[active[i]], window), aggregation)
  BY <1>2, StackDataFacts DEF LegendInv
<1> HIDE DEF active
<1>4. aggregation \in Nat \ {0} BY DEF ScreenInv
<1>5. ASSUME NEW i \in 1 .. Len(active)
      PROVE  Slices(stackedData[i], data[active[i]])
  <2> DEFINE points == data[active[i]]
             slice == Slice(points, window)
  <2>1. points \in Seq(PointSet) /\ Ascending(points) BY <1>1, SeriesInOrder
  <2> HIDE DEF points
  <2>2. /\ slice \in Seq(PointSet) /\ Ascending(slice)
        /\ ToSet(slice) = {p \in ToSet(points) : InWindow(p, window)}
    BY <2>1, SliceFacts
  <2> HIDE DEF slice
  <2>3. stackedData[i] = Smooth(slice, aggregation) BY <1>3 DEF points, slice
  <2>4. /\ stackedData[i] \in Seq(PointSet) /\ Ascending(stackedData[i])
        /\ aggregation = 1 => stackedData[i] = slice
        /\ Len(stackedData[i]) * aggregation < Len(slice) + aggregation
        /\ Len(stackedData[i]) * aggregation >= Len(slice)
    BY <1>4, <2>2, <2>3, SmoothFacts
  <2> QED BY <2>2, <2>4 DEF Slices, points, slice
<1> QED BY <1>1, <1>3, <1>5 DEF active

\* Unless drawing threw, the screen shows the active series, each with its own points in
\* the window, in order and as often smoothed as set, after any events.
THEOREM ScreenIsCurrent == Spec => []DrawnIsCurrent
<1>1. LegendInv /\ RowsInv /\ PointsInv /\ ScreenInv => DrawnIsCurrent
  <2> SUFFICES ASSUME LegendInv, RowsInv, PointsInv, ScreenInv, ~failed PROVE DrawnIsCurrent
    BY DEF DrawnIsCurrent
  <2> DEFINE active == Active(series, disabled)
  <2>1. /\ Len(stackedData) = Len(active) /\ DOMAIN stackedData = 1 .. Len(active)
        /\ \A i \in 1 .. Len(active) : Slices(stackedData[i], data[active[i]])
    BY ScreenFacts
  <2> HIDE DEF active
  <2>2. ASSUME NEW i \in DOMAIN stackedData, NEW j \in DOMAIN stackedData[i],
               NEW k \in DOMAIN stackedData[i], j < k
        PROVE  stackedData[i][j].x <= stackedData[i][k].x
    <3>1. stackedData[i] \in Seq(PointSet) /\ Ascending(stackedData[i]) BY <2>1 DEF Slices
    <3>2. DOMAIN stackedData[i] = 1 .. Len(stackedData[i]) BY <3>1, SetOfSeq
    <3> QED BY <2>2, <3>1, <3>2 DEF Ascending
  <2> QED BY <2>1, <2>2 DEF DrawnIsCurrent, Slices, active
<1> QED BY <1>1, LegendInvHolds, RowsInvHolds, PointsInvHolds, ScreenInvHolds, PTL

-----------------------------------------------------------------------------
(* Frames and windows.                                                     *)

LEMMA OfTwo ==
  ASSUME NEW a \in Int, NEW b \in Int
  PROVE  /\ Max({a, b}) = IF a >= b THEN a ELSE b
         /\ Min({a, b}) = IF a <= b THEN a ELSE b
<1> DEFINE S == {a, b}
           most == IF a >= b THEN a ELSE b
           least == IF a <= b THEN a ELSE b
<1>1. most \in S /\ \A y \in S : most >= y OBVIOUS
<1>2. least \in S /\ \A y \in S : least <= y OBVIOUS
<1>3. \A y \in S : y \in Int OBVIOUS
<1> HIDE DEF S, most, least
<1>4. Max(S) \in S /\ \A y \in S : Max(S) >= y BY <1>1 DEF Max
<1>5. Min(S) \in S /\ \A y \in S : Min(S) <= y BY <1>2 DEF Min
<1>6. Max(S) = most BY <1>1, <1>3, <1>4
<1>7. Min(S) = least BY <1>2, <1>3, <1>5
<1> QED BY <1>6, <1>7 DEF S, most, least

LEMMA DivBelow ==
  ASSUME NEW a \in Int, NEW b \in Nat, b > 0, NEW q \in Int, a < b * q
  PROVE  a \div b < q
<1> DEFINE d == a \div b
<1>1. d \in Int /\ b * d <= a BY DivFacts
<1> HIDE DEF d
<1>2. b * d < b * q BY <1>1
<1> QED BY <1>1, <1>2 DEF d

LEMMA DivExact ==
  ASSUME NEW b \in Nat, b > 0, NEW q \in Int, NEW r \in Nat, r < b
  PROVE  (b * q + r) \div b = q
<1> DEFINE a == b * q + r
           d == a \div b
<1>1. a \in Int /\ b * q <= a /\ a < b * (q + 1) OBVIOUS
<1> HIDE DEF a
<1>2. d \in Int /\ q <= d BY <1>1, DivFacts, DivAtLeast
<1>3. d < q + 1 BY <1>1, DivBelow
<1> QED BY <1>2, <1>3 DEF a

\* Where a domain lies and how wide it is.
IsDomain(d) == d.min \in Nat /\ d.max \in Nat /\ 0 < d.min /\ d.min < d.max

\* The time at a grain of the preview, and where a time is shown.
LEMMA TimeAtFacts ==
  ASSUME NEW d, IsDomain(d), NEW w \in Nat, w > 0, NEW p \in Nat, p <= w
  PROVE  /\ TimeAt(p, d, w) \in Nat
         /\ d.min <= TimeAt(p, d, w) /\ TimeAt(p, d, w) <= d.max
         /\ p < w => TimeAt(p, d, w) < d.max
         /\ w * (TimeAt(p, d, w) - d.min) <= p * (d.max - d.min)
<1> DEFINE range == d.max - d.min
           q == (p * range) \div w
<1>1. range \in Nat /\ range > 0 BY DEF IsDomain
<1>2. d.min \in Nat /\ d.max = d.min + range BY DEF IsDomain
<1>3. TimeAt(p, d, w) = d.min + q BY DEF TimeAt
<1> HIDE DEF range
<1>4. p * range \in Nat /\ w * range \in Nat BY <1>1
<1>5. p * range <= w * range /\ (p < w => p * range < w * range) BY <1>1
<1>6. q \in Int /\ w * q <= p * range BY <1>4, DivFacts
<1>7. 0 <= q /\ q <= range /\ (p < w => q < range)
  BY <1>1, <1>4, <1>5, DivAtLeast, DivAtMost, DivBelow
<1> HIDE DEF q
<1>8. (d.min + q) - d.min = q BY <1>2, <1>6
<1>9. w * (TimeAt(p, d, w) - d.min) <= p * range BY <1>3, <1>6, <1>8
<1> QED BY <1>1, <1>2, <1>3, <1>6, <1>7, <1>9 DEF range

LEMMA PixelFacts ==
  ASSUME NEW d, IsDomain(d), NEW w \in Nat, w > 0, NEW t \in Int
  PROVE  /\ GrainAt(t, d, w) \in Int /\ PixelNextTo(t, d, w) \in Int
         /\ t <= d.max => GrainAt(t, d, w) <= w
         /\ \A k \in Nat : w * (t - d.min) <= (Grain * k) * (d.max - d.min)
                           => PixelNextTo(t, d, w) <= Grain * k
<1> DEFINE range == d.max - d.min
           past == t - d.min
           x == (2 * past * w + Grain * range) \div (2 * Grain * range)
<1>1. range \in Nat /\ range > 0 /\ past \in Int /\ Grain \in Nat /\ Grain > 0
  BY RangeConstants DEF IsDomain
<1>2. t <= d.max => past <= range BY DEF IsDomain
<1>3. GrainAt(t, d, w) = (past * w) \div range BY DEF GrainAt
<1>4. PixelNextTo(t, d, w) = Grain * x BY DEF PixelNextTo
<1> HIDE DEF range, past
<1>5. /\ past * w \in Int /\ 2 * past * w + Grain * range \in Int
      /\ 2 * Grain * range \in Nat /\ 2 * Grain * range > 0
  <2>1. Grain * range \in Nat /\ Grain * range > 0 BY <1>1
  <2>2. 2 * Grain * range = 2 * (Grain * range) BY <1>1
  <2>3. past * w \in Int /\ 2 * past * w = 2 * (past * w) BY <1>1
  <2> QED BY <2>1, <2>2, <2>3
<1>6. GrainAt(t, d, w) \in Int /\ x \in Int /\ PixelNextTo(t, d, w) \in Int
  BY <1>1, <1>3, <1>4, <1>5, DivFacts
<1>7. past <= range => GrainAt(t, d, w) <= w
  <2>1. past <= range => past * w <= range * w BY <1>1
  <2> QED BY <1>1, <1>3, <1>5, <2>1, DivAtMost
<1>8. ASSUME NEW k \in Nat, w * past <= (Grain * k) * range PROVE PixelNextTo(t, d, w) <= Grain * k
  <2> DEFINE g == Grain * range
  <2>1. g \in Nat /\ g > 0 BY <1>1
  <2>2. /\ 2 * past * w = 2 * (w * past) /\ (Grain * k) * range = g * k
        /\ (2 * Grain * range) * (k + 1) = 2 * (g * k) + 2 * g
    BY <1>1
  <2> HIDE DEF g
  <2>3. w * past \in Int /\ g * k \in Int BY <1>1, <2>1
  <2>4. 2 * past * w + g < (2 * Grain * range) * (k + 1) BY <1>8, <2>1, <2>2, <2>3
  <2>5. 2 * past * w + Grain * range < (2 * Grain * range) * (k + 1) BY <2>4 DEF g
  <2>6. x < k + 1 BY <1>5, <2>5, DivBelow
  <2> HIDE DEF x
  <2>7. x <= k BY <1>6, <2>6
  <2> QED BY <1>1, <1>4, <1>6, <2>7
<1> QED BY <1>2, <1>6, <1>7, <1>8 DEF range, past

\* A grain is a whole number of units of time, so its time is shown at that grain again,
\* or rounded to a pixel half a pixel from it at most.
LEMMA RoundTrip ==
  ASSUME NEW d, IsDomain(d), NEW w \in Nat, w > 0, NEW p \in Nat,
         NEW k \in Nat, d.max - d.min = k * w
  PROVE  /\ TimeAt(p, d, w) = d.min + p * k
         /\ GrainAt(TimeAt(p, d, w), d, w) = p
         /\ PixelNextTo(TimeAt(p, d, w), d, w) \in Int
         /\ 2 * (PixelNextTo(TimeAt(p, d, w), d, w) - p) <= Grain
         /\ -Grain <= 2 * (PixelNextTo(TimeAt(p, d, w), d, w) - p)
<1> DEFINE range == k * w
           past == p * k
           t == TimeAt(p, d, w)
<1>1. range \in Nat /\ range > 0 /\ past \in Nat BY DEF IsDomain
<1>2. t = d.min + past
  <2>1. p * range = w * past + 0 OBVIOUS
  <2>2. (p * range) \div w = past BY <1>1, <2>1, DivExact
  <2> QED BY <2>2 DEF TimeAt
<1> HIDE DEF t
<1>3. t - d.min = past
  <2>1. d.min \in Int BY DEF IsDomain
  <2> HIDE DEF past
  <2> QED BY <1>1, <1>2, <2>1
<1>4. GrainAt(t, d, w) = p
  <2>1. past * w = range * p + 0 OBVIOUS
  <2> HIDE DEF range, past
  <2>2. GrainAt(t, d, w) = (range * p + 0) \div range BY <1>3, <2>1 DEF GrainAt, range
  <2> QED BY <1>1, <2>2, DivExact
<1>5. Grain \in Nat /\ Grain > 0 BY RangeConstants
<1> DEFINE a == 2 * past * w + Grain * range
           b == 2 * Grain * range
           x == a \div b
<1>6. PixelNextTo(t, d, w) = Grain * x BY <1>3 DEF PixelNextTo
<1>7. a = range * (2 * p + Grain)
  <2>1. 2 * past * w = range * (2 * p) OBVIOUS
  <2> HIDE DEF range, past
  <2> QED BY <1>1, <1>5, <2>1
<1> HIDE DEF range, past
<1>8. b = range * (2 * Grain) /\ b \in Nat /\ b > 0 BY <1>1, <1>5
<1>9. a \in Int BY <1>1, <1>5, <1>7
<1>10. x \in Int /\ b * x <= a /\ a < b * (x + 1)
  <2> HIDE DEF a, b
  <2>1. x \in Int /\ b * x <= a /\ a < b * x + b BY <1>8, <1>9, DivFacts
  <2> QED BY <1>8, <2>1
<1> HIDE DEF a, b, x
<1>11. Grain * x \in Int BY <1>5, <1>10
<1>12. /\ range * (2 * (Grain * x)) <= range * (2 * p + Grain)
       /\ range * (2 * p + Grain) < range * (2 * (Grain * x) + 2 * Grain)
  <2>1. /\ b * x = range * (2 * (Grain * x))
        /\ b * (x + 1) = range * (2 * (Grain * x) + 2 * Grain)
    BY <1>1, <1>5, <1>8, <1>10
  <2> QED BY <1>7, <1>10, <2>1
<1>13. 2 * (Grain * x) <= 2 * p + Grain /\ 2 * p + Grain < 2 * (Grain * x) + 2 * Grain
  <2> DEFINE y == 2 * (Grain * x)
             z == 2 * p + Grain
  <2>1. y \in Int /\ z \in Int /\ 2 * Grain \in Int BY <1>5, <1>11
  <2>2. range * y <= range * z /\ range * z < range * (y + 2 * Grain) BY <1>12
  <2> HIDE DEF y, z
  <2>3. y <= z /\ z < y + 2 * Grain
    <3>1. ASSUME y > z PROVE FALSE BY <1>1, <2>1, <2>2, <3>1
    <3> DEFINE v == y + 2 * Grain
    <3>2. v \in Int /\ range * z < range * v BY <2>1, <2>2
    <3> HIDE DEF v
    <3>3. z < v BY <1>1, <2>1, <3>2
    <3> QED BY <2>1, <3>1, <3>3 DEF v
  <2> QED BY <2>3 DEF y, z
<1>14. 2 * (Grain * x - p) <= Grain /\ -Grain <= 2 * (Grain * x - p)
  <2> DEFINE y == Grain * x
  <2>1. y \in Int /\ 2 * y <= 2 * p + Grain /\ 2 * p + Grain < 2 * y + 2 * Grain BY <1>11, <1>13
  <2> HIDE DEF y
  <2>2. 2 * (y - p) <= Grain /\ -Grain <= 2 * (y - p) BY <1>5, <2>1
  <2> QED BY <2>2 DEF y
<1>15. t = d.min + p * k BY <1>2 DEF past
<1> HIDE DEF t
<1> QED BY <1>4, <1>6, <1>11, <1>14, <1>15 DEF t

\* A frame lies in the preview and is as wide as it has to be.
InPreview(f, w) ==
  /\ f.left \in Nat /\ f.right \in Nat
  /\ f.left + MinimumFrameWidth <= f.right /\ f.right <= w

Dragged ==
  /\ drag.left \in BOOLEAN /\ drag.right \in BOOLEAN /\ (drag.left \/ drag.right)
  /\ drag.rigid \in BOOLEAN /\ (drag.rigid => drag.left /\ drag.right)
  /\ InPreview(drag.before, previewWidth)

\* Dragging keeps the frame in the preview, and a rigid one as wide as it was.
LEMMA FrameAfterFacts ==
  ASSUME Dragged, previewWidth \in PreviewWidths, NEW distance \in Int
  PROVE  /\ InPreview(FrameAfter(distance), previewWidth)
         /\ drag.rigid => FrameAfter(distance).right - FrameAfter(distance).left
                            = drag.before.right - drag.before.left
<1> DEFINE W == previewWidth
           M == MinimumFrameWidth
           bL == drag.before.left
           bR == drag.before.right
           least == IF drag.rigid THEN bR - bL ELSE M
           left == IF drag.left THEN Max({bL + distance, 0}) ELSE bL
           right == IF drag.right THEN Min({bR + distance, W}) ELSE bR
           wideLeft == IF drag.left THEN right - least ELSE left
           wideRight == IF drag.right THEN wideLeft + least ELSE right
           inLeft == Max({wideLeft, 0})
           inRight == IF wideLeft <= 0 THEN wideRight - wideLeft ELSE wideRight
           after == IF right - left > least THEN [left |-> left, right |-> right]
                    ELSE IF inRight >= W
                         THEN [left |-> inLeft - (inRight - W), right |-> W]
                         ELSE [left |-> inLeft, right |-> inRight]
<1>1. FrameAfter(distance) = after BY DEF FrameAfter
<1>2. /\ W \in Nat /\ M \in Nat /\ M <= W
      /\ bL \in Nat /\ bR \in Nat /\ bL + M <= bR /\ bR <= W
      /\ drag.left \in BOOLEAN /\ drag.right \in BOOLEAN /\ (drag.left \/ drag.right)
      /\ drag.rigid \in BOOLEAN /\ (drag.rigid => drag.left /\ drag.right)
  BY RangeConstants DEF Dragged, InPreview
<1> HIDE DEF W, M, bL, bR
<1>3. least \in Nat /\ M <= least /\ least <= bR - bL BY <1>2
<1>4. /\ drag.left => left = IF bL + distance >= 0 THEN bL + distance ELSE 0
      /\ ~drag.left => left = bL
  <2> DEFINE e == bL + distance
  <2>1. e \in Int BY <1>2
  <2>2. Max({e, 0}) = IF e >= 0 THEN e ELSE 0
    <3> HIDE DEF e
    <3> QED BY <2>1, OfTwo
  <2> QED BY <2>2
<1>5. /\ drag.right => right = IF bR + distance <= W THEN bR + distance ELSE W
      /\ ~drag.right => right = bR
  <2> DEFINE e == bR + distance
  <2>1. e \in Int /\ W \in Int BY <1>2
  <2>2. Min({e, W}) = IF e <= W THEN e ELSE W
    <3> HIDE DEF e
    <3> QED BY <2>1, OfTwo
  <2> QED BY <2>2
<1>6. drag.rigid => left = (IF bL + distance >= 0 THEN bL + distance ELSE 0)
                    /\ right = (IF bR + distance <= W THEN bR + distance ELSE W)
                    /\ least = bR - bL
  BY <1>2, <1>4, <1>5
<1> HIDE DEF least, left, right
<1>7. left \in Nat /\ right \in Int /\ right <= W BY <1>2, <1>4, <1>5
<1>8. /\ drag.left => wideLeft = right - least
      /\ ~drag.left => wideLeft = left
      /\ drag.right => wideRight = wideLeft + least
      /\ ~drag.right => wideRight = right
      /\ wideLeft \in Int /\ wideRight \in Int
  BY <1>2, <1>3, <1>7
<1> HIDE DEF wideLeft, wideRight
<1>9. inLeft = IF wideLeft >= 0 THEN wideLeft ELSE 0 BY <1>8, OfTwo
<1>10. /\ wideLeft <= 0 => inRight = wideRight - wideLeft
       /\ wideLeft > 0 => inRight = wideRight
  BY <1>8
<1> HIDE DEF inLeft, inRight
<1>11. \* The frame that is widened: it has its least width, and begins in the preview.
       /\ inLeft \in Nat /\ inRight \in Int /\ inRight = inLeft + least
       /\ inRight >= W => inLeft - (inRight - W) \in Nat
  <2>1. CASE drag.left
    <3>1. wideRight = wideLeft + least /\ wideLeft = right - least
      <4>1. CASE drag.right BY <1>8, <2>1, <4>1
      <4>2. CASE ~drag.right BY <1>3, <1>7, <1>8, <2>1, <4>2
      <4> QED BY <1>2, <4>1, <4>2
    <3>2. inLeft \in Nat /\ inRight \in Int /\ inRight = inLeft + least
      BY <1>3, <1>7, <1>8, <1>9, <1>10, <3>1
    <3>3. inRight >= W => inLeft - (inRight - W) \in Nat
      <4>1. inLeft - (inRight - W) = W - least BY <1>2, <1>3, <3>2
      <4>2. least <= W BY <1>2, <1>3
      <4> QED BY <1>2, <1>3, <4>1, <4>2
    <3> QED BY <3>2, <3>3
  <2>2. CASE ~drag.left
    <3>1. drag.right /\ wideLeft = bL /\ wideRight = bL + least BY <1>2, <1>4, <1>8, <2>2
    <3>2. inLeft = bL /\ inRight = bL + least BY <1>2, <1>3, <1>9, <1>10, <3>1
    <3>3. inRight >= W => inLeft - (inRight - W) \in Nat
      <4>1. inLeft - (inRight - W) = W - least BY <1>2, <1>3, <3>2
      <4>2. least <= W BY <1>2, <1>3
      <4> QED BY <1>2, <1>3, <4>1, <4>2
    <3> QED BY <1>2, <1>3, <3>2, <3>3
  <2> QED BY <1>2, <2>1, <2>2
<1>12. CASE right - left > least
  <2>1. after.left = left /\ after.right = right BY <1>12
  <2>2. ~drag.rigid BY <1>2, <1>3, <1>6, <1>7, <1>12
  <2>3. left + M <= right /\ right \in Nat BY <1>2, <1>3, <1>7, <1>12
  <2> HIDE DEF after
  <2> QED BY <1>1, <1>7, <2>1, <2>2, <2>3 DEF InPreview, W, M
<1>13. CASE ~(right - left > least) /\ inRight >= W
  <2>1. after.left = inLeft - (inRight - W) /\ after.right = W BY <1>13
  <2>2. after.left = W - least BY <1>2, <1>3, <1>11, <2>1
  <2>3. after.left \in Nat /\ W - (W - least) = least /\ (W - least) + M <= W
    BY <1>2, <1>3, <1>11, <1>13, <2>1
  <2> HIDE DEF after
  <2>4. InPreview(after, W) BY <1>2, <2>1, <2>2, <2>3 DEF InPreview, M
  <2>5. after.right - after.left = least BY <2>1, <2>2, <2>3
  <2> QED BY <1>1, <1>6, <2>4, <2>5 DEF W, bL, bR
<1>14. CASE ~(right - left > least) /\ ~(inRight >= W)
  <2>1. after.left = inLeft /\ after.right = inRight BY <1>14
  <2>2. inRight \in Nat /\ inLeft + M <= inRight /\ inRight <= W /\ inRight - inLeft = least
    BY <1>2, <1>3, <1>11, <1>14
  <2> HIDE DEF after
  <2>3. InPreview(after, W) BY <1>11, <2>1, <2>2 DEF InPreview, M
  <2>4. after.right - after.left = least BY <2>1, <2>2
  <2> QED BY <1>1, <1>6, <2>3, <2>4 DEF W, bL, bR
<1> QED BY <1>12, <1>13, <1>14

\* From the first to the last of the rows there are.
RowDomain(size, index) == [min |-> RowTime(index - size + 1), max |-> RowTime(index)]

\* How many rows there can be once there have been index of them.
AreRows(size, index) ==
  /\ size \in Nat /\ index \in Nat
  /\ MaxDataPoints - 2 <= size /\ size <= MaxDataPoints /\ size <= index
  /\ size = index \/ size = MaxDataPoints

LEMMA RowDomainFacts ==
  ASSUME NEW size, NEW index, AreRows(size, index), MaxDataPoints > 3
  PROVE  /\ IsDomain(RowDomain(size, index))
         /\ \E k \in Nat : RowDomain(size, index).max - RowDomain(size, index).min = k * TimeInterval
<1> DEFINE first == index - size + 1
           N == MaxDataPoints
<1>1. /\ size \in Nat /\ index \in Nat /\ N \in Nat /\ N > 3
      /\ N - 2 <= size /\ size <= N /\ size <= index /\ (size = index \/ size = N)
  BY GraphConstants DEF AreRows
<1>2. first \in Nat /\ first > 0 /\ first <= index BY <1>1
<1>3. RowTime(first) \in Nat /\ RowTime(index) \in Nat BY <1>1, <1>2, RowTimeFacts
<1>4. RowTime(first) < RowTime(index)
  <2>1. CASE size >= 3
    <3>1. first + 2 <= index BY <1>1, <2>1
    <3> QED BY <1>1, <1>2, <3>1, RowTimeFacts
  <2>2. CASE size < 3
    <3>1. size = 2 /\ index = 2 /\ first = 1 /\ N = 4 BY <1>1, <2>2
    <3>2. first < index /\ index <= MaxDataPoints - 2 BY <3>1
    <3> HIDE DEF first
    <3> QED BY <1>1, <1>2, <3>2, RowTimeFacts
  <2> QED BY <1>1, <2>1, <2>2
<1>5. ASSUME NEW m \in Nat, m > 0
      PROVE  \E k \in Nat : RowTime(m) = k * TimeInterval /\ k > 0
  <2>1. CASE m <= MaxDataPoints - 2 BY <1>5, <2>1 DEF RowTime
  <2>2. CASE ~(m <= MaxDataPoints - 2)
    <3>1. m - 1 \in Nat /\ m - 1 > 0 BY <1>1, <1>5, <2>2
    <3> QED BY <2>2, <3>1 DEF RowTime
  <2> QED BY <2>1, <2>2
<1>6. TimeInterval \in Nat /\ TimeInterval > 0 BY GraphConstants
<1>7. PICK j \in Nat : RowTime(first) = j * TimeInterval /\ j > 0 BY <1>2, <1>5
<1>8. PICK k \in Nat : RowTime(index) = k * TimeInterval /\ k > 0
  <2>1. index > 0 BY <1>1
  <2> QED BY <1>1, <1>5, <2>1
<1>9. RowTime(first) > 0
  <2> HIDE DEF first
  <2>1. j * TimeInterval > 0 BY <1>6, <1>7
  <2> QED BY <1>7, <2>1
<1>10. RowTime(index) - RowTime(first) = (k - j) * TimeInterval /\ k - j \in Nat
  <2> DEFINE f == RowTime(first)
             l == RowTime(index)
             T == TimeInterval
  <2>1. f = j * T /\ l = k * T /\ f < l /\ T > 0 /\ T \in Nat BY <1>4, <1>6, <1>7, <1>8
  <2> HIDE DEF f, l, T
  <2>2. ~(k <= j)
    <3>1. k <= j => k * T <= j * T BY <2>1
    <3>2. k * T \in Int /\ j * T \in Int BY <2>1
    <3> QED BY <2>1, <3>1, <3>2
  <2>3. l - f = (k - j) * T BY <2>1
  <2> QED BY <2>2, <2>3 DEF f, l, T
<1> HIDE DEF first
<1>11. RowDomain(size, index).min = RowTime(first) /\ RowDomain(size, index).max = RowTime(index)
  BY DEF RowDomain, first
<1> QED BY <1>3, <1>4, <1>9, <1>10, <1>11 DEF IsDomain

LEMMA RowDomainLater ==
  ASSUME NEW size, NEW index, AreRows(size, index), NEW more \in {size, size + 1}
  PROVE  /\ RowDomain(size, index).min <= RowDomain(more, index + 1).min
         /\ RowDomain(size, index).max <= RowDomain(more, index + 1).max
<1>1. /\ size \in Nat /\ index \in Nat /\ size <= index BY DEF AreRows
<1>2. /\ index - size + 1 \in Nat /\ (index + 1) - more + 1 \in Nat /\ index + 1 \in Nat
      /\ index - size + 1 <= (index + 1) - more + 1 /\ index <= index + 1
  BY <1>1
<1>3. /\ RowTime(index - size + 1) <= RowTime((index + 1) - more + 1)
      /\ RowTime(index) <= RowTime(index + 1)
  BY <1>1, <1>2, RowTimeFacts
<1> QED BY <1>3 DEF RowDomain

LEMMA DataDomainOfRows ==
  ASSUME NEW names \in Seq(Name), ToSet(names) # {}, NEW points, NEW size, NEW index,
         AreRows(size, index), \A name \in ToSet(names) : points[name] = Rows(size, index)
  PROVE  DataDomain(names, points) = RowDomain(size, index)
<1> DEFINE s == Rows(size, index)
           first == RowTime(index - size + 1)
           last == RowTime(index)
<1>1. size \in Nat /\ index \in Nat /\ size <= index /\ size > 0
  <2>1. MaxDataPoints \in Nat /\ MaxDataPoints > 2 BY GraphConstants
  <2> QED BY <2>1 DEF AreRows
<1>2. /\ s \in Seq(PointSet) /\ Len(s) = size
      /\ \A j \in 1 .. size : s[j] = Point(RowTime(index - size + j))
  BY <1>1, RowsFacts
<1>3. 1 \in 1 .. size /\ size \in 1 .. size /\ index - size + size = index BY <1>1
<1>4. s[1].x = first /\ s[size].x = last
  <2>1. \A x : Point(x).x = x BY DEF Point
  <2> HIDE DEF s
  <2>2. s[1] = Point(RowTime(index - size + 1)) /\ s[size] = Point(RowTime(index)) BY <1>2, <1>3
  <2> QED BY <2>1, <2>2
<1> HIDE DEF s
<1>5. Last(s) = s[size] BY <1>2 DEF Last
<1>6. \A name \in ToSet(names) : points[name][1].x = first /\ Last(points[name]).x = last
  BY <1>4, <1>5 DEF s
<1> DEFINE firsts == {points[name][1].x : name \in ToSet(names)}
           lasts == {Last(points[name]).x : name \in ToSet(names)}
<1>7. firsts = {first} /\ lasts = {last}
  <2> HIDE DEF first, last
  <2> QED BY <1>6
<1>8. first \in Nat /\ last \in Nat
  <2>1. index - size + 1 \in Nat BY <1>1
  <2> QED BY <1>1, <2>1, RowTimeFacts
<1> HIDE DEF first, last
<1>9. Min({first}) = first /\ Max({last}) = last
  <2>1. first <= first /\ last >= last BY <1>8
  <2> QED BY <2>1 DEF Min, Max
<1>10. DataDomain(names, points) = [min |-> Min(firsts), max |-> Max(lasts)] BY DEF DataDomain
<1> HIDE DEF firsts, lasts
<1> QED BY <1>7, <1>9, <1>10 DEF RowDomain, first, last

\* What a step does to the window and to what shows it.
LEMMA StepsOfRange ==
  ASSUME [Next]_vars
  PROVE  \/ UNCHANGED <<graphVars, rangeVars>>
         \/ kit.source = "ajax" /\ UNCHANGED drag
         \/ Render /\ Updated /\ UNCHANGED window
         \/ Has("preview") /\ \E side \in Sides : MouseDown(side)
         \/ /\ Has("preview") /\ drag # Undefined
            /\ \E distance \in Distances : DragTo(distance)
            /\ Render /\ PreviewUpdated /\ UNCHANGED <<series, pointVars>>
         \/ Has("preview") /\ MouseUp
         \/ Has("preview") /\ \E width \in PreviewWidths : Resize(width)
         \/ /\ Has("slider") /\ \E low, high \in Stops : Slide(low, high)
            /\ Render /\ UNCHANGED <<series, pointVars>>
         \/ Has("slider") /\ \E value \in Stops : Meet(value)
<1>1. ASSUME NEW row, Row(row) PROVE Render /\ Updated /\ UNCHANGED window BY <1>1 DEF Row
<1>2. ASSUME NEW reply, NEW colors, Reply(reply, colors) PROVE kit.source = "ajax" /\ UNCHANGED drag
  BY <1>2 DEF Reply, Updated, PreviewUpdated, SliderUpdated, rangeVars
<1>3. ASSUME NEW name,
             Anchor(name) \/ Label(name) \/ Enter(name) \/ Leave(name) \/ \E place : Drop(name, place)
      PROVE  Render /\ Updated /\ UNCHANGED window
  BY <1>3 DEF Anchor, Label, Enter, Leave, Drop, Clicked
<1>4. ASSUME NEW x, NEW graphic, Move(x, graphic) PROVE UNCHANGED <<graphVars, rangeVars>>
  BY <1>4 DEF Move
<1>5. ASSUME Out PROVE UNCHANGED <<graphVars, rangeVars>> BY <1>5 DEF Out
<1>6. ASSUME NEW side, Press(side) PROVE Has("preview") /\ MouseDown(side) BY <1>6 DEF Press
<1>7. ASSUME NEW distance, Drag(distance)
      PROVE  /\ Has("preview") /\ drag # Undefined /\ DragTo(distance)
             /\ Render /\ PreviewUpdated /\ UNCHANGED <<series, pointVars>>
  BY <1>7 DEF Drag, Pan
<1>8. ASSUME Release PROVE Has("preview") /\ MouseUp BY <1>8 DEF Release
<1>9. ASSUME NEW width, Configure(width) PROVE Has("preview") /\ Resize(width)
  BY <1>9 DEF Configure
<1>10. ASSUME NEW low, NEW high, SlideHandles(low, high)
       PROVE  Has("slider") /\ Slide(low, high) /\ Render /\ UNCHANGED <<series, pointVars>>
  BY <1>10 DEF SlideHandles, Pan
<1>11. ASSUME NEW value, JoinHandles(value) PROVE Has("slider") /\ Meet(value)
  BY <1>11 DEF JoinHandles
<1>12. ASSUME NEW scale, Smoothen(scale) PROVE Render /\ Updated /\ UNCHANGED window
  BY <1>12 DEF Smoothen
<1>13. ASSUME UNCHANGED vars PROVE UNCHANGED <<graphVars, rangeVars>> BY <1>13 DEF vars
<1> QED
  BY <1>1, <1>2, <1>3, <1>4, <1>5, <1>6, <1>7, <1>8, <1>9, <1>10, <1>11, <1>12, <1>13 DEF Next

\* The rows there are, and where the data of a FixedDuration begins and ends.
Times == RowDomain(currentSize, currentIndex)

LEMMA TimesOfRows ==
  ASSUME LegendInv, RowsInv, kit.source = "fixed"
  PROVE  AreRows(currentSize, currentIndex) /\ DataDomain(series, data) = Times
<1>1. AreRows(currentSize, currentIndex) BY DEF RowsInv, AreRows
<1>2. series \in Seq(Name) /\ ToSet(series) # {} BY DEF LegendInv
<1> QED BY <1>1, <1>2, DataDomainOfRows DEF RowsInv, Times

\* The data moves on, or stays.
LEMMA TimesLater ==
  ASSUME LegendInv, RowsInv, kit.source = "fixed", [Next]_vars
  PROVE  /\ Times.min <= Times'.min /\ Times.max <= Times'.max
         /\ UNCHANGED pointVars => Times' = Times
<1>1. AreRows(currentSize, currentIndex) BY TimesOfRows
<1>2. CASE \E row : AddRow(row)
  <2>1. currentIndex' = currentIndex + 1 /\ currentSize' \in {currentSize, currentSize + 1}
    BY <1>2 DEF AddRow
  <2>2. currentIndex' # currentIndex
    <3>1. currentIndex \in Nat BY <1>1 DEF AreRows
    <3> QED BY <2>1, <3>1
  <2> QED BY <1>1, <2>1, <2>2, RowDomainLater DEF Times, pointVars
<1>3. CASE UNCHANGED <<currentSize, currentIndex>>
  <2>1. Times' = Times BY <1>3 DEF Times
  <2>2. Times.min \in Nat /\ Times.max \in Nat
    <3>1. /\ currentSize \in Nat /\ currentIndex \in Nat /\ currentSize <= currentIndex
      BY <1>1 DEF AreRows
    <3>2. currentIndex - currentSize + 1 \in Nat BY <3>1
    <3> QED BY <3>1, <3>2, RowTimeFacts DEF Times, RowDomain
  <2> QED BY <2>1, <2>2
<1> QED BY <1>2, <1>3, StepsOfPoints

\* How far a window may begin before the end of the data: there has to be room for the
\* frame.  Where the data has moved on it still is.
RoomFor(t, d, w) == w * (t - d.min) <= (w - MinimumFrameWidth) * (d.max - d.min)

LEMMA RoomLater ==
  ASSUME NEW t \in Int, NEW d, IsDomain(d), NEW e, IsDomain(e), d.min <= e.min, d.max <= e.max,
         NEW w \in PreviewWidths, RoomFor(t, d, w)
  PROVE  RoomFor(t, e, w)
<1> DEFINE M == MinimumFrameWidth
           a == d.min
           b == d.max
           f == e.min
           g == e.max
<1>1. w \in Nat /\ M \in Nat /\ M <= w BY RangeConstants
<1>2. a \in Nat /\ b \in Nat /\ f \in Nat /\ g \in Nat /\ a <= f /\ b <= g BY DEF IsDomain
<1>3. w * (t - a) <= (w - M) * (b - a) BY DEF RoomFor
<1> HIDE DEF M, a, b, f, g
<1>4. w * (t - a) = w * t - w * a /\ (w - M) * (b - a) = (w - M) * b + M * a - w * a
  BY <1>1, <1>2
<1>5. w * (t - f) = w * t - w * f /\ (w - M) * (g - f) = (w - M) * g + M * f - w * f
  BY <1>1, <1>2
<1>6. (w - M) * b <= (w - M) * g /\ M * a <= M * f BY <1>1, <1>2
<1>7. /\ w * t \in Int /\ w * a \in Int /\ w * f \in Int /\ M * a \in Int /\ M * f \in Int
      /\ (w - M) * b \in Int /\ (w - M) * g \in Int
  BY <1>1, <1>2
<1>8. w * (t - f) <= (w - M) * (g - f) BY <1>3, <1>4, <1>5, <1>6, <1>7
<1> QED BY <1>8 DEF RoomFor, M, f, g

LEMMA RoomOfWidths ==
  ASSUME NEW t \in Int, NEW d, IsDomain(d), NEW w \in PreviewWidths, RoomFor(t, d, w),
         NEW v \in PreviewWidths
  PROVE  RoomFor(t, d, v) /\ t <= d.max
<1>1. w \in Nat /\ w > 0 /\ v \in Nat /\ v > 0 BY RangeConstants
<1>2. MinimumFrameWidth = 0 \/ v = w BY RangeConstants
<1> DEFINE range == d.max - d.min
           past == t - d.min
           M == MinimumFrameWidth
<1>3. /\ range \in Nat /\ past \in Int /\ (past <= range <=> t <= d.max)
      /\ M \in Nat /\ M <= w /\ w * past <= (w - M) * range
  BY RangeConstants DEF IsDomain, RoomFor
<1> HIDE DEF range, past
<1>4. past <= range
  <2>1. (w - M) * range <= w * range
    <3>1. (w - M) * range = w * range - M * range /\ M * range \in Nat /\ w * range \in Nat
      BY <1>1, <1>3
    <3> QED BY <3>1
  <2>2. past > range => w * past > w * range BY <1>1, <1>3
  <2>3. w * past \in Int /\ w * range \in Int /\ (w - M) * range \in Int BY <1>1, <1>3
  <2> QED BY <1>3, <2>1, <2>2, <2>3
<1>5. M = 0 => v * past <= (v - M) * range BY <1>1, <1>3, <1>4
<1>6. v = w => v * past <= (v - M) * range BY <1>3
<1>7. RoomFor(t, d, v) BY <1>2, <1>5, <1>6 DEF RoomFor, range, past, M
<1> QED BY <1>3, <1>4, <1>7

\* A window begins before the end of the data, and ends before it or not at all.
Within(win, d) ==
  /\ win.xMin = Undefined \/ (win.xMin \in Int /\ win.xMin <= d.max)
  /\ win.xMax = Undefined \/ (win.xMax \in Int /\ 0 < win.xMax /\ win.xMax < d.max)

LEMMA Multiple ==
  ASSUME NEW n \in Nat, NEW w \in Nat, w > 0, n % w = 0
  PROVE  \E k \in Nat : n = k * w
<1> DEFINE k == n \div w
<1>1. k \in Int /\ w * k <= n /\ n < w * k + w BY DivFacts
<1>2. n = w * k + (n % w) OBVIOUS
<1> HIDE DEF k
<1>3. k >= 0
  <2>1. ~(k <= -1)
    <3>1. k <= -1 => w * k <= w * (-1) BY <1>1
    <3> QED BY <1>1, <3>1
  <2> QED BY <1>1, <2>1
<1>4. k \in Nat /\ n = k * w BY <1>1, <1>2, <1>3
<1> QED BY <1>4

\* The widths a frame is between are whole pixels.
LEMMA WholePixels ==
  ASSUME NEW w \in PreviewWidths
  PROVE  \E k \in Nat : w - MinimumFrameWidth = Grain * k
<1> DEFINE M == MinimumFrameWidth
<1>1. /\ Grain \in Nat /\ Grain > 0 /\ w \in Nat /\ M \in Nat /\ M <= w
      /\ w % Grain = 0 /\ M % Grain = 0
  BY RangeConstants
<1> HIDE DEF M
<1>2. PICK a \in Nat : w = a * Grain BY <1>1, Multiple
<1>3. PICK b \in Nat : M = b * Grain BY <1>1, Multiple
<1>4. b <= a
  <2>1. ASSUME b > a PROVE FALSE
    <3>1. b * Grain > a * Grain BY <1>1, <2>1
    <3> QED BY <1>1, <1>2, <1>3, <3>1
  <2> QED BY <2>1
<1>5. a - b \in Nat /\ w - M = Grain * (a - b) BY <1>1, <1>2, <1>3, <1>4
<1> QED BY <1>5 DEF M

LEMMA FrameForFacts ==
  ASSUME NEW d, IsDomain(d), NEW w \in PreviewWidths, NEW win, Within(win, d),
         win.xMin = Undefined \/ RoomFor(win.xMin, d, w)
  PROVE  InPreview(FrameFor(win, d, w), w)
<1> DEFINE M == MinimumFrameWidth
           left == IF win.xMin = Undefined THEN 0 ELSE Max({0, PixelNextTo(win.xMin, d, w)})
           right == IF win.xMax = Undefined THEN w ELSE GrainAt(win.xMax, d, w)
           f == FrameFor(win, d, w)
<1>1. w \in Nat /\ w > 0 /\ M \in 0 .. w /\ M \in Nat BY RangeConstants
<1>2. f.left = left /\ f.right = Max({right, left + M}) BY DEF FrameFor
<1> HIDE DEF f
<1>3. left \in Nat /\ left + M <= w
  <2>1. CASE win.xMin = Undefined BY <1>1, <2>1
  <2>2. CASE win.xMin # Undefined
    <3> DEFINE p == PixelNextTo(win.xMin, d, w)
    <3>1. win.xMin \in Int /\ RoomFor(win.xMin, d, w) BY <2>2 DEF Within
    <3>2. p \in Int /\ p <= w - M
      <4>1. PICK k \in Nat : w - M = Grain * k BY WholePixels
      <4>2. w * (win.xMin - d.min) <= (Grain * k) * (d.max - d.min) BY <3>1, <4>1 DEF RoomFor
      <4> QED BY <1>1, <3>1, <4>1, <4>2, PixelFacts
    <3> HIDE DEF p
    <3>3. left = IF 0 >= p THEN 0 ELSE p BY <2>2, <3>2, OfTwo DEF p
    <3> QED BY <1>1, <3>2, <3>3
  <2> QED BY <2>1, <2>2
<1>4. right \in Int /\ right <= w
  <2>1. CASE win.xMax = Undefined BY <1>1, <2>1
  <2>2. CASE win.xMax # Undefined
    <3>1. win.xMax \in Int /\ win.xMax <= d.max BY <2>2 DEF Within, IsDomain
    <3> QED BY <1>1, <2>2, <3>1, PixelFacts
  <2> QED BY <2>1, <2>2
<1> HIDE DEF left, right, M
<1>5. f.right = IF right >= left + M THEN right ELSE left + M BY <1>1, <1>2, <1>3, <1>4, OfTwo
<1> QED BY <1>1, <1>2, <1>3, <1>4, <1>5 DEF InPreview, M, f

\* The window that a drag gives.
LEMMA DragFacts ==
  ASSUME NEW distance, DragTo(distance), NEW d, IsDomain(d), DataDomain(series, data) = d,
         previewWidth \in PreviewWidths, InPreview(FrameAfter(distance), previewWidth)
  PROVE  /\ Within(window', d)
         /\ window'.xMin = Undefined \/ RoomFor(window'.xMin, d, previewWidth)
         /\ window'.xMin = IF FrameAfter(distance).left = 0 THEN Undefined
                           ELSE TimeAt(FrameAfter(distance).left, d, previewWidth)
         /\ window'.xMax = IF FrameAfter(distance).right = previewWidth THEN Undefined
                           ELSE TimeAt(FrameAfter(distance).right, d, previewWidth)
<1> DEFINE w == previewWidth
           M == MinimumFrameWidth
           L == FrameAfter(distance).left
           R == FrameAfter(distance).right
<1>1. /\ window'.xMin = IF L = 0 THEN Undefined ELSE TimeAt(L, d, w)
      /\ window'.xMax = IF R = w THEN Undefined ELSE TimeAt(R, d, w)
  BY DEF DragTo
<1>2. w \in Nat /\ w > 0 /\ M \in Nat /\ L \in Nat /\ R \in Nat /\ L + M <= R /\ R <= w
  BY RangeConstants DEF InPreview
<1>3. L <= w - M /\ L <= w BY <1>2
<1> HIDE DEF L, R, w, M
<1>4. /\ TimeAt(L, d, w) \in Int /\ TimeAt(L, d, w) <= d.max
      /\ w * (TimeAt(L, d, w) - d.min) <= L * (d.max - d.min)
  BY <1>2, <1>3, TimeAtFacts
<1>5. RoomFor(TimeAt(L, d, w), d, w)
  <2> DEFINE t == TimeAt(L, d, w)
             range == d.max - d.min
  <2>1. range \in Nat /\ t - d.min \in Int BY <1>4 DEF IsDomain
  <2>2. w * (t - d.min) <= L * range BY <1>4
  <2> HIDE DEF t, range
  <2>3. L * range <= (w - M) * range BY <1>2, <1>3, <2>1
  <2>4. w * (t - d.min) \in Int /\ L * range \in Int /\ (w - M) * range \in Int BY <1>2, <2>1
  <2>5. w * (t - d.min) <= (w - M) * range BY <2>2, <2>3, <2>4
  <2> QED BY <2>5 DEF RoomFor, t, range, M
<1>6. R # w => /\ TimeAt(R, d, w) \in Int /\ 0 < TimeAt(R, d, w) /\ TimeAt(R, d, w) < d.max
  <2>1. R # w => R < w BY <1>2
  <2>2. /\ TimeAt(R, d, w) \in Nat /\ d.min <= TimeAt(R, d, w)
        /\ R < w => TimeAt(R, d, w) < d.max
    BY <1>2, TimeAtFacts
  <2>3. d.min \in Nat /\ 0 < d.min BY DEF IsDomain
  <2> QED BY <2>1, <2>2, <2>3
<1>7. Within(window', d) BY <1>1, <1>4, <1>6 DEF Within
<1>8. window'.xMin = Undefined \/ RoomFor(window'.xMin, d, w) BY <1>1, <1>5
<1> QED BY <1>1, <1>7, <1>8 DEF L, R, w

\* The window fits the data; the frame fits the window, and lies in the preview, also the
\* one a drag began with.
WindowInv ==
  /\ ~Has("preview") /\ ~Has("slider") => window = Open
  /\ Has("preview") \/ Has("slider") => Within(window, Times)
  /\ Has("preview") =>
       /\ previewWidth \in PreviewWidths
       /\ window.xMin = Undefined \/ RoomFor(window.xMin, Times, previewWidth)
       /\ InPreview(frame, previewWidth)
       /\ drag # Undefined => Dragged

LEMMA StopsFacts ==
  ASSUME LegendInv, RowsInv, kit.source = "fixed", NEW t \in Stops
  PROVE  t \in Int /\ Times.min <= t /\ t <= Times.max
<1> DEFINE s == Rows(currentSize, currentIndex)
           first == currentIndex - currentSize
<1>1. series[1] \in ToSet(series)
  <2>1. series \in Seq(Name) /\ ToSet(series) # {} BY DEF LegendInv
  <2>2. 1 \in 1 .. Len(series) BY <2>1, SetOfSeq
  <2> QED BY <2>1, <2>2, SetOfSeq
<1>2. data[series[1]] = s BY <1>1 DEF RowsInv
<1>3. currentSize \in Nat /\ currentIndex \in Nat /\ currentSize <= currentIndex BY DEF RowsInv
<1>4. /\ s \in Seq(PointSet) /\ Len(s) = currentSize
      /\ \A j \in 1 .. currentSize : s[j] = Point(RowTime(first + j))
  BY <1>3, RowsFacts
<1> HIDE DEF s
<1>5. PICK p \in ToSet(s) : t = p.x BY <1>2 DEF Stops
<1>6. PICK j \in 1 .. currentSize : p = s[j] BY <1>4, SetOfSeq
<1>7. t = RowTime(first + j)
  <2>1. \A x : Point(x).x = x BY DEF Point
  <2> QED BY <1>4, <1>5, <1>6, <2>1
<1>8. /\ first + 1 \in Nat /\ first + j \in Nat
      /\ first + 1 <= first + j /\ first + j <= currentIndex
  BY <1>3
<1>9. /\ RowTime(first + j) \in Nat /\ RowTime(first + 1) <= RowTime(first + j)
      /\ RowTime(first + j) <= RowTime(currentIndex)
  BY <1>3, <1>8, RowTimeFacts
<1> QED BY <1>7, <1>9 DEF Times, RowDomain

LEMMA WindowInvHolds == Spec => []WindowInv
<1>1. Init => WindowInv
  <2> SUFFICES ASSUME Init PROVE WindowInv
    OBVIOUS
  <2>1. window = Open BY DEF Init, Construct
  <2>2. Within(window, Times) /\ window.xMin = Undefined BY <2>1 DEF Within, Open
  <2>3. ASSUME Has("preview")
        PROVE  /\ previewWidth \in PreviewWidths /\ InPreview(frame, previewWidth)
               /\ drag = Undefined
    <3>1. RangeInit BY <2>3 DEF Init
    <3>2. /\ previewWidth \in PreviewWidths /\ drag = Undefined
          /\ frame.left = 0 /\ frame.right = previewWidth
      BY <3>1 DEF RangeInit
    <3> QED BY <3>2, RangeConstants DEF InPreview
  <2> QED BY <2>1, <2>2, <2>3 DEF WindowInv
<1>2. LegendInv /\ LegendInv' /\ RowsInv /\ RowsInv' /\ WindowInv /\ [Next]_vars => WindowInv'
  <2> SUFFICES ASSUME LegendInv, LegendInv', RowsInv, RowsInv', WindowInv, [Next]_vars
               PROVE  WindowInv'
    OBVIOUS
  <2>0. kit' = kit BY StepsOfLegend
  <2>1. CASE ~Has("preview") /\ ~Has("slider")
    <3>1. window' = window BY <2>1, StepsOfGraph DEF graphVars
    <3> QED BY <2>0, <2>1, <3>1 DEF WindowInv, Has, Open
  <2>2. CASE Has("preview") \/ Has("slider")
    <3> DEFINE d == Times
               e == Times'
               w == previewWidth
    <3>1. kit.source = "fixed" /\ MaxDataPoints > 3 /\ ~(Has("preview") /\ Has("slider"))
      BY <2>2, KitConstants DEF LegendInv, Has
    <3>2. /\ AreRows(currentSize, currentIndex) /\ DataDomain(series, data) = d
          /\ AreRows(currentSize', currentIndex') /\ DataDomain(series', data') = e
      <4>1. AreRows(currentSize', currentIndex') BY <2>0, <3>1 DEF RowsInv, AreRows
      <4>2. series' \in Seq(Name) /\ ToSet(series') # {} BY DEF LegendInv
      <4>3. \A name \in ToSet(series') : data'[name] = Rows(currentSize', currentIndex')
        BY <2>0, <3>1 DEF RowsInv
      <4> QED BY <3>1, <4>1, <4>2, <4>3, TimesOfRows, DataDomainOfRows DEF Times
    <3>3. IsDomain(d) /\ IsDomain(e) BY <3>1, <3>2, RowDomainFacts DEF Times
    <3>4. d.min <= e.min /\ d.max <= e.max /\ (UNCHANGED pointVars => e = d)
      BY <3>1, TimesLater
    <3>5. ~failed' BY <2>0, <3>1 DEF RowsInv
    <3>6. /\ Within(window, d)
          /\ Has("preview") => /\ w \in PreviewWidths
                               /\ window.xMin = Undefined \/ RoomFor(window.xMin, d, w)
                               /\ InPreview(frame, w)
                               /\ drag # Undefined => Dragged
      BY <2>2 DEF WindowInv
    <3> HIDE DEF d, e
    <3>7. Within(window, e)
      <4>1. d.max \in Int /\ e.max \in Int BY <3>3 DEF IsDomain
      <4> QED BY <3>4, <3>6, <4>1 DEF Within
    <3>8. SUFFICES /\ Within(window', e)
                   /\ Has("preview") =>
                        /\ w' \in PreviewWidths
                        /\ window'.xMin = Undefined \/ RoomFor(window'.xMin, e, w')
                        /\ InPreview(frame', w')
                        /\ drag' # Undefined => Dragged'
      BY <2>0, <2>2 DEF WindowInv, Has, e
    <3>9. CASE UNCHANGED <<graphVars, rangeVars>>
      <4>1. UNCHANGED <<pointVars, window, previewWidth, frame, drag>> BY <3>9 DEF graphVars, rangeVars
      <4>2. e = d BY <3>4, <4>1
      <4> QED BY <3>6, <4>1, <4>2 DEF Dragged
    <3>10. CASE Render /\ Updated /\ UNCHANGED window
      <4>1. ASSUME Has("preview")
            PROVE  /\ w' \in PreviewWidths
                   /\ window'.xMin = Undefined \/ RoomFor(window'.xMin, e, w')
                   /\ InPreview(frame', w')
                   /\ drag' # Undefined => Dragged'
        <5>1. PreviewUpdated BY <3>1, <3>5, <3>10, <4>1 DEF Updated
        <5>2. w' = w /\ drag' = drag /\ frame' = FrameFor(window, e, w)
          BY <3>2, <3>10, <5>1 DEF PreviewUpdated
        <5>3. w \in PreviewWidths /\ (window.xMin = Undefined \/ RoomFor(window.xMin, e, w))
          BY <3>3, <3>4, <3>6, <4>1, RoomLater DEF Within
        <5>4. InPreview(frame', w) BY <3>3, <3>7, <5>2, <5>3, FrameForFacts
        <5> QED BY <3>6, <3>10, <4>1, <5>2, <5>3, <5>4 DEF Dragged
      <4> QED BY <3>7, <3>10, <4>1
    <3>11. CASE Has("preview") /\ \E side \in Sides : MouseDown(side)
      <4>1. PICK side \in Sides : MouseDown(side) BY <3>11
      <4>2. /\ UNCHANGED <<graphVars, previewWidth, frame>>
            /\ drag' = [left |-> side # "right", right |-> side # "left", rigid |-> side = "middle",
                        before |-> frame]
        BY <4>1 DEF MouseDown
      <4>3. UNCHANGED <<pointVars, window>> BY <4>2 DEF graphVars
      <4>4. /\ drag'.left = (side # "right") /\ drag'.right = (side # "left")
            /\ drag'.rigid = (side = "middle") /\ drag'.before = frame
        BY <4>2
      <4>5. Dragged' BY <3>6, <3>11, <4>1, <4>2, <4>4 DEF Dragged, Sides
      <4>6. e = d BY <3>4, <4>3
      <4> QED BY <3>6, <4>2, <4>3, <4>5, <4>6
    <3>12. CASE /\ Has("preview") /\ drag # Undefined
                /\ \E distance \in Distances : DragTo(distance)
                /\ Render /\ PreviewUpdated /\ UNCHANGED <<series, pointVars>>
      <4>1. PICK distance \in Distances : DragTo(distance) BY <3>12
      <4>2. e = d /\ w \in PreviewWidths /\ Dragged /\ distance \in Int
        BY <3>4, <3>6, <3>12, RangeConstants
      <4>3. InPreview(FrameAfter(distance), w) BY <4>2, FrameAfterFacts
      <4>4. Within(window', d) /\ (window'.xMin = Undefined \/ RoomFor(window'.xMin, d, w))
        BY <3>2, <3>3, <4>1, <4>2, <4>3, DragFacts
      <4>5. w' = w /\ drag' = drag /\ frame' = FrameFor(window', d, w)
        BY <3>2, <3>12, <4>2 DEF PreviewUpdated
      <4>6. InPreview(frame', w) BY <3>3, <4>2, <4>4, <4>5, FrameForFacts
      <4> QED BY <4>2, <4>4, <4>5, <4>6 DEF Dragged
    <3>13. CASE Has("preview") /\ MouseUp
      <4>1. UNCHANGED <<graphVars, previewWidth, frame>> /\ drag' = Undefined BY <3>13 DEF MouseUp
      <4>2. UNCHANGED <<pointVars, window>> BY <4>1 DEF graphVars
      <4>3. e = d BY <3>4, <4>2
      <4> QED BY <3>6, <4>1, <4>2, <4>3
    <3>14. CASE Has("preview") /\ \E width \in PreviewWidths : Resize(width)
      <4>1. PICK width \in PreviewWidths : Resize(width) BY <3>14
      <4>2. /\ UNCHANGED <<graphVars, drag>> /\ w' = width /\ drag = Undefined
            /\ frame' = FrameFor(window, d, width)
        BY <3>2, <4>1 DEF Resize
      <4>3. UNCHANGED <<pointVars, window>> BY <4>2 DEF graphVars
      <4>4. e = d BY <3>4, <4>3
      <4>5. window.xMin = Undefined \/ RoomFor(window.xMin, d, width)
        BY <3>3, <3>6, <3>14, RoomOfWidths DEF Within
      <4>6. InPreview(frame', width) BY <3>3, <3>6, <4>2, <4>5, FrameForFacts
      <4> QED BY <3>6, <4>2, <4>3, <4>4, <4>5, <4>6
    <3>15. CASE /\ Has("slider") /\ \E low, high \in Stops : Slide(low, high)
                /\ Render /\ UNCHANGED <<series, pointVars>>
      <4>1. PICK low \in Stops, high \in Stops : Slide(low, high) BY <3>15
      <4>2. /\ low < high
            /\ window'.xMin = IF low = d.min THEN Undefined ELSE low
            /\ window'.xMax = IF high = d.max THEN Undefined ELSE high
        BY <3>2, <4>1 DEF Slide, WindowFor
      <4>3. /\ low \in Int /\ high \in Int /\ d.min <= low /\ low <= d.max
            /\ d.min <= high /\ high <= d.max
        BY <3>1, StopsFacts DEF d
      <4>4. d.min \in Nat /\ d.max \in Nat /\ 0 < d.min /\ e = d
        BY <3>3, <3>4, <3>15 DEF IsDomain
      <4>5. Within(window', e) BY <4>2, <4>3, <4>4 DEF Within
      <4> QED BY <3>1, <3>15, <4>5
    <3>16. CASE Has("slider") /\ \E value \in Stops : Meet(value)
      <4>1. UNCHANGED <<graphVars>> BY <3>16 DEF Meet
      <4>2. window' = window BY <4>1 DEF graphVars
      <4> QED BY <3>1, <3>7, <3>16, <4>2
    <3> QED
      BY <3>1, <3>9, <3>10, <3>11, <3>12, <3>13, <3>14, <3>15, <3>16, StepsOfRange
  <2> QED BY <2>1, <2>2
<1> QED BY <1>1, <1>2, LegendInvHolds, RowsInvHolds, PTL DEF Spec

\* The handles of the slider stand where the window begins and ends.
SliderInv ==
  Has("slider") =>
    /\ "low" \in DOMAIN slider /\ "high" \in DOMAIN slider
    /\ ~slider.refused =>
         /\ slider.low = IF window.xMin = Undefined THEN Times.min ELSE window.xMin
         /\ slider.high = IF window.xMax = Undefined THEN Times.max ELSE window.xMax

LEMMA SliderInvHolds == Spec => []SliderInv
<1>1. Init => SliderInv
  <2> SUFFICES ASSUME Init, Has("slider") PROVE SliderInv
    BY DEF SliderInv
  <2>1. RangeInit /\ window = Open BY DEF Init, Construct
  <2>2. kit.source = "fixed" BY KitConstants DEF Init, Has
  <2>3. slider = [low |-> DataDomain(series, data).min, high |-> DataDomain(series, data).max,
                  refused |-> FALSE]
    BY <2>1 DEF RangeInit
  <2>4. DataDomain(series, data) = Times
    <3> DEFINE name == kit.names[1]
               N == MaxDataPoints - 2
    <3>1. name \in Name
      <4>1. kit.names \in Seq(Name) /\ kit.names # <<>> BY KitConstants DEF Init
      <4>2. 1 \in 1 .. Len(kit.names) BY <4>1, SetOfSeq
      <4> QED BY <4>1, <4>2, ElementOfSeq
    <3>2. /\ series = <<name>> /\ data[name] = ZeroFilled
          /\ currentSize = N /\ currentIndex = N
      BY <2>2, <3>1 DEF Init, Construct, RowsBegin
    <3>3. N \in Nat /\ MaxDataPoints \in Nat /\ N <= MaxDataPoints BY GraphConstants
    <3>4. ZeroFilled = Rows(N, N)
      <4>1. \A i \in 1 .. N : N - N + i = i /\ i <= N BY <3>3
      <4>2. \A i \in 1 .. N : RowTime(N - N + i) = i * TimeInterval BY <4>1 DEF RowTime
      <4> QED BY <4>2 DEF ZeroFilled, Rows
    <3> HIDE DEF N, name
    <3>5. AreRows(currentSize, currentIndex) BY <3>2, <3>3 DEF AreRows, N
    <3>6. series \in Seq(Name) /\ ToSet(series) = {name} BY <3>1, <3>2 DEF ToSet
    <3>7. \A x \in ToSet(series) : data[x] = Rows(currentSize, currentIndex)
      BY <3>2, <3>4, <3>6
    <3> QED BY <3>5, <3>6, <3>7, DataDomainOfRows DEF Times
  <2> QED BY <2>1, <2>3, <2>4 DEF SliderInv, Open
<1>2. LegendInv /\ LegendInv' /\ RowsInv /\ RowsInv' /\ SliderInv /\ [Next]_vars => SliderInv'
  <2> SUFFICES ASSUME LegendInv, LegendInv', RowsInv, RowsInv', SliderInv, [Next]_vars,
                      Has("slider")
               PROVE  SliderInv'
    BY StepsOfLegend DEF SliderInv, Has
  <2> DEFINE d == Times
             e == Times'
  <2>1. kit' = kit BY StepsOfLegend
  <2>2. kit.source = "fixed" /\ ~Has("preview") BY KitConstants DEF LegendInv, Has
  <2>3. /\ "low" \in DOMAIN slider /\ "high" \in DOMAIN slider
        /\ ~slider.refused =>
             /\ slider.low = IF window.xMin = Undefined THEN d.min ELSE window.xMin
             /\ slider.high = IF window.xMax = Undefined THEN d.max ELSE window.xMax
    BY DEF SliderInv
  <2>4. DataDomain(series, data) = d BY <2>2, TimesOfRows
  <2>5. DataDomain(series', data') = e
    <3>1. AreRows(currentSize', currentIndex') BY <2>1, <2>2 DEF RowsInv, AreRows
    <3>2. series' \in Seq(Name) /\ ToSet(series') # {} BY DEF LegendInv
    <3>3. \A name \in ToSet(series') : data'[name] = Rows(currentSize', currentIndex')
      BY <2>1, <2>2 DEF RowsInv
    <3> QED BY <3>1, <3>2, <3>3, DataDomainOfRows DEF Times
  <2>6. UNCHANGED pointVars => e = d BY <2>2, TimesLater
  <2>7. ~failed' BY <2>1, <2>2 DEF RowsInv
  <2> HIDE DEF d, e
  <2>8. SUFFICES /\ "low" \in DOMAIN slider' /\ "high" \in DOMAIN slider'
                 /\ ~slider'.refused =>
                      /\ slider'.low = IF window'.xMin = Undefined THEN e.min ELSE window'.xMin
                      /\ slider'.high = IF window'.xMax = Undefined THEN e.max ELSE window'.xMax
    BY DEF SliderInv, e
  <2>9. CASE UNCHANGED <<graphVars, rangeVars>>
    <3>1. UNCHANGED <<pointVars, window, slider>> BY <2>9 DEF graphVars, rangeVars
    <3> QED BY <2>3, <2>6, <3>1
  <2>10. CASE Render /\ Updated /\ UNCHANGED window
    <3>1. SliderUpdated BY <2>2, <2>7, <2>10 DEF Updated
    <3> DEFINE low == IF window'.xMin = Undefined THEN e.min ELSE slider.low
               high == IF window'.xMax = Undefined THEN e.max ELSE slider.high
    <3>2. slider' = [slider EXCEPT !.low = low, !.high = high] BY <2>3, <2>5, <3>1 DEF SliderUpdated
    <3> HIDE DEF low, high
    <3>3. /\ slider'.low = low /\ slider'.high = high /\ slider'.refused = slider.refused
          /\ "low" \in DOMAIN slider' /\ "high" \in DOMAIN slider'
      BY <2>3, <3>2
    <3> QED BY <2>3, <2>10, <3>3 DEF low, high
  <2>11. CASE /\ \E low, high \in Stops : Slide(low, high)
              /\ Render /\ UNCHANGED <<series, pointVars>>
    <3>1. PICK low \in Stops, high \in Stops : Slide(low, high) BY <2>11
    <3>2. /\ window' = [xMin |-> IF low = d.min THEN Undefined ELSE low,
                        xMax |-> IF high = d.max THEN Undefined ELSE high]
          /\ slider' = [low |-> low, high |-> high, refused |-> FALSE]
      BY <2>4, <3>1 DEF Slide, WindowFor
    <3>3. low # Undefined /\ high # Undefined
      <4>1. low \in Int /\ high \in Int BY <2>2, StopsFacts
      <4> QED BY <4>1, GraphConstants
    <3>4. e = d BY <2>6, <2>11
    <3> QED BY <3>2, <3>3, <3>4
  <2>12. CASE \E value \in Stops : Meet(value)
    <3>1. PICK value : Meet(value) BY <2>12
    <3>2. slider' = [low |-> value, high |-> value, refused |-> TRUE] BY <3>1 DEF Meet
    <3> QED BY <3>2
  <2> QED BY <2>2, <2>9, <2>10, <2>11, <2>12, StepsOfRange
<1> QED BY <1>1, <1>2, LegendInvHolds, RowsInvHolds, PTL DEF Spec

\* The frame lies in the preview, its edges in their order, and the handles of the slider
\* stand where the window begins and ends, whatever was dragged and whatever rows came.
THEOREM ControlsAgree == Spec => []ControlsFit
<1>1. LegendInv /\ RowsInv /\ WindowInv /\ SliderInv => ControlsFit
  <2> SUFFICES ASSUME LegendInv, RowsInv, WindowInv, SliderInv PROVE ControlsFit
    OBVIOUS
  <2>1. ASSUME Has("preview") PROVE FrameInPreview
    <3>1. InPreview(frame, previewWidth) /\ MinimumFrameWidth \in Nat
      BY <2>1, RangeConstants DEF WindowInv
    <3> QED BY <3>1 DEF InPreview, FrameInPreview
  <2>2. ASSUME Has("slider") PROVE SliderShowsWindow
    <3>1. kit.source = "fixed" BY <2>2, KitConstants DEF LegendInv, Has
    <3>2. DataDomain(series, data) = Times BY <3>1, TimesOfRows
    <3> QED BY <2>2, <3>2 DEF SliderInv, SliderShowsWindow
  <2> QED BY <2>1, <2>2 DEF ControlsFit
<1> QED BY <1>1, LegendInvHolds, RowsInvHolds, WindowInvHolds, SliderInvHolds, PTL

DragInv == drag # Undefined => Has("preview")

LEMMA DragInvHolds == Spec => []DragInv
<1>1. Init => DragInv BY DEF Init, RangeInit, DragInv
<1>2. DragInv /\ [Next]_vars => DragInv'
  <2> SUFFICES ASSUME DragInv, [Next]_vars PROVE DragInv'
    OBVIOUS
  <2>1. Has("preview")' <=> Has("preview") BY StepsOfLegend DEF Has
  <2>2. Updated => drag' = drag BY DEF Updated, PreviewUpdated, SliderUpdated, rangeVars
  <2> QED BY <2>1, <2>2, StepsOfRange DEF DragInv, Slide, Meet, rangeVars
<1> QED BY <1>1, <1>2, PTL DEF Spec

\* A frame that is dragged by its middle gives a window as wide as it was, at the borders
\* too and when rows have come since the drag began, and the frame drawn for that window is
\* as wide but for half a pixel at most.
THEOREM RigidFrameKeepsWidth == Spec => RigidDragKeepsWidth
<1> DEFINE Kept ==
             drag # Undefined /\ drag' = drag /\ window' # window /\ drag.rigid =>
               LET width == drag.before.right - drag.before.left
                   domain == DataDomain(series, data)
                   change == frame'.right - frame'.left - width
               IN  /\ Span(window', domain) * previewWidth = width * (domain.max - domain.min)
                   /\ -Grain <= 2 * change /\ 2 * change <= Grain
<1>1. /\ LegendInv /\ LegendInv' /\ RowsInv /\ RowsInv' /\ WindowInv /\ DragInv /\ [Next]_vars
      => [Kept]_<<window, drag, frame>>
  <2> DEFINE b == drag.before.right - drag.before.left
             D == DataDomain(series, data)
             change == frame'.right - frame'.left - b
  <2> SUFFICES ASSUME LegendInv, LegendInv', RowsInv, RowsInv', WindowInv, DragInv, [Next]_vars,
                      drag # Undefined, drag' = drag, window' # window, drag.rigid
               PROVE  /\ Span(window', D) * previewWidth = b * (D.max - D.min)
                      /\ -Grain <= 2 * change /\ 2 * change <= Grain
    OBVIOUS
  <2> DEFINE d == Times
             w == previewWidth
  <2>1. kit' = kit BY StepsOfLegend
  <2>2. Has("preview") /\ kit.source = "fixed" /\ MaxDataPoints > 3 /\ ~Has("slider")
    BY KitConstants DEF LegendInv, DragInv, Has
  <2>3. PICK distance \in Distances : DragTo(distance)
    BY <2>2, StepsOfRange DEF graphVars, MouseDown, MouseUp, Resize
  <2>4. PreviewUpdated /\ UNCHANGED <<series, pointVars>>
    BY <2>2, StepsOfRange DEF graphVars, MouseDown, MouseUp, Resize
  <2>5. Dragged /\ w \in PreviewWidths /\ distance \in Int BY <2>2, RangeConstants DEF WindowInv
  <2>6. AreRows(currentSize, currentIndex) /\ DataDomain(series, data) = d BY <2>2, TimesOfRows
  <2>7. IsDomain(d) /\ \E k \in Nat : d.max - d.min = k * TimeInterval
    BY <2>2, <2>6, RowDomainFacts DEF Times
  <2>8. DataDomain(series', data') = d BY <2>4, <2>6 DEF DataDomain, pointVars
  <2> DEFINE L == FrameAfter(distance).left
             R == FrameAfter(distance).right
             M == MinimumFrameWidth
  <2>9. /\ InPreview(FrameAfter(distance), w)
        /\ R - L = drag.before.right - drag.before.left
    BY <2>5, FrameAfterFacts
  <2>10. w \in Nat /\ w > 0 /\ M \in Nat /\ L \in Nat /\ R \in Nat /\ L + M <= R /\ R <= w
    BY <2>5, <2>9, RangeConstants DEF InPreview
  <2>11. \E k \in Nat : d.max - d.min = k * w
    <3>1. PICK j \in Nat : d.max - d.min = j * TimeInterval BY <2>7
    <3>2. TimeInterval \in Nat /\ TimeInterval % w = 0 BY <2>5, GraphConstants, RangeConstants
    <3>3. PICK q \in Nat : TimeInterval = q * w BY <2>10, <3>2, Multiple
    <3> HIDE DEF d, w
    <3>4. j * (q * w) = (j * q) * w /\ j * q \in Nat BY <2>10
    <3> QED BY <3>1, <3>3, <3>4
  <2>12. /\ window'.xMin = IF L = 0 THEN Undefined ELSE TimeAt(L, d, w)
         /\ window'.xMax = IF R = w THEN Undefined ELSE TimeAt(R, d, w)
    BY <2>3, <2>5, <2>6, <2>7, <2>9, DragFacts
  <2>13. frame' = FrameFor(window', d, w) BY <2>4, <2>8 DEF PreviewUpdated
  <2>14. PICK k \in Nat : d.max - d.min = k * w BY <2>11
  <2>15. Grain \in Nat /\ Grain > 0 /\ d.min \in Int /\ d.max \in Int
    BY <2>7, RangeConstants DEF IsDomain
  <2> DEFINE tL == TimeAt(L, d, w)
             tR == TimeAt(R, d, w)
             x == PixelNextTo(tL, d, w)
  <2> HIDE DEF d, w, L, R, M
  <2>16. /\ tL = d.min + L * k /\ x \in Int /\ 2 * (x - L) <= Grain /\ -Grain <= 2 * (x - L)
         /\ tR = d.min + R * k /\ GrainAt(tR, d, w) = R
    <3>1. IsDomain(d) BY <2>7
    <3>2. tL = d.min + L * k /\ x \in Int BY <2>10, <2>14, <3>1, RoundTrip
    <3>3. 2 * (x - L) <= Grain /\ -Grain <= 2 * (x - L)
      BY <2>10, <2>14, <2>15, <3>1, <3>2, RoundTrip
    <3>4. tR = d.min + R * k /\ GrainAt(tR, d, w) = R
      BY <2>10, <2>14, <3>1, RoundTrip
    <3> QED BY <3>2, <3>3, <3>4
  <2>17. tL \in Int /\ tR \in Int /\ tL # Undefined /\ tR # Undefined
    <3>1. L * k \in Int /\ R * k \in Int BY <2>10
    <3>2. tL \in Int /\ tR \in Int BY <2>15, <2>16, <3>1
    <3> QED BY <3>2, GraphConstants
  <2> HIDE DEF tL, tR, x
  <2>18. Span(window', d) = R * k - L * k
    <3>1. L * k \in Int /\ R * k \in Int /\ w * k \in Int /\ k * w = w * k BY <2>10
    <3>2. (IF window'.xMax = Undefined THEN d.max ELSE window'.xMax) = d.min + R * k
      BY <2>12, <2>14, <2>15, <2>16, <2>17, <3>1 DEF tR
    <3>3. (IF window'.xMin = Undefined THEN d.min ELSE window'.xMin) = d.min + L * k
      BY <2>10, <2>12, <2>15, <2>16, <2>17 DEF tL
    <3> QED BY <2>15, <3>1, <3>2, <3>3 DEF Span
  <2>19. Span(window', d) * w = (R - L) * (d.max - d.min)
    <3>1. (R * k - L * k) * w = (R - L) * (k * w) BY <2>10
    <3> QED BY <2>14, <2>18, <3>1
  <2>20. /\ frame'.left = IF window'.xMin = Undefined THEN 0
                          ELSE Max({0, PixelNextTo(window'.xMin, d, w)})
         /\ frame'.right = Max({IF window'.xMax = Undefined THEN w ELSE GrainAt(window'.xMax, d, w),
                                frame'.left + M})
    BY <2>13 DEF FrameFor, M
  <2> DEFINE fL == frame'.left
             fR == frame'.right
  <2>21. fL \in Int /\ 2 * (fL - L) <= Grain /\ -Grain <= 2 * (fL - L)
    <3>1. CASE L = 0
      <4>1. fL = 0 BY <2>12, <2>20, <3>1
      <4> QED BY <2>15, <3>1, <4>1
    <3>2. CASE L # 0
      <4>1. fL = Max({0, x}) BY <2>12, <2>17, <2>20, <3>2 DEF tL, x
      <4>2. fL = IF 0 >= x THEN 0 ELSE x BY <2>16, <4>1, OfTwo
      <4> HIDE DEF fL
      <4> QED BY <2>10, <2>15, <2>16, <4>2
    <3> QED BY <3>1, <3>2
  <2>22. fR = IF R >= fL + M THEN R ELSE fL + M
    <3>1. (IF window'.xMax = Undefined THEN w ELSE GrainAt(window'.xMax, d, w)) = R
      BY <2>12, <2>16, <2>17 DEF tR
    <3>2. fR = Max({R, fL + M}) BY <2>20, <3>1
    <3> HIDE DEF fL, fR
    <3>3. R \in Int /\ fL + M \in Int BY <2>10, <2>21
    <3> QED BY <3>2, <3>3, OfTwo
  <2>23. -Grain <= 2 * (fR - fL - (R - L)) /\ 2 * (fR - fL - (R - L)) <= Grain
    <3> HIDE DEF fL, fR
    <3> QED BY <2>10, <2>15, <2>21, <2>22
  <2>24. R - L = b /\ D = d /\ previewWidth = w BY <2>6, <2>9 DEF d, w, L, R
  <2> HIDE DEF D
  <2> QED BY <2>19, <2>23, <2>24
<1> QED
  BY <1>1, LegendInvHolds, RowsInvHolds, WindowInvHolds, DragInvHolds, PTL DEF Spec, RigidDragKeepsWidth

-----------------------------------------------------------------------------
(* The newest points.                                                      *)

UnsmoothedInv == ~Has("smoother") => aggregation = 1

LEMMA UnsmoothedInvHolds == Spec => []UnsmoothedInv
<1>1. Init => UnsmoothedInv BY DEF Init, Construct, UnsmoothedInv
<1>2. UnsmoothedInv /\ [Next]_vars => UnsmoothedInv'
  <2> SUFFICES ASSUME UnsmoothedInv, [Next]_vars PROVE UnsmoothedInv'
    OBVIOUS
  <2>1. Has("smoother")' <=> Has("smoother") BY StepsOfLegend DEF Has
  <2>2. aggregation' = aggregation \/ Has("smoother") BY StepsOfGraph DEF graphVars
  <2> QED BY <2>1, <2>2 DEF UnsmoothedInv
<1> QED BY <1>1, <1>2, PTL DEF Spec

SlicesInv ==
  ~failed =>
    /\ Len(stackedData) \in Nat /\ DOMAIN stackedData = 1 .. Len(stackedData)
    /\ \A i \in 1 .. Len(stackedData) :
         \E name \in ToSet(series) : Slices(stackedData[i], data[name])

LEMMA SlicesInvHolds == Spec => []SlicesInv
<1>1. LegendInv /\ RowsInv /\ PointsInv /\ ScreenInv => SlicesInv
  <2> SUFFICES ASSUME LegendInv, RowsInv, PointsInv, ScreenInv, ~failed PROVE SlicesInv
    BY DEF SlicesInv
  <2> DEFINE active == Active(series, disabled)
  <2>1. /\ Len(stackedData) = Len(active) /\ DOMAIN stackedData = 1 .. Len(active)
        /\ \A i \in 1 .. Len(active) :
             active[i] \in ToSet(series) /\ Slices(stackedData[i], data[active[i]])
    BY ScreenFacts
  <2>2. Len(active) \in Nat
    <3>1. active \in Seq(Name) BY ActiveFacts DEF LegendInv
    <3> QED BY <3>1
  <2> HIDE DEF active
  <2> QED BY <2>1, <2>2 DEF SlicesInv
<1> QED BY <1>1, LegendInvHolds, RowsInvHolds, PointsInvHolds, ScreenInvHolds, PTL

\* The last of the rows, if it is in a window, is the last one in it.
LEMMA LastOfRows ==
  ASSUME NEW size \in Nat, NEW index \in Nat, 0 < size, size <= index,
         NEW r \in Seq(PointSet), Ascending(r), NEW win,
         ToSet(r) = {p \in ToSet(Rows(size, index)) : InWindow(p, win)},
         InWindow(Point(RowTime(index)), win)
  PROVE  r # <<>> /\ Last(r) = Point(RowTime(index))
<1> DEFINE s == Rows(size, index)
           first == index - size
           e == Point(RowTime(index))
           n == Len(r)
<1>1. /\ s \in Seq(PointSet) /\ Len(s) = size
      /\ \A j \in 1 .. size : s[j] = Point(RowTime(first + j)) /\ first + j \in Nat
  BY RowsFacts
<1>2. size \in 1 .. size /\ first + size = index OBVIOUS
<1> HIDE DEF s
<1>3. s[size] = e
  <2> HIDE DEF first
  <2> QED BY <1>1, <1>2
<1>4. e \in ToSet(r) BY <1>1, <1>2, <1>3, SetOfSeq DEF s
<1>5. PICK j \in 1 .. n : r[j] = e BY <1>4, SetOfSeq
<1>6. n \in Nat /\ n > 0 /\ n \in 1 .. n /\ r # <<>>
  <2>1. n \in Nat /\ (r = <<>> <=> n = 0) BY SetOfSeq
  <2> QED BY <1>5, <2>1
<1>7. Last(r) = r[n] BY <1>6 DEF Last
<1>8. r[n] \in ToSet(s) BY <1>6, SetOfSeq DEF s
<1>9. PICK k \in 1 .. size : r[n] = s[k] BY <1>1, <1>8, SetOfSeq
<1>10. r[n] = Point(RowTime(first + k)) /\ first + k \in Nat /\ first + k <= index
  <2>1. first + k <= index BY <1>9
  <2> QED BY <1>1, <1>9, <2>1
<1>11. \A x : Point(x).x = x BY DEF Point
<1>12. RowTime(first + k) <= RowTime(index) /\ RowTime(first + k) \in Nat /\ RowTime(index) \in Nat
  BY <1>10, RowTimeFacts
<1>13. j = n \/ r[j].x <= r[n].x
  <2>1. j = n \/ j < n BY <1>5, <1>6
  <2> QED BY <1>6, <2>1 DEF Ascending
<1>14. RowTime(index) <= RowTime(first + k)
  BY <1>5, <1>10, <1>11, <1>12, <1>13
<1>15. RowTime(first + k) = RowTime(index) BY <1>12, <1>14
<1> QED BY <1>6, <1>7, <1>10, <1>15

\* The newest points stay on the screen when rows come in, as long as they are on it.
THEOREM NewestStays == Spec => NewestStaysVisible
<1> DEFINE Newest == Last(data[series[1]])
           Stays ==
             currentIndex' # currentIndex /\ ~Has("smoother")
               /\ Newest.x \in {p.x : p \in UNION {ToSet(s) : s \in ToSet(stackedData)}}
             => \A i \in DOMAIN stackedData' :
                  stackedData'[i] # <<>> /\ Last(stackedData'[i]) = Last(data'[series'[1]])
<1>1. /\ LegendInv /\ LegendInv' /\ RowsInv /\ RowsInv' /\ WindowInv /\ UnsmoothedInv
      /\ UnsmoothedInv' /\ SlicesInv /\ SlicesInv' /\ [Next]_vars
      => [Stays]_vars
  <2> SUFFICES ASSUME LegendInv, LegendInv', RowsInv, RowsInv', WindowInv, UnsmoothedInv,
                      UnsmoothedInv', SlicesInv, SlicesInv', [Next]_vars,
                      currentIndex' # currentIndex, ~Has("smoother"),
                      Newest.x \in {p.x : p \in UNION {ToSet(s) : s \in ToSet(stackedData)}},
                      NEW i \in DOMAIN stackedData'
               PROVE  stackedData'[i] # <<>> /\ Last(stackedData'[i]) = Last(data'[series'[1]])
    OBVIOUS
  <2>1. kit' = kit /\ (Has("smoother")' <=> Has("smoother")) BY StepsOfLegend DEF Has
  <2>2. kit.source = "fixed" BY StepsOfPoints DEF Splice
  <2>3. window' = window
    BY <2>2, StepsOfRange DEF graphVars, pointVars, MouseDown, MouseUp, Resize, Meet
  <2>4. /\ AreRows(currentSize, currentIndex) /\ AreRows(currentSize', currentIndex')
        /\ ~failed /\ ~failed' /\ aggregation = 1 /\ aggregation' = 1
    BY <2>1, <2>2 DEF RowsInv, AreRows, UnsmoothedInv
  <2>5. /\ currentSize \in Nat /\ currentIndex \in Nat /\ 0 < currentSize /\ currentSize <= currentIndex
        /\ currentSize' \in Nat /\ currentIndex' \in Nat /\ 0 < currentSize' /\ currentSize' <= currentIndex'
    BY <2>4, GraphConstants DEF AreRows
  <2>6. /\ series[1] \in ToSet(series) /\ series'[1] \in ToSet(series')
    <3>1. series \in Seq(Name) /\ ToSet(series) # {} BY DEF LegendInv
    <3>2. series' \in Seq(Name) /\ ToSet(series') # {} BY DEF LegendInv
    <3>3. 1 \in 1 .. Len(series) /\ 1 \in 1 .. Len(series') BY <3>1, <3>2, SetOfSeq
    <3> QED BY <3>1, <3>2, <3>3, SetOfSeq
  <2>7. ASSUME NEW size \in Nat, NEW index \in Nat, 0 < size, size <= index
        PROVE  Last(Rows(size, index)) = Point(RowTime(index))
    <3>1. /\ Len(Rows(size, index)) = size /\ size \in 1 .. size
          /\ Rows(size, index)[size] = Point(RowTime(index - size + size))
          /\ index - size + size = index
      BY <2>7, RowsFacts
    <3> QED BY <3>1 DEF Last
  <2>8. Newest = Point(RowTime(currentIndex)) /\ Newest.x = Times.max
    <3>1. data[series[1]] = Rows(currentSize, currentIndex) BY <2>2, <2>6 DEF RowsInv
    <3> QED BY <2>5, <2>7, <3>1 DEF Times, RowDomain, Point
  <2>9. window.xMax = Undefined
    <3>0. PICK s \in ToSet(stackedData) : \E p \in ToSet(s) : p.x = Times.max BY <2>8
    <3>1. PICK p \in ToSet(s) : p.x = Times.max BY <3>0
    <3>2. PICK j \in 1 .. Len(stackedData) : stackedData[j] = s
      BY <2>4, <3>0 DEF SlicesInv, ToSet
    <3>3. PICK name \in ToSet(series) : Slices(s, data[name]) BY <2>4, <3>2 DEF SlicesInv
    <3>4. InWindow(p, window) BY <2>4, <3>1, <3>3 DEF Slices
    <3>5. window = Open \/ Within(window, Times) BY DEF WindowInv
    <3>6. Times.max \in Int
      <4>1. RowTime(currentIndex) \in Nat BY <2>5, RowTimeFacts
      <4> QED BY <4>1 DEF Times, RowDomain
    <3> QED BY <3>1, <3>4, <3>5, <3>6 DEF InWindow, Within, Open
  <2>10. InWindow(Point(RowTime(currentIndex')), window')
    <3>1. window.xMin = Undefined \/ (window.xMin \in Int /\ window.xMin <= Times.max)
      BY DEF WindowInv, Within, Open
    <3>2. Times.max <= Times'.max BY <2>2, TimesLater
    <3>3. Times.max = RowTime(currentIndex) /\ Times'.max = RowTime(currentIndex')
      BY DEF Times, RowDomain
    <3>4. RowTime(currentIndex) \in Nat /\ RowTime(currentIndex') \in Nat BY <2>5, RowTimeFacts
    <3>5. window.xMin = Undefined \/ window.xMin <= RowTime(currentIndex')
      BY <3>1, <3>2, <3>3, <3>4
    <3>6. \A x : Point(x).x = x BY DEF Point
    <3> QED BY <2>3, <2>9, <3>5, <3>6 DEF InWindow
  <2>11. PICK name \in ToSet(series') : Slices(stackedData[i], data[name])'
    BY <2>4 DEF SlicesInv
  <2>12. data'[name] = Rows(currentSize', currentIndex')
         /\ data'[series'[1]] = Rows(currentSize', currentIndex')
    BY <2>1, <2>2, <2>6 DEF RowsInv
  <2>13. /\ stackedData'[i] \in Seq(PointSet) /\ Ascending(stackedData'[i])
         /\ ToSet(stackedData'[i]) = {p \in ToSet(data'[name]) : InWindow(p, window')}
    BY <2>4, <2>11 DEF Slices
  <2>14. stackedData'[i] # <<>> /\ Last(stackedData'[i]) = Point(RowTime(currentIndex'))
    BY <2>5, <2>10, <2>12, <2>13, LastOfRows
  <2> QED BY <2>5, <2>7, <2>12, <2>14
<1> QED
  BY <1>1, LegendInvHolds, RowsInvHolds, WindowInvHolds, UnsmoothedInvHolds, SlicesInvHolds,
     PTL DEF Spec, NewestStaysVisible

-----------------------------------------------------------------------------
(* The nearest point.                                                      *)

\* One step of the walk at place i, with the results f of the others.
Walk(f, s, x, i) ==
  IF i \notin 1 .. Len(s) - 1 THEN 0
  ELSE IF s[i].x <= x /\ x < s[i + 1].x
       THEN IF x - s[i].x < s[i + 1].x - x THEN i ELSE i + 1
  ELSE IF s[i + 1].x <= x THEN f[i + 1] ELSE f[i - 1]

Far(p, x) == IF p.x < x THEN x - p.x ELSE p.x - x

\* No point of s is nearer to x than the k-th.
Nearest(s, x, k) == k \in 1 .. Len(s) /\ \A j \in 1 .. Len(s) : Far(s[k], x) <= Far(s[j], x)

\* The time x lies between the j-th point and the next one.
Between(s, x, j) == j \in 1 .. Len(s) - 1 /\ s[j].x <= x /\ x < s[j + 1].x

NearerOf(s, x, j) == IF x - s[j].x < s[j + 1].x - x THEN j ELSE j + 1

LEMMA TimesOfSeries ==
  ASSUME NEW s \in Seq(PointSet), Ascending(s)
  PROVE  /\ Len(s) \in Nat
         /\ \A i \in 1 .. Len(s) : s[i].x \in Int
         /\ \A i, j \in 1 .. Len(s) : i <= j => s[i].x <= s[j].x
<1>1. Len(s) \in Nat BY SetOfSeq
<1>2. \A i \in 1 .. Len(s) : s[i].x \in Int
  <2>1. \A i \in 1 .. Len(s) : s[i] \in PointSet BY ElementOfSeq
  <2> QED BY <2>1 DEF PointSet
<1>3. ASSUME NEW i \in 1 .. Len(s), NEW j \in 1 .. Len(s), i <= j PROVE s[i].x <= s[j].x
  <2>1. CASE i = j BY <1>2, <2>1
  <2>2. CASE i < j BY <2>2 DEF Ascending
  <2> QED BY <1>1, <1>3, <2>1, <2>2
<1> QED BY <1>1, <1>2, <1>3

LEMMA SomewhereBetween ==
  ASSUME NEW s \in Seq(PointSet), Ascending(s), Len(s) > 0, NEW x \in Int,
         s[1].x <= x, x < s[Len(s)].x
  PROVE  \E j : Between(s, x, j)
<1> DEFINE n == Len(s)
           P == {j \in 1 .. n : x < s[j].x}
           f == [j \in 1 .. n |-> j]
<1>1. n \in Nat /\ n \in 1 .. n /\ \A i \in 1 .. n : s[i].x \in Int BY TimesOfSeries
<1>2. P \in SUBSET (1 .. n) /\ n \in P BY <1>1
<1>3. \A k \in P : f[k] = k /\ f[k] \in Int BY <1>1
<1>4. \A k : k \in P <=> k \in 1 .. n /\ x < s[k].x OBVIOUS
<1> HIDE DEF P, f
<1>5. PICK k \in P : \A l \in P : f[k] <= f[l] BY <1>1, <1>2, <1>3, LeastPlace
<1>6. k \in 1 .. n /\ x < s[k].x /\ \A l \in P : k <= l BY <1>3, <1>4, <1>5
<1>7. k # 1 BY <1>1, <1>6
<1>8. k - 1 \in 1 .. n /\ k - 1 \in 1 .. n - 1 /\ (k - 1) + 1 = k /\ ~(k <= k - 1)
  BY <1>1, <1>6, <1>7
<1>9. k - 1 \notin P BY <1>6, <1>8
<1>10. s[k - 1].x <= x BY <1>1, <1>4, <1>8, <1>9
<1> QED BY <1>6, <1>8, <1>10 DEF Between

\* What lies on either side of x.
LEMMA BetweenFacts ==
  ASSUME NEW s \in Seq(PointSet), Ascending(s), NEW x \in Int, NEW j, Between(s, x, j)
  PROVE  /\ j \in Nat
         /\ \A i \in 1 .. Len(s) : i <= j => s[i].x <= s[j].x /\ s[i].x <= x
         /\ \A i \in 1 .. Len(s) : j + 1 <= i => s[j + 1].x <= s[i].x /\ x < s[i].x
         /\ Nearest(s, x, NearerOf(s, x, j))
<1> DEFINE n == Len(s)
           k == j + 1
<1>1. /\ n \in Nat /\ \A i \in 1 .. n : s[i].x \in Int
      /\ \A i, l \in 1 .. n : i <= l => s[i].x <= s[l].x
  BY TimesOfSeries
<1>2. j \in 1 .. n /\ k \in 1 .. n /\ s[j].x <= x /\ x < s[k].x /\ j \in Nat /\ k = j + 1
  BY <1>1 DEF Between
<1> HIDE DEF n, k
<1>3. \A i \in 1 .. n : i <= j => s[i].x <= s[j].x /\ s[i].x <= x BY <1>1, <1>2
<1>4. \A i \in 1 .. n : k <= i => s[k].x <= s[i].x /\ x < s[i].x BY <1>1, <1>2
<1> DEFINE c == NearerOf(s, x, j)
<1>5. c = IF x - s[j].x < s[k].x - x THEN j ELSE k BY <1>2 DEF NearerOf
<1> HIDE DEF c
<1>6. Far(s[j], x) = x - s[j].x /\ Far(s[k], x) = s[k].x - x
  BY <1>1, <1>2 DEF Far
<1>7. c \in 1 .. n /\ Far(s[c], x) <= x - s[j].x /\ Far(s[c], x) <= s[k].x - x /\ Far(s[c], x) \in Int
  BY <1>1, <1>2, <1>5, <1>6
<1>8. ASSUME NEW i \in 1 .. n PROVE Far(s[c], x) <= Far(s[i], x)
  <2>1. CASE i <= j
    <3>1. Far(s[i], x) = x - s[i].x BY <1>1, <1>3, <2>1 DEF Far
    <3> QED BY <1>1, <1>2, <1>3, <1>7, <2>1, <3>1
  <2>2. CASE k <= i
    <3>1. Far(s[i], x) = s[i].x - x BY <1>1, <1>4, <2>2 DEF Far
    <3> QED BY <1>1, <1>2, <1>4, <1>7, <2>2, <3>1
  <2> QED BY <1>1, <1>2, <2>1, <2>2
<1> QED BY <1>2, <1>3, <1>4, <1>7, <1>8 DEF Nearest, n, k, c

\* Where the walk goes from place i.
LEMMA WalkSteps ==
  ASSUME NEW s \in Seq(PointSet), Ascending(s), NEW x \in Int, NEW f, NEW i \in Int
  PROVE  /\ i \notin 1 .. Len(s) - 1 => Walk(f, s, x, i) = 0
         /\ i \in 1 .. Len(s) - 1 /\ x < s[1].x => Walk(f, s, x, i) = f[i - 1]
         /\ i \in 1 .. Len(s) - 1 /\ s[Len(s)].x <= x => Walk(f, s, x, i) = f[i + 1]
         /\ \A j : Between(s, x, j) /\ i \in 1 .. Len(s) - 1 =>
              /\ i = j => Walk(f, s, x, i) = NearerOf(s, x, j)
              /\ i < j => Walk(f, s, x, i) = f[i + 1]
              /\ j < i => Walk(f, s, x, i) = f[i - 1]
<1> DEFINE n == Len(s)
           next == i + 1
<1>1. /\ n \in Nat /\ \A k \in 1 .. n : s[k].x \in Int
      /\ \A k, l \in 1 .. n : k <= l => s[k].x <= s[l].x
  BY TimesOfSeries
<1>2. Walk(f, s, x, i) =
        IF i \notin 1 .. n - 1 THEN 0
        ELSE IF s[i].x <= x /\ x < s[next].x
             THEN IF x - s[i].x < s[next].x - x THEN i ELSE next
        ELSE IF s[next].x <= x THEN f[next] ELSE f[i - 1]
  BY DEF Walk
<1>3. i \in 1 .. n - 1 => /\ i \in 1 .. n /\ next \in 1 .. n /\ 1 \in 1 .. n /\ n \in 1 .. n
                          /\ 1 <= i /\ 1 <= next /\ next <= n
  BY <1>1
<1> HIDE DEF n, next
<1>4. ASSUME i \in 1 .. n - 1, x < s[1].x PROVE Walk(f, s, x, i) = f[i - 1]
  <2>1. x < s[i].x /\ x < s[next].x BY <1>1, <1>3, <1>4
  <2>2. ~(s[i].x <= x) /\ ~(s[next].x <= x) BY <1>1, <1>3, <1>4, <2>1
  <2> QED BY <1>2, <1>4, <2>2
<1>5. ASSUME i \in 1 .. n - 1, s[n].x <= x PROVE Walk(f, s, x, i) = f[next]
  <2>1. s[next].x <= x BY <1>1, <1>3, <1>5
  <2>2. ~(x < s[next].x) BY <1>1, <1>3, <1>5, <2>1
  <2> QED BY <1>2, <1>5, <2>1, <2>2
<1>6. ASSUME NEW j, Between(s, x, j), i \in 1 .. n - 1
      PROVE  /\ i = j => Walk(f, s, x, i) = NearerOf(s, x, j)
             /\ i < j => Walk(f, s, x, i) = f[next]
             /\ j < i => Walk(f, s, x, i) = f[i - 1]
  <2>1. /\ j \in Nat
        /\ \A k \in 1 .. n : k <= j => s[k].x <= x
        /\ \A k \in 1 .. n : j + 1 <= k => x < s[k].x
    BY <1>6, BetweenFacts DEF n
  <2>2. i = j => Walk(f, s, x, i) = NearerOf(s, x, j)
    BY <1>2, <1>6 DEF Between, NearerOf, next
  <2>3. ASSUME i < j PROVE Walk(f, s, x, i) = f[next]
    <3>1. next <= j BY <2>1, <2>3 DEF next
    <3>2. s[next].x <= x BY <1>3, <1>6, <2>1, <3>1
    <3>3. ~(x < s[next].x) BY <1>1, <1>3, <1>6, <3>2
    <3> QED BY <1>2, <1>6, <3>2, <3>3
  <2>4. ASSUME j < i PROVE Walk(f, s, x, i) = f[i - 1]
    <3>1. j + 1 <= i /\ j + 1 <= next BY <2>1, <2>4 DEF next
    <3>2. x < s[i].x /\ x < s[next].x BY <1>3, <1>6, <2>1, <3>1
    <3>3. ~(s[i].x <= x) /\ ~(s[next].x <= x) BY <1>1, <1>3, <1>6, <3>2
    <3> QED BY <1>2, <1>6, <3>3
  <2> QED BY <2>2, <2>3, <2>4
<1>7. i \notin 1 .. n - 1 => Walk(f, s, x, i) = 0 BY <1>2
<1> QED BY <1>4, <1>5, <1>6, <1>7 DEF n, next

\* Where it ends: at one of the two points around x, or at no point if there are none.
LEMMA WalkEnds ==
  ASSUME NEW s \in Seq(PointSet), Ascending(s), Len(s) > 0, NEW x \in Int,
         NEW f, \A i \in Int : f[i] = Walk(f, s, x, i), NEW i \in Int
  PROVE  /\ i \notin 1 .. Len(s) - 1 => f[i] = 0
         /\ x < s[1].x \/ s[Len(s)].x <= x => f[i] = 0
         /\ i \in 1 .. Len(s) - 1 /\ s[1].x <= x /\ x < s[Len(s)].x => Nearest(s, x, f[i])
<1> DEFINE n == Len(s)
<1>1. n \in Nat BY TimesOfSeries
<1>2. \A k \in Int :
        /\ k \notin 1 .. n - 1 => f[k] = 0
        /\ k \in 1 .. n - 1 /\ x < s[1].x => f[k] = f[k - 1]
        /\ k \in 1 .. n - 1 /\ s[n].x <= x => f[k] = f[k + 1]
        /\ \A j : Between(s, x, j) /\ k \in 1 .. n - 1 =>
             /\ k = j => f[k] = NearerOf(s, x, j)
             /\ k < j => f[k] = f[k + 1]
             /\ j < k => f[k] = f[k - 1]
  BY WalkSteps
<1> HIDE DEF n
<1>3. ASSUME x < s[1].x, i \in 1 .. n - 1 PROVE f[i] = 0
  <2> DEFINE I == {m \in Nat : m <= n - 1 => f[m] = 0}
  <2>1. 0 \in I
    <3>1. 0 \notin 1 .. n - 1 BY <1>1
    <3> QED BY <1>2, <3>1
  <2>2. ASSUME NEW m \in Nat, m \in I PROVE m + 1 \in I
    <3>1. ASSUME m + 1 <= n - 1 PROVE f[m + 1] = 0
      <4>1. m + 1 \in 1 .. n - 1 /\ m + 1 \in Int /\ m <= n - 1 /\ (m + 1) - 1 = m BY <1>1, <3>1
      <4> QED BY <1>2, <1>3, <2>2, <4>1
    <3> QED BY <3>1
  <2> HIDE DEF I
  <2>3. \A m \in Nat : m \in I BY <2>1, <2>2, SetInduction
  <2>4. i \in I /\ i <= n - 1 BY <1>1, <1>3, <2>3
  <2> QED BY <2>4 DEF I
<1>4. ASSUME s[n].x <= x, i \in 1 .. n - 1 PROVE f[i] = 0
  <2> DEFINE I == {m \in Nat : m <= n - 1 => f[n - m] = 0}
  <2>1. 0 \in I
    <3>1. n \notin 1 .. n - 1 /\ n \in Int /\ n - 0 = n BY <1>1
    <3> QED BY <1>2, <3>1
  <2>2. ASSUME NEW m \in Nat, m \in I PROVE m + 1 \in I
    <3>1. ASSUME m + 1 <= n - 1 PROVE f[n - (m + 1)] = 0
      <4> DEFINE k == n - (m + 1)
      <4>1. k \in 1 .. n - 1 /\ k \in Int /\ m <= n - 1 /\ k + 1 = n - m BY <1>1, <3>1
      <4> HIDE DEF k
      <4>2. f[k] = 0 BY <1>2, <1>4, <2>2, <4>1
      <4> QED BY <4>2 DEF k
    <3> QED BY <3>1
  <2> HIDE DEF I
  <2>3. \A m \in Nat : m \in I BY <2>1, <2>2, SetInduction
  <2>4. n - i \in I /\ n - i <= n - 1 /\ n - (n - i) = i
    <3>1. n - i \in Nat BY <1>1, <1>4
    <3> QED BY <1>1, <1>4, <2>3, <3>1
  <2> QED BY <2>4 DEF I
<1>5. ASSUME NEW j, Between(s, x, j), i \in 1 .. n - 1 PROVE f[i] = NearerOf(s, x, j)
  <2> DEFINE c == NearerOf(s, x, j)
  <2> HIDE DEF c
  <2>1. j \in 1 .. n - 1 /\ j \in Nat BY <1>5, BetweenFacts DEF Between, n
  <2>2. f[j] = c BY <1>2, <1>5, <2>1 DEF c
  <2>3. CASE i <= j
    <3> DEFINE I == {m \in Nat : m <= j - 1 => f[j - m] = c}
    <3>1. 0 \in I
      <4>1. j - 0 = j BY <2>1
      <4> QED BY <2>2, <4>1
    <3>2. ASSUME NEW m \in Nat, m \in I PROVE m + 1 \in I
      <4>1. ASSUME m + 1 <= j - 1 PROVE f[j - (m + 1)] = c
        <5> DEFINE k == j - (m + 1)
        <5>1. k \in 1 .. n - 1 /\ k \in Int /\ k < j /\ m <= j - 1 /\ k + 1 = j - m
          BY <1>1, <2>1, <4>1
        <5> HIDE DEF k
        <5>2. f[k] = c BY <1>2, <1>5, <3>2, <5>1
        <5> QED BY <5>2 DEF k
      <4> QED BY <4>1
    <3> HIDE DEF I
    <3>3. \A m \in Nat : m \in I BY <3>1, <3>2, SetInduction
    <3>4. j - i \in I /\ j - i <= j - 1 /\ j - (j - i) = i
      <4>1. j - i \in Nat BY <1>5, <2>1, <2>3
      <4> QED BY <1>5, <2>1, <3>3, <4>1
    <3> QED BY <3>4 DEF I, c
  <2>4. CASE j <= i
    <3> DEFINE I == {m \in Nat : j + m <= n - 1 => f[j + m] = c}
    <3>1. 0 \in I
      <4>1. j + 0 = j BY <2>1
      <4> QED BY <2>2, <4>1
    <3>2. ASSUME NEW m \in Nat, m \in I PROVE m + 1 \in I
      <4>1. ASSUME j + (m + 1) <= n - 1 PROVE f[j + (m + 1)] = c
        <5> DEFINE k == j + (m + 1)
        <5>1. k \in 1 .. n - 1 /\ k \in Int /\ j < k /\ j + m <= n - 1 /\ k - 1 = j + m
          BY <1>1, <2>1, <4>1
        <5> HIDE DEF k
        <5>2. f[k] = c BY <1>2, <1>5, <3>2, <5>1
        <5> QED BY <5>2 DEF k
      <4> QED BY <4>1
    <3> HIDE DEF I
    <3>3. \A m \in Nat : m \in I BY <3>1, <3>2, SetInduction
    <3>4. i - j \in I /\ j + (i - j) <= n - 1 /\ j + (i - j) = i
      <4>1. i - j \in Nat BY <1>5, <2>1, <2>4
      <4> QED BY <1>1, <1>5, <2>1, <3>3, <4>1
    <3> QED BY <3>4 DEF I, c
  <2> QED BY <2>1, <2>3, <2>4
<1>6. ASSUME i \in 1 .. n - 1, s[1].x <= x, x < s[n].x PROVE Nearest(s, x, f[i])
  <2>1. PICK j : Between(s, x, j) BY <1>6, SomewhereBetween DEF n
  <2>2. f[i] = NearerOf(s, x, j) BY <1>5, <1>6, <2>1
  <2> QED BY <2>1, <2>2, BetweenFacts
<1> QED BY <1>2, <1>3, <1>4, <1>6 DEF n

\* There is such a walk.
LEMMA WalkExists ==
  ASSUME NEW s \in Seq(PointSet), Ascending(s), Len(s) > 0, NEW x \in Int
  PROVE  \E f : f = [i \in Int |-> Walk(f, s, x, i)]
<1> DEFINE n == Len(s)
<1>1. n \in Nat /\ s[1].x \in Int /\ s[n].x \in Int
  <2>1. Len(s) \in Nat /\ \A i \in 1 .. Len(s) : s[i].x \in Int BY TimesOfSeries
  <2>2. 1 \in 1 .. n /\ n \in 1 .. n BY <2>1
  <2> QED BY <2>1, <2>2
<1>2. CASE x < s[1].x \/ s[n].x <= x
  <2> DEFINE f == [i \in Int |-> 0]
  <2>1. ASSUME NEW i \in Int PROVE Walk(f, s, x, i) = 0
    <3>1. f[i - 1] = 0 /\ f[i + 1] = 0 OBVIOUS
    <3> HIDE DEF f
    <3> QED BY <1>2, <3>1, WalkSteps
  <2>2. f = [i \in Int |-> Walk(f, s, x, i)] BY <2>1
  <2> QED BY <2>2
<1>3. CASE s[1].x <= x /\ x < s[n].x
  <2>1. PICK j : Between(s, x, j) BY <1>3, SomewhereBetween
  <2>2. j \in 1 .. n - 1 /\ j \in Nat BY <2>1, BetweenFacts DEF Between
  <2> DEFINE c == NearerOf(s, x, j)
  <2> HIDE DEF c
  <2> DEFINE f == [i \in Int |-> IF i \in 1 .. n - 1 THEN c ELSE 0]
  <2>3. ASSUME NEW i \in Int PROVE Walk(f, s, x, i) = f[i]
    <3>1. CASE i \notin 1 .. n - 1
      <4>1. f[i] = 0 BY <3>1
      <4> HIDE DEF f
      <4> QED BY <3>1, <4>1, WalkSteps
    <3>2. CASE i \in 1 .. n - 1
      <4>1. f[i] = c BY <3>2
      <4>2. i < j => i + 1 \in 1 .. n - 1 /\ i + 1 \in Int BY <1>1, <2>2, <3>2
      <4>3. j < i => i - 1 \in 1 .. n - 1 /\ i - 1 \in Int BY <1>1, <2>2, <3>2
      <4>4. (i < j => f[i + 1] = c) /\ (j < i => f[i - 1] = c) BY <4>2, <4>3
      <4> HIDE DEF f
      <4>5. /\ i = j => Walk(f, s, x, i) = c
            /\ i < j => Walk(f, s, x, i) = f[i + 1]
            /\ j < i => Walk(f, s, x, i) = f[i - 1]
        BY <2>1, <3>2, WalkSteps DEF c
      <4>6. i = j \/ i < j \/ j < i BY <2>2
      <4> QED BY <4>1, <4>4, <4>5, <4>6
    <3> QED BY <3>1, <3>2
  <2>4. f = [i \in Int |-> f[i]] OBVIOUS
  <2> HIDE DEF f
  <2>5. f = [i \in Int |-> Walk(f, s, x, i)] BY <2>3, <2>4
  <2> QED BY <2>5
<1> QED BY <1>1, <1>2, <1>3

\* Where the walk begins: unless all points are at one time, not to the right of a time
\* before them, and at the last but one or beyond for a time after them.
LEMMA ApproximateFacts ==
  ASSUME NEW s \in Seq(PointSet), Ascending(s), Len(s) > 0, NEW x \in Int
  PROVE  LET b == ApproximateIndex(s, x)
             n == Len(s)
         IN  /\ b \in Int /\ b # n
             /\ s[1].x = s[n].x => b = IF n = 1 THEN 0 ELSE 1
             /\ s[1].x # s[n].x => /\ n > 1
                                   /\ b < 1 => x < s[1].x
                                   /\ n < b => s[n].x <= x
                                   /\ x < s[1].x => b <= 1
                                   /\ s[n].x <= x => n - 1 <= b
<1> DEFINE b == ApproximateIndex(s, x)
           n == Len(s)
           first == s[1].x
           width == s[n].x - first
           steps == n - 1
           past == x - first
           q == (2 * past * steps + width) \div (2 * width)
           index == IF width = 0 THEN 1 ELSE 1 + q
<1>1. n \in Nat /\ n > 0 /\ first \in Int /\ s[n].x \in Int /\ first <= s[n].x
  <2>1. /\ n \in Nat /\ \A i \in 1 .. n : s[i].x \in Int
        /\ \A i, j \in 1 .. n : i <= j => s[i].x <= s[j].x
    BY TimesOfSeries
  <2>2. 1 \in 1 .. n /\ n \in 1 .. n /\ 1 <= n BY <2>1
  <2> QED BY <2>1, <2>2
<1>2. Last(s) = s[n] BY DEF Last
<1>3. b = IF index = n THEN index - 1 ELSE index BY <1>2 DEF ApproximateIndex
<1> HIDE DEF b
<1>4. width \in Nat /\ past \in Int /\ steps \in Nat /\ n = steps + 1
      /\ (width = 0 <=> first = s[n].x)
      /\ (x < first <=> past < 0) /\ (s[n].x <= x <=> width <= past)
  BY <1>1
<1> HIDE DEF width, steps, past
<1>5. CASE width = 0
  <2>1. index = 1 BY <1>5
  <2> QED BY <1>1, <1>3, <1>4, <1>5, <2>1 DEF b
<1>6. CASE width # 0
  <2> HIDE DEF q
  <2>0. n > 1
    <3>1. n # 1 BY <1>1, <1>4, <1>6
    <3>2. n \in Nat /\ n > 0 BY <1>1
    <3> HIDE DEF n
    <3> QED BY <3>1, <3>2
  <2>1. 2 * past * steps + width \in Int /\ 2 * width \in Nat /\ 2 * width > 0 BY <1>4, <1>6
  <2>2. q \in Int /\ 2 * width * q <= 2 * past * steps + width BY <2>1, DivFacts DEF q
  <2>3. 2 * past * steps + width < 2 * width * q + 2 * width BY <2>1, DivFacts DEF q
  <2>4. steps > 0 BY <1>4, <2>0
  <2>5. past < 0 => q <= 0
    <3>1. past < 0 => 2 * past * steps + width < 2 * width * 1
      <4>1. past < 0 => past * steps < 0 BY <1>4, <2>4
      <4>2. past * steps \in Int /\ 2 * past * steps = 2 * (past * steps) BY <1>4
      <4> QED BY <1>4, <1>6, <4>1, <4>2
    <3>2. past < 0 => q < 1 BY <2>1, <3>1, DivBelow DEF q
    <3> QED BY <2>2, <3>2
  <2>6. past >= 0 => q >= 0
    <3>1. past >= 0 => 2 * width * 0 <= 2 * past * steps + width
      <4>1. past >= 0 => past * steps >= 0 BY <1>4
      <4>2. past * steps \in Int /\ 2 * past * steps = 2 * (past * steps) BY <1>4
      <4> QED BY <1>4, <4>1, <4>2
    <3> QED BY <2>1, <3>1, DivAtLeast DEF q
  <2>7. width <= past => steps <= q
    <3>1. width <= past => 2 * width * steps <= 2 * past * steps + width
      <4>1. width <= past => width * steps <= past * steps BY <1>4
      <4>2. /\ past * steps \in Int /\ 2 * past * steps = 2 * (past * steps)
            /\ width * steps \in Int /\ 2 * width * steps = 2 * (width * steps)
        BY <1>4
      <4> QED BY <1>4, <4>1, <4>2
    <3> QED BY <1>4, <2>1, <3>1, DivAtLeast DEF q
  <2>8. past < width => q <= steps
    <3>1. past < width => 2 * past * steps + width < 2 * width * (steps + 1)
      <4>1. past < width => past * steps <= width * steps BY <1>4
      <4>2. /\ past * steps \in Int /\ 2 * past * steps = 2 * (past * steps)
            /\ width * steps \in Int /\ 2 * width * (steps + 1) = 2 * (width * steps) + 2 * width
        BY <1>4
      <4> QED BY <1>4, <1>6, <4>1, <4>2
    <3>2. past < width => q < steps + 1 BY <1>4, <2>1, <3>1, DivBelow DEF q
    <3> QED BY <1>4, <2>2, <3>2
  <2>9. index = 1 + q BY <1>6
  <2> HIDE DEF index
  <2>10. b = IF q = steps THEN q ELSE 1 + q
    <3>1. index = n <=> q = steps BY <1>4, <2>2, <2>9
    <3> QED BY <1>3, <2>2, <2>9, <3>1
  <2>11. b \in Int /\ b # n BY <1>4, <2>2, <2>10
  <2>12. b < 1 => x < first
    <3>1. b < 1 => q < 0 BY <1>4, <2>2, <2>4, <2>10
    <3> QED BY <1>4, <2>2, <2>6, <3>1
  <2>13. n < b => s[n].x <= x
    <3>1. n < b => q > steps BY <1>4, <2>2, <2>10
    <3> QED BY <1>4, <2>2, <2>8, <3>1
  <2>14. x < first => b <= 1
    <3>1. x < first => q <= 0 BY <1>4, <2>5
    <3> QED BY <1>4, <2>2, <2>10, <3>1
  <2>15. s[n].x <= x => n - 1 <= b
    <3>1. s[n].x <= x => steps <= q BY <1>4, <2>7
    <3> QED BY <1>4, <2>2, <2>10, <3>1
  <2> QED BY <1>4, <1>6, <2>0, <2>11, <2>12, <2>13, <2>14, <2>15 DEF b
<1> QED BY <1>5, <1>6

\* The point that is shown: the nearest, or the last but one for a time after them all.
LEMMA NearestFacts ==
  ASSUME NEW s \in Seq(PointSet), Ascending(s), Len(s) > 0, NEW x \in Int
  PROVE  LET k == NearestIndex(s, x)
         IN  /\ k \in 1 .. Len(s)
             /\ \/ Nearest(s, x, k)
                \/ s[Len(s)].x <= x /\ Len(s) > 1 /\ k = Len(s) - 1
<1> DEFINE n == Len(s)
           b == ApproximateIndex(s, x)
           found == CHOOSE f : f = [i \in Int |-> Walk(f, s, x, i)]
           index == IF found[b] # 0 THEN found[b] ELSE Min({b, n})
           k == NearestIndex(s, x)
<1>1. found = [i \in Int |-> Walk(found, s, x, i)]
  <2>1. \E f : f = [i \in Int |-> Walk(f, s, x, i)] BY WalkExists
  <2> QED BY <2>1
<1>2. k = Max({index, 1}) BY DEF NearestIndex, Walk
<1> HIDE DEF found, b, k
<1>3. /\ n \in Nat /\ n > 0 /\ 1 \in 1 .. n /\ n \in 1 .. n
      /\ \A i \in 1 .. n : s[i].x \in Int
      /\ \A i, j \in 1 .. n : i <= j => s[i].x <= s[j].x
  <2>1. /\ n \in Nat /\ \A i \in 1 .. n : s[i].x \in Int
        /\ \A i, j \in 1 .. n : i <= j => s[i].x <= s[j].x
    BY TimesOfSeries
  <2> QED BY <2>1
<1>4. /\ b \in Int /\ b # n
      /\ s[1].x = s[n].x => b = IF n = 1 THEN 0 ELSE 1
      /\ s[1].x # s[n].x => /\ n > 1
                            /\ b < 1 => x < s[1].x
                            /\ n < b => s[n].x <= x
                            /\ x < s[1].x => b <= 1
                            /\ s[n].x <= x => n - 1 <= b
  BY ApproximateFacts DEF b
<1>5. /\ b \notin 1 .. n - 1 => found[b] = 0
      /\ x < s[1].x \/ s[n].x <= x => found[b] = 0
      /\ b \in 1 .. n - 1 /\ s[1].x <= x /\ x < s[n].x => Nearest(s, x, found[b])
  <2>1. \A i \in Int : found[i] = Walk(found, s, x, i) BY <1>1
  <2> QED BY <1>4, <2>1, WalkEnds
<1> HIDE DEF n
<1>6. CASE found[b] # 0
  <2>1. Nearest(s, x, found[b]) BY <1>3, <1>4, <1>5, <1>6
  <2>2. found[b] \in 1 .. n BY <2>1 DEF Nearest, n
  <2>3. k = found[b]
    <3>1. index = found[b] BY <1>6
    <3>2. found[b] \in Int /\ found[b] >= 1 BY <1>3, <2>2
    <3> HIDE DEF index
    <3> QED BY <1>2, <3>1, <3>2, OfTwo
  <2> QED BY <2>1, <2>2, <2>3 DEF k, n
<1>7. CASE found[b] = 0
  <2>1. index = IF b <= n THEN b ELSE n
    <3>1. index = Min({b, n}) BY <1>7
    <3>2. b \in Int /\ n \in Int BY <1>3, <1>4
    <3> HIDE DEF index
    <3> QED BY <3>1, <3>2, OfTwo
  <2>2. index \in Int BY <1>3, <1>4, <2>1
  <2> HIDE DEF index
  <2>3. k = IF index >= 1 THEN index ELSE 1 BY <1>2, <2>2, OfTwo
  <2>4. /\ b < 1 => k = 1
        /\ n < b => k = n
        /\ b \in 1 .. n - 1 => k = b
        /\ b < 1 \/ n < b \/ b \in 1 .. n - 1
    BY <1>3, <1>4, <2>1, <2>3
  <2>5. k \in 1 .. n BY <1>3, <2>4
  <2>6. ASSUME s[1].x = s[n].x PROVE Nearest(s, x, k)
    <3>1. \A j \in 1 .. n : s[j].x = s[1].x
      <4> TAKE j \in 1 .. n
      <4>1. 1 <= j /\ j <= n BY <1>3
      <4>2. s[1].x <= s[j].x /\ s[j].x <= s[n].x BY <1>3, <4>1
      <4> QED BY <1>3, <2>6, <4>2
    <3>2. \A j \in 1 .. n : Far(s[j], x) = Far(s[1], x) BY <3>1 DEF Far
    <3>3. Far(s[1], x) \in Int BY <1>3 DEF Far
    <3>4. Far(s[k], x) = Far(s[1], x) BY <2>5, <3>2
    <3> QED BY <2>5, <3>2, <3>3, <3>4 DEF Nearest, n
  <2>7. ASSUME x < s[1].x, k = 1 PROVE Nearest(s, x, k)
    <3>1. ASSUME NEW j \in 1 .. n PROVE Far(s[1], x) <= Far(s[j], x)
      <4>1. 1 <= j BY <1>3
      <4>2. s[1].x <= s[j].x /\ s[1].x \in Int /\ s[j].x \in Int BY <1>3, <4>1
      <4> QED BY <2>7, <4>2 DEF Far
    <3> QED BY <1>3, <2>7, <3>1 DEF Nearest, n
  <2>8. ASSUME s[n].x <= x, k = n PROVE Nearest(s, x, k)
    <3>1. ASSUME NEW j \in 1 .. n PROVE Far(s[n], x) <= Far(s[j], x)
      <4>1. j <= n BY <1>3
      <4>2. s[j].x <= s[n].x /\ s[n].x \in Int /\ s[j].x \in Int BY <1>3, <4>1
      <4> QED BY <2>8, <4>2 DEF Far
    <3> QED BY <1>3, <2>8, <3>1 DEF Nearest, n
  <2>9. ASSUME s[1].x # s[n].x
        PROVE  Nearest(s, x, k) \/ (s[n].x <= x /\ n > 1 /\ k = n - 1)
    <3>1. CASE b < 1 BY <1>4, <2>4, <2>7, <2>9, <3>1
    <3>2. CASE n < b BY <1>4, <2>4, <2>8, <2>9, <3>2
    <3>3. CASE b \in 1 .. n - 1
      <4>1. k = b BY <2>4, <3>3
      <4>2. CASE x < s[1].x
        <5>1. b <= 1 /\ 1 <= b BY <1>3, <1>4, <2>9, <3>3, <4>2
        <5>2. k = 1 BY <1>4, <4>1, <5>1
        <5> QED BY <2>7, <4>2, <5>2
      <4>3. CASE s[n].x <= x
        <5>1. n - 1 <= b /\ b <= n - 1 BY <1>3, <1>4, <2>9, <3>3, <4>3
        <5>2. k = n - 1 BY <1>3, <1>4, <4>1, <5>1
        <5> QED BY <1>4, <2>9, <4>3, <5>2
      <4>4. CASE s[1].x <= x /\ x < s[n].x
        <5>1. Nearest(s, x, found[b]) BY <1>5, <3>3, <4>4
        <5>2. 0 \in 1 .. n BY <1>7, <5>1 DEF Nearest, n
        <5> QED BY <1>3, <5>2
      <4> QED BY <1>3, <4>2, <4>3, <4>4
    <3> QED BY <2>4, <3>1, <3>2, <3>3
  <2> QED BY <2>5, <2>6, <2>9 DEF k, n
<1> QED BY <1>6, <1>7

LEMMA DomainFacts ==
  ASSUME NEW slices, NEW m \in Nat, DOMAIN slices = 1 .. m,
         \A i \in 1 .. m : slices[i] \in Seq(PointSet), NonEmpty(slices) # {}
  PROVE  Domain(slices).min \in Int /\ Domain(slices).max \in Int
<1> DEFINE P == NonEmpty(slices)
           f == [i \in 1 .. m |-> slices[i][1].x]
           g == [i \in 1 .. m |-> -Last(slices[i]).x]
           firsts == {slices[i][1].x : i \in P}
           lasts == {Last(slices[i]).x : i \in P}
<1>1. P \in SUBSET (1 .. m) /\ P # {} BY DEF NonEmpty
<1>2. ASSUME NEW i \in P PROVE slices[i][1].x \in Int /\ Last(slices[i]).x \in Int
  <2> DEFINE s == slices[i]
  <2>1. s \in Seq(PointSet) /\ s # <<>> BY <1>1 DEF NonEmpty
  <2> HIDE DEF s
  <2>2. 1 \in 1 .. Len(s) /\ Len(s) \in 1 .. Len(s) BY <2>1, SetOfSeq
  <2>3. s[1] \in PointSet /\ s[Len(s)] \in PointSet BY <2>1, <2>2, ElementOfSeq
  <2> QED BY <2>3 DEF PointSet, Last, s
<1> HIDE DEF P
<1>3. \A i \in P : f[i] = slices[i][1].x /\ g[i] = -Last(slices[i]).x BY <1>1
<1> HIDE DEF f, g
<1>4. (\A i \in P : f[i] \in Int) /\ (\A i \in P : g[i] \in Int) BY <1>2, <1>3
<1>5. PICK k \in P : \A l \in P : f[k] <= f[l] BY <1>1, <1>4, LeastPlace
<1>6. PICK j \in P : \A l \in P : g[j] <= g[l] BY <1>1, <1>4, LeastPlace
<1>7. slices[k][1].x \in firsts /\ \A y \in firsts : slices[k][1].x <= y BY <1>3, <1>5
<1>8. Last(slices[j]).x \in lasts /\ \A y \in lasts : Last(slices[j]).x >= y
  <2>1. \A l \in P : Last(slices[j]).x >= Last(slices[l]).x BY <1>2, <1>3, <1>6
  <2> QED BY <2>1
<1>9. (\A y \in firsts : y \in Int) /\ (\A y \in lasts : y \in Int) BY <1>2
<1> HIDE DEF firsts, lasts
<1>10. Min(firsts) \in Int BY <1>7, <1>9 DEF Min
<1>11. Max(lasts) \in Int BY <1>8, <1>9 DEF Max
<1> DEFINE first == Min(firsts)
           last == Max(lasts)
           left == first - ((last - first) * PadLeft) \div 100
           right == last + ((last - left) * PadRight) \div 100
<1>12. Domain(slices) = [min |-> left, max |-> right] BY DEF Domain, P, firsts, lasts
<1>13. first \in Int /\ last \in Int BY <1>10, <1>11
<1> HIDE DEF first, last
<1>14. left \in Int
  <2>1. (last - first) * PadLeft \in Int BY <1>13, DataConstants
  <2>2. ((last - first) * PadLeft) \div 100 \in Int BY <2>1, DivFacts
  <2> QED BY <1>13, <2>2
<1> HIDE DEF left
<1>15. right \in Int
  <2>1. (last - left) * PadRight \in Int BY <1>13, <1>14, DataConstants
  <2>2. ((last - left) * PadRight) \div 100 \in Int BY <2>1, DivFacts
  <2> QED BY <1>13, <2>2
<1> QED BY <1>12, <1>14, <1>15

\* What is shown is about a series and a point of its slice, the nearest one.
ShownNear(shown, event, names, slices) ==
  \E i \in NonEmpty(slices) :
    LET x == Invert(event.x, slices)
    IN  /\ names[i] = shown.series
        /\ shown.point \in ToSet(slices[i])
        /\ \/ \A point \in ToSet(slices[i]) : Far(shown.point, x) <= Far(point, x)
           \/ /\ Last(slices[i]).x <= x /\ Len(slices[i]) > 1
              /\ shown.point = slices[i][Len(slices[i]) - 1]

LEMMA CandidateFacts ==
  ASSUME NEW names, NEW slices, NEW m \in Nat, DOMAIN slices = 1 .. m,
         \A i \in 1 .. m : slices[i] \in Seq(PointSet) /\ Ascending(slices[i]),
         NEW event, event.x \in Int, NEW shown \in Candidates(event, names, slices)
  PROVE  ShownNear(shown, event, names, slices)
<1> DEFINE x == Invert(event.x, slices)
<1>1. PICK i \in NonEmpty(slices) :
        shown = [series |-> names[i], point |-> slices[i][NearestIndex(slices[i], x)]]
  BY DEF Candidates
<1> DEFINE s == slices[i]
           k == NearestIndex(s, x)
<1>2. x \in Int
  <2> DEFINE d == Domain(slices)
  <2>1. d.min \in Int /\ d.max \in Int BY <1>1, DomainFacts
  <2> HIDE DEF d
  <2>2. event.x * (d.max - d.min) \in Int BY <2>1
  <2>3. (event.x * (d.max - d.min)) \div GraphWidth \in Int BY <2>2, HoverConstants, DivFacts
  <2> QED BY <2>1, <2>3 DEF Invert, d
<1> HIDE DEF x
<1>3. s \in Seq(PointSet) /\ Ascending(s) /\ s # <<>> BY <1>1 DEF NonEmpty
<1>4. shown.series = names[i] /\ shown.point = s[k] BY <1>1
<1> HIDE DEF s, k
<1>5. Len(s) > 0 BY <1>3, SetOfSeq
<1>6. /\ k \in 1 .. Len(s)
      /\ Nearest(s, x, k) \/ (s[Len(s)].x <= x /\ Len(s) > 1 /\ k = Len(s) - 1)
  BY <1>2, <1>3, <1>5, NearestFacts DEF k
<1>7. s[k] \in ToSet(s) BY <1>3, <1>6, SetOfSeq
<1>8. ASSUME Nearest(s, x, k), NEW point \in ToSet(s) PROVE Far(s[k], x) <= Far(point, x)
  <2>1. PICK j \in 1 .. Len(s) : s[j] = point BY <1>3, <1>8, SetOfSeq
  <2> QED BY <1>8, <2>1 DEF Nearest
<1>9. Last(s) = s[Len(s)] BY DEF Last
<1> QED BY <1>1, <1>4, <1>6, <1>7, <1>8, <1>9 DEF ShownNear, s, x

\* What a step does to the detail.
LEMMA StepsOfHover ==
  ASSUME [Next]_vars
  PROVE  \/ UNCHANGED <<graphVars, hoverVars>>
         \/ /\ Built /\ Has("hover") /\ UNCHANGED graphVars
            /\ \E x \in PointerX, graphic \in BOOLEAN : MouseMove(x, graphic)
         \/ Has("hover") /\ Hide /\ UNCHANGED graphVars
         \/ Render /\ IF Has("hover") /\ ~failed' THEN HoverUpdated ELSE UNCHANGED hoverVars
         \/ ~Built /\ ConstructAgain /\ UNCHANGED hoverVars
<1> DEFINE Drawn == Render /\ IF Has("hover") /\ ~failed' THEN HoverUpdated ELSE UNCHANGED hoverVars
<1>1. ASSUME NEW row, Row(row) PROVE Drawn BY <1>1 DEF Row, Updated
<1>2. ASSUME NEW reply, NEW colors, Reply(reply, colors)
      PROVE  Drawn \/ (~Built /\ ConstructAgain /\ UNCHANGED hoverVars)
  BY <1>2 DEF Reply, Updated
<1>3. ASSUME NEW name,
             Anchor(name) \/ Label(name) \/ Enter(name) \/ Leave(name) \/ \E place : Drop(name, place)
      PROVE  Drawn
  BY <1>3 DEF Anchor, Label, Enter, Leave, Drop, Clicked, Updated
<1>4. ASSUME NEW x, NEW graphic, Move(x, graphic)
      PROVE  Built /\ Has("hover") /\ UNCHANGED graphVars /\ MouseMove(x, graphic)
  BY <1>4 DEF Move
<1>5. ASSUME Out PROVE Has("hover") /\ Hide /\ UNCHANGED graphVars BY <1>5 DEF Out
<1>6. ASSUME NEW side, Press(side) PROVE UNCHANGED <<graphVars, hoverVars>>
  BY <1>6 DEF Press, MouseDown
<1>7. ASSUME NEW distance, Drag(distance) PROVE Drawn BY <1>7 DEF Drag, Pan
<1>8. ASSUME Release PROVE UNCHANGED <<graphVars, hoverVars>> BY <1>8 DEF Release, MouseUp
<1>9. ASSUME NEW width, Configure(width) PROVE UNCHANGED <<graphVars, hoverVars>>
  BY <1>9 DEF Configure, Resize
<1>10. ASSUME NEW low, NEW high, SlideHandles(low, high) PROVE Drawn
  BY <1>10 DEF SlideHandles, Pan
<1>11. ASSUME NEW value, JoinHandles(value) PROVE UNCHANGED <<graphVars, hoverVars>>
  BY <1>11 DEF JoinHandles, Meet
<1>12. ASSUME NEW scale, Smoothen(scale) PROVE Drawn BY <1>12 DEF Smoothen, Updated
<1>13. ASSUME UNCHANGED vars PROVE UNCHANGED <<graphVars, hoverVars>> BY <1>13 DEF vars
<1> HIDE DEF Drawn
<1>14. \/ UNCHANGED <<graphVars, hoverVars>>
       \/ /\ Built /\ Has("hover") /\ UNCHANGED graphVars
          /\ \E x \in PointerX, graphic \in BOOLEAN : MouseMove(x, graphic)
       \/ Has("hover") /\ Hide /\ UNCHANGED graphVars
       \/ Drawn
       \/ ~Built /\ ConstructAgain /\ UNCHANGED hoverVars
  BY <1>1, <1>2, <1>3, <1>4, <1>5, <1>6, <1>7, <1>8, <1>9, <1>10, <1>11, <1>12, <1>13 DEF Next
<1> QED BY <1>14 DEF Drawn

\* A detail is shown by a graph that has been drawn, and is about it.
HoverInv ==
  /\ detail # Undefined => Has("hover") /\ Built
  /\ lastEvent = Undefined => detail = Undefined
  /\ lastEvent # Undefined => lastEvent.x \in Int
  /\ detail # Undefined /\ ~failed /\ lastEvent.graphic /\ NonEmpty(stackedData) # {} =>
       ShownNear(detail, lastEvent, Active(series, disabled), stackedData)

\* What update leaves shown is near the pointer in what has just been drawn.
LEMMA LookFacts ==
  ASSUME SlicesInv', NEW event, event # Undefined, event.x \in Int, Look(event),
         ~failed', event.graphic, NonEmpty(stackedData') # {}, detail' # Undefined
  PROVE  ShownNear(detail', event, Active(series', disabled'), stackedData')
<1> DEFINE slices == stackedData'
           names == Active(series', disabled')
           m == Len(slices)
<1>1. /\ m \in Nat /\ DOMAIN slices = 1 .. m
      /\ \A i \in 1 .. m : slices[i] \in Seq(PointSet) /\ Ascending(slices[i])
  BY DEF SlicesInv, Slices
<1>2. NonEmpty(slices) # {} OBVIOUS
<1>3. /\ Candidates(event, names, slices) # {}
      => \E nearest \in Candidates(event, names, slices) : detail' = nearest
  BY DEF Look
<1> HIDE DEF slices, names
<1>4. Candidates(event, names, slices) # {} BY <1>2 DEF Candidates
<1>5. PICK nearest \in Candidates(event, names, slices) : detail' = nearest BY <1>3, <1>4
<1>6. ShownNear(nearest, event, names, slices) BY <1>1, CandidateFacts
<1> QED BY <1>5, <1>6 DEF slices, names

LEMMA HoverInvHolds == Spec => []HoverInv
<1>1. Init => HoverInv
  <2> SUFFICES ASSUME Init PROVE HoverInv
    OBVIOUS
  <2>1. detail = Undefined /\ lastEvent = Undefined BY DEF Init, HoverInit
  <2> QED BY <2>1 DEF HoverInv
<1>2. HoverInv /\ LegendInv' /\ ScreenInv' /\ SlicesInv' /\ [Next]_vars => HoverInv'
  <2> SUFFICES ASSUME HoverInv, LegendInv', ScreenInv', SlicesInv', [Next]_vars PROVE HoverInv'
    OBVIOUS
  <2>1. kit' = kit BY StepsOfLegend
  <2>2. CASE UNCHANGED <<graphVars, hoverVars>>
    BY <2>1, <2>2 DEF HoverInv, graphVars, hoverVars, Has, Built
  <2>3. CASE /\ Built /\ Has("hover") /\ UNCHANGED graphVars
             /\ \E x \in PointerX, graphic \in BOOLEAN : MouseMove(x, graphic)
    <3>1. PICK x \in PointerX, graphic \in BOOLEAN : MouseMove(x, graphic) BY <2>3
    <3>2. lastEvent' = [x |-> x, graphic |-> graphic] /\ Look(lastEvent') BY <3>1 DEF MouseMove
    <3>3. lastEvent' # Undefined /\ lastEvent'.x \in Int
      <4>1. lastEvent' \in [x : PointerX, graphic : BOOLEAN] BY <3>2
      <4>2. x \in Int BY HoverConstants
      <4> QED BY <3>2, <4>1, <4>2, HoverConstants
    <3>4. Built' /\ Has("hover")' BY <2>1, <2>3 DEF Built, Has, graphVars
    <3>5. detail' # Undefined /\ ~failed' /\ lastEvent'.graphic /\ NonEmpty(stackedData') # {} =>
            ShownNear(detail', lastEvent', Active(series', disabled'), stackedData')
      BY <3>2, <3>3, LookFacts
    <3> QED BY <3>3, <3>4, <3>5 DEF HoverInv
  <2>4. CASE Has("hover") /\ Hide /\ UNCHANGED graphVars
    BY <2>4 DEF HoverInv, Hide
  <2>5. CASE Render /\ IF Has("hover") /\ ~failed' THEN HoverUpdated ELSE UNCHANGED hoverVars
    <3>1. lastEvent' = lastEvent BY <2>5 DEF HoverUpdated, hoverVars
    <3>2. ASSUME ~(Has("hover") /\ ~failed') PROVE HoverInv'
      <4>1. detail' = detail BY <2>5, <3>2 DEF hoverVars
      <4>2. failed' => stackedData' = stackedData BY <2>5 DEF Render
      <4>3. detail' # Undefined => failed' /\ Has("hover")' /\ Built'
        BY <2>1, <3>2, <4>1, <4>2 DEF HoverInv, Has, Built
      <4> QED BY <3>1, <4>1, <4>3 DEF HoverInv
    <3>3. ASSUME Has("hover"), ~failed' PROVE HoverInv'
      <4>1. Look(lastEvent) BY <2>5, <3>3 DEF HoverUpdated
      <4>2. Built'
        <5>1. stackedData' = StackData(series', disabled', data', window', aggregation')
          BY <3>3 DEF ScreenInv
        <5>2. series' \in Seq(Name) /\ ToSet(series') \ disabled' # {} BY DEF LegendInv
        <5>3. Active(series', disabled') # <<>> BY <5>2, ActiveNonEmpty
        <5> QED BY <5>1, <5>2, <5>3, StackDataFacts DEF Built
      <4>3. lastEvent = Undefined => detail' = Undefined BY <4>1 DEF Look, HoverInv
      <4>4. lastEvent # Undefined => lastEvent.x \in Int BY DEF HoverInv
      <4>5. detail' # Undefined /\ lastEvent.graphic /\ NonEmpty(stackedData') # {} =>
              ShownNear(detail', lastEvent, Active(series', disabled'), stackedData')
        BY <3>3, <4>1, <4>3, <4>4, LookFacts
      <4> QED BY <2>1, <3>1, <3>3, <4>2, <4>3, <4>4, <4>5 DEF HoverInv, Has
    <3> QED BY <3>2, <3>3
  <2>6. CASE ~Built /\ ConstructAgain /\ UNCHANGED hoverVars
    <3>1. detail' = Undefined /\ lastEvent' = lastEvent BY <2>6 DEF HoverInv, hoverVars
    <3> QED BY <3>1 DEF HoverInv
  <2> QED BY <2>2, <2>3, <2>4, <2>5, <2>6, StepsOfHover
<1> QED BY <1>1, <1>2, LegendInvHolds, ScreenInvHolds, SlicesInvHolds, PTL DEF Spec

\* Whatever rows, replies, clicks and drags came since the pointer moved, the detail is about
\* a series that is on and a point of it that is on the screen, the nearest one.
THEOREM DetailIsUpToDate == Spec => []DetailIsNearest
<1>1. HoverInv => DetailIsNearest BY DEF HoverInv, DetailIsNearest, ShownNear, Far
<1> QED BY <1>1, HoverInvHolds, PTL

-----------------------------------------------------------------------------
(* The labels of the time axis.                                            *)

\* Some interval of times holds the starts of a unit that are looked for.
Starts(first, last, unit) == {s \in first .. last : IsStart(s, unit)}

Half(unit) == unit.seconds \div 2

IsUnit(unit) ==
  /\ unit.seconds \in Nat \ {0} /\ unit.seconds % 2 = 0 /\ unit.cycle \in Nat \ {0}
  /\ unit.starts \subseteq 0 .. unit.cycle - 1 /\ unit.leap \subseteq unit.starts
  /\ IF unit.name \in {"day", "month", "year"}
     THEN \A t \in 0 .. unit.cycle - 1 :
            /\ Starts(t + 1, t + (3 * unit.seconds) \div 2 - 1, unit) # {}
            /\ t \in unit.starts => Starts(t + 1, t + (3 * unit.seconds) \div 4, unit) = {}
     ELSE unit.cycle = unit.seconds /\ unit.starts = {0} /\ unit.leap = {}

LEMMA UnitsFacts == \A i \in DOMAIN Units : IsUnit(Units[i])
<1> SUFFICES ASSUME NEW i \in DOMAIN Units PROVE IsUnit(Units[i])
  OBVIOUS
<1> DEFINE u == Units[i]
<1>1. /\ u.seconds \in Nat \ {0} /\ u.seconds % 2 = 0 /\ u.cycle \in Nat \ {0}
      /\ u.starts \subseteq 0 .. u.cycle - 1 /\ u.leap \subseteq u.starts
  BY DataConstants
<1>2. ASSUME u.name \in {"day", "month", "year"}, NEW t \in 0 .. u.cycle - 1
      PROVE  /\ {s \in t + 1 .. t + (3 * u.seconds) \div 2 - 1 : s % u.cycle \in u.starts} # {}
             /\ t \in u.starts =>
                  {s \in t + 1 .. t + (3 * u.seconds) \div 4 : s % u.cycle \in u.starts} = {}
  BY <1>2, DataConstants
<1>3. u.name \notin {"day", "month", "year"} =>
        u.cycle = u.seconds /\ u.starts = {0} /\ u.leap = {}
  BY DataConstants
<1> HIDE DEF u
<1>4. IsUnit(u) BY <1>1, <1>2, <1>3 DEF IsUnit, Starts, IsStart
<1> QED BY <1>4 DEF u

LEMMA ModFacts ==
  ASSUME NEW x \in Int, NEW c \in Nat, c > 0
  PROVE  /\ x % c \in 0 .. c - 1 /\ x \div c \in Int
         /\ x = c * (x \div c) + (x % c)
<1>1. x % c \in 0 .. c - 1 OBVIOUS
<1>2. x \div c \in Int OBVIOUS
<1>3. x = c * (x \div c) + (x % c) OBVIOUS
<1> QED BY <1>1, <1>2, <1>3

LEMMA OnlyZero ==
  ASSUME NEW c \in Nat, c > 0, NEW k \in Int, c * k < c, -c < c * k
  PROVE  k = 0
<1>1. k < 1
  <2> SUFFICES ASSUME k >= 1 PROVE FALSE OBVIOUS
  <2>1. c * k >= c * 1 OBVIOUS
  <2> QED BY <2>1
<1>2. k > -1
  <2> SUFFICES ASSUME k <= -1 PROVE FALSE OBVIOUS
  <2>1. c * k <= c * (-1) OBVIOUS
  <2> QED BY <2>1
<1> QED BY <1>1, <1>2

\* The remainder does not depend on whole cycles.
LEMMA ModShift ==
  ASSUME NEW x \in Int, NEW c \in Nat, c > 0, NEW q \in Int
  PROVE  (c * q + x) % c = x % c
<1> DEFINE y == c * q + x
           a == x \div c
           b == y \div c
           r == x % c
           s == y % c
           k == q + a - b
<1>1. y \in Int OBVIOUS
<1>2. r \in 0 .. c - 1 /\ a \in Int /\ x = c * a + r BY ModFacts
<1> HIDE DEF a, r
<1>3. s \in 0 .. c - 1 /\ b \in Int /\ y = c * b + s
  <2> HIDE DEF y
  <2> QED BY <1>1, ModFacts
<1> HIDE DEF b, s
<1>4. c * k = s - r /\ k \in Int
  <2>1. c * k = c * q + c * a - c * b BY <1>2, <1>3
  <2>2. c * q + c * a + r = c * b + s BY <1>2, <1>3
  <2>3. c * q \in Int /\ c * a \in Int /\ c * b \in Int BY <1>2, <1>3
  <2> QED BY <1>2, <1>3, <2>1, <2>2, <2>3
<1> HIDE DEF k, y
<1>5. k = 0 BY <1>2, <1>3, <1>4, OnlyZero
<1>6. s = r BY <1>2, <1>3, <1>4, <1>5
<1> QED BY <1>6 DEF s, r, y

LEMMA StartShift ==
  ASSUME NEW unit, IsUnit(unit), NEW t \in Int, NEW k \in Int
  PROVE  IsStart(t + k, unit) <=> IsStart((t % unit.cycle) + k, unit)
<1> DEFINE c == unit.cycle
           r == t % c
           q == t \div c
<1>1. c \in Nat /\ c > 0 BY DEF IsUnit
<1> HIDE DEF c
<1>2. r \in Int /\ q \in Int /\ t = c * q + r BY <1>1, ModFacts
<1> HIDE DEF r, q
<1>3. t + k = c * q + (r + k) /\ r + k \in Int
  <2>1. c * q \in Int BY <1>1, <1>2
  <2> QED BY <1>2, <2>1
<1> DEFINE x == r + k
<1>4. t + k = c * q + x /\ x \in Int BY <1>3
<1> HIDE DEF x
<1>5. (c * q + x) % c = x % c BY <1>1, <1>2, <1>4, ModShift
<1>6. (t + k) % c = x % c BY <1>4, <1>5
<1> QED BY <1>6 DEF IsStart, x, c, r

\* Days, months and years are neither much shorter nor much longer than their seconds.
LEMMA CalendarFacts ==
  ASSUME NEW unit, IsUnit(unit), unit.name \in {"day", "month", "year"}, NEW t \in Int
  PROVE  /\ \E s \in t + 1 .. t + unit.seconds + Half(unit) - 1 : IsStart(s, unit)
         /\ IsStart(t, unit) =>
              \A s \in t + 1 .. t + (3 * unit.seconds) \div 4 : ~IsStart(s, unit)
<1> DEFINE r == t % unit.cycle
           n == unit.seconds
           long == (3 * n) \div 2
           short == (3 * n) \div 4
<1>1. unit.cycle \in Nat /\ unit.cycle > 0 /\ n \in Nat BY DEF IsUnit
<1>2. r \in 0 .. unit.cycle - 1 /\ r \in Int BY <1>1, ModFacts
<1>3. /\ Starts(r + 1, r + long - 1, unit) # {}
      /\ r \in unit.starts => Starts(r + 1, r + short, unit) = {}
  BY <1>2 DEF IsUnit
<1>4. IsStart(t, unit) => r \in unit.starts BY DEF IsStart
<1>5. \A k \in Int : IsStart(t + k, unit) <=> IsStart(r + k, unit) BY StartShift
<1>6. long = n + Half(unit) /\ long \in Int /\ short \in Int /\ Half(unit) \in Int
  <2>1. n % 2 = 0 BY DEF IsUnit
  <2> QED BY <1>1, <2>1 DEF Half
<1> HIDE DEF r, n, long, short
<1>7. \E s \in t + 1 .. t + long - 1 : IsStart(s, unit)
  <2>1. PICK s \in r + 1 .. r + long - 1 : IsStart(s, unit) BY <1>3 DEF Starts
  <2> DEFINE k == s - r
  <2>2. k \in Int /\ s = r + k /\ t + k \in t + 1 .. t + long - 1 BY <1>2, <1>6, <2>1
  <2> HIDE DEF k
  <2> QED BY <1>5, <2>1, <2>2
<1>8. ASSUME IsStart(t, unit), NEW s \in t + 1 .. t + short PROVE ~IsStart(s, unit)
  <2> DEFINE k == s - t
  <2>1. k \in Int /\ s = t + k /\ r + k \in r + 1 .. r + short BY <1>2, <1>6, <1>8
  <2> HIDE DEF k
  <2>2. ~IsStart(r + k, unit) BY <1>3, <1>4, <1>8, <2>1 DEF Starts
  <2> QED BY <1>5, <2>1, <2>2
<1>9. t + long - 1 = t + n + Half(unit) - 1 BY <1>1, <1>6
<1>10. \E s \in t + 1 .. t + n + Half(unit) - 1 : IsStart(s, unit) BY <1>7, <1>9
<1> QED BY <1>8, <1>10 DEF n, short

LEMMA EndsOf ==
  ASSUME NEW a \in Int, NEW b \in Int, NEW S \in SUBSET (a .. b), S # {}
  PROVE  /\ Max(S) \in S /\ \A s \in S : s <= Max(S)
         /\ Min(S) \in S /\ \A s \in S : Min(S) <= s
<1> DEFINE n == b - a + 1
           P == {k \in 1 .. n : a + k - 1 \in S}
           up == [k \in 1 .. n |-> a + k - 1]
           down == [k \in 1 .. n |-> -(a + k - 1)]
<1>1. \A s \in S : s \in Int /\ a <= s /\ s <= b OBVIOUS
<1>2. n \in Nat
  <2>1. PICK s \in S : TRUE OBVIOUS
  <2>2. a <= b BY <1>1
  <2> QED BY <2>2
<1>3. P \in SUBSET (1 .. n) /\ P # {}
  <2>1. PICK s \in S : TRUE OBVIOUS
  <2>2. s - a + 1 \in 1 .. n /\ a + (s - a + 1) - 1 = s BY <1>1
  <2> QED BY <2>2
<1>4. \A k \in P : /\ up[k] = a + k - 1 /\ down[k] = -(a + k - 1)
                   /\ up[k] \in Int /\ down[k] \in Int /\ a + k - 1 \in S
  OBVIOUS
<1>5. \A s \in S : s - a + 1 \in P /\ a + (s - a + 1) - 1 = s BY <1>1
<1> HIDE DEF up, down, P, n
<1>6. PICK k \in P : \A l \in P : up[k] <= up[l] BY <1>2, <1>3, <1>4, LeastPlace
<1>7. PICK j \in P : \A l \in P : down[j] <= down[l] BY <1>2, <1>3, <1>4, LeastPlace
<1>8. a + k - 1 \in S /\ \A s \in S : a + k - 1 <= s
  <2> SUFFICES ASSUME NEW s \in S PROVE a + k - 1 <= s BY <1>4
  <2>1. up[k] <= up[s - a + 1] BY <1>5, <1>6
  <2> QED BY <1>4, <1>5, <2>1
<1>9. a + j - 1 \in S /\ \A s \in S : s <= a + j - 1
  <2> SUFFICES ASSUME NEW s \in S PROVE s <= a + j - 1 BY <1>4
  <2>1. down[j] <= down[s - a + 1] BY <1>5, <1>7
  <2>2. -(a + j - 1) <= -s BY <1>4, <1>5, <2>1
  <2> QED BY <1>1, <1>4, <2>2
<1>10. Max(S) \in S /\ \A s \in S : Max(S) >= s BY <1>1, <1>9 DEF Max
<1>11. Min(S) \in S /\ \A s \in S : Min(S) <= s BY <1>8 DEF Min
<1> QED BY <1>1, <1>10, <1>11

\* A day starts at the last start that is less than a day away, or the one after it; a month
\* or a year at the next start; and the other units start at their multiples.
LEMMA DayFacts ==
  ASSUME NEW unit, IsUnit(unit), unit.name = "day", NEW t \in Int
  PROVE  \E day \in Int :
           /\ IsStart(day, unit) /\ t - unit.seconds <= day /\ day < t + unit.seconds
           /\ \A s \in t - unit.seconds .. t + unit.seconds - 1 : IsStart(s, unit) => s <= day
           /\ ~IsLeap(day, unit) => TimeCeil(t, unit) = day
           /\ IsLeap(day, unit) =>
                /\ TimeCeil(t, unit) \in Int /\ day < TimeCeil(t, unit)
                /\ IsStart(TimeCeil(t, unit), unit)
                /\ \A s \in day + 1 .. TimeCeil(t, unit) - 1 : ~IsStart(s, unit)
<1> DEFINE n == unit.seconds
           S == Starts(t - n, t + n - 1, unit)
           day == Max(S)
           T == Starts(day + 1, day + 2 * n, unit)
<1>1. n \in Nat /\ n > 0 /\ Half(unit) \in Int /\ n + Half(unit) - 1 <= 2 * n - 1
  BY DEF IsUnit, Half
<1>2. TimeCeil(t, unit) = IF IsLeap(day, unit) THEN Min(T) ELSE day
  BY DEF TimeCeil, Starts
<1>3. day \in S /\ \A s \in S : s <= day
  <2> DEFINE u == t - n - 1
  <2>0. u \in Int /\ u + 1 = t - n /\ u + n + Half(unit) - 1 <= t + n - 1 BY <1>1
  <2> HIDE DEF u
  <2>1. PICK s \in u + 1 .. u + n + Half(unit) - 1 : IsStart(s, unit) BY <2>0, CalendarFacts
  <2>2. s \in S BY <1>1, <2>0, <2>1 DEF Starts
  <2>3. S \in SUBSET (t - n .. t + n - 1) BY DEF Starts
  <2>4. t - n \in Int /\ t + n - 1 \in Int BY <1>1
  <2> HIDE DEF S
  <2> QED BY <2>2, <2>3, <2>4, EndsOf
<1>4. day \in Int /\ IsStart(day, unit) /\ t - n <= day /\ day < t + n
  BY <1>1, <1>3 DEF Starts
<1>5. \A s \in t - n .. t + n - 1 : IsStart(s, unit) => s <= day BY <1>3 DEF Starts
<1> HIDE DEF day, S
<1>6. /\ Min(T) \in Int /\ day < Min(T) /\ IsStart(Min(T), unit)
      /\ \A s \in day + 1 .. Min(T) - 1 : ~IsStart(s, unit)
  <2>1. PICK s \in day + 1 .. day + n + Half(unit) - 1 : IsStart(s, unit)
    BY <1>4, CalendarFacts
  <2>2. s \in T BY <1>1, <1>4, <2>1 DEF Starts
  <2>3. T \in SUBSET (day + 1 .. day + 2 * n) BY DEF Starts
  <2> DEFINE next == Min(T)
  <2>4. next \in T /\ \A u \in T : next <= u
    <3>1. day + 1 \in Int /\ day + 2 * n \in Int BY <1>1, <1>4
    <3> HIDE DEF T
    <3> QED BY <2>2, <2>3, <3>1, EndsOf
  <2>5. next \in day + 1 .. day + 2 * n /\ IsStart(next, unit) BY <2>4 DEF Starts
  <2> HIDE DEF next
  <2>6. \A u \in day + 1 .. next - 1 : ~IsStart(u, unit)
    <3> SUFFICES ASSUME NEW u \in day + 1 .. next - 1, IsStart(u, unit) PROVE FALSE
      OBVIOUS
    <3>1. u \in day + 1 .. day + 2 * n /\ u < next BY <1>1, <1>4, <2>5
    <3>2. next <= u BY <2>4, <3>1 DEF Starts
    <3> QED BY <1>4, <2>5, <3>1, <3>2
  <2> QED BY <1>1, <1>4, <2>5, <2>6 DEF next
<1> HIDE DEF T
<1> QED BY <1>2, <1>4, <1>5, <1>6 DEF n

LEMMA MonthFacts ==
  ASSUME NEW unit, IsUnit(unit), unit.name \in {"month", "year"}, NEW t \in Int
  PROVE  /\ TimeCeil(t, unit) \in Int /\ t <= TimeCeil(t, unit)
         /\ IsStart(TimeCeil(t, unit), unit)
         /\ \A s \in t .. TimeCeil(t, unit) - 1 : ~IsStart(s, unit)
<1> DEFINE n == unit.seconds
           T == Starts(t, t + 2 * n, unit)
           next == Min(T)
<1>1. n \in Nat /\ n > 0 /\ Half(unit) \in Int /\ n + Half(unit) - 1 <= 2 * n
  BY DEF IsUnit, Half
<1>2. TimeCeil(t, unit) = next
  <2>1. unit.name # "day" OBVIOUS
  <2> QED BY <2>1 DEF TimeCeil, Starts
<1>3. PICK s \in t + 1 .. t + n + Half(unit) - 1 : IsStart(s, unit) BY CalendarFacts
<1>4. s \in T BY <1>1, <1>3 DEF Starts
<1>5. T \in SUBSET (t .. t + 2 * n) BY DEF Starts
<1>6. next \in T /\ \A u \in T : next <= u
  <2>1. t \in Int /\ t + 2 * n \in Int BY <1>1
  <2> HIDE DEF T
  <2> QED BY <1>4, <1>5, <2>1, EndsOf
<1>7. next \in t .. t + 2 * n /\ IsStart(next, unit) BY <1>6 DEF Starts
<1> HIDE DEF next
<1>8. \A u \in t .. next - 1 : ~IsStart(u, unit)
  <2> SUFFICES ASSUME NEW u \in t .. next - 1, IsStart(u, unit) PROVE FALSE
    OBVIOUS
  <2>1. u \in t .. t + 2 * n /\ u < next BY <1>1, <1>7
  <2>2. next <= u BY <1>6, <2>1 DEF Starts
  <2> QED BY <1>7, <2>1, <2>2
<1> QED BY <1>1, <1>2, <1>7, <1>8

LEMMA OtherFacts ==
  ASSUME NEW unit, IsUnit(unit), unit.name \notin {"day", "month", "year"}, NEW t \in Int
  PROVE  /\ TimeCeil(t, unit) \in Int /\ t <= TimeCeil(t, unit)
         /\ IsStart(TimeCeil(t, unit), unit)
         /\ \A s \in t .. TimeCeil(t, unit) - 1 : ~IsStart(s, unit)
<1> DEFINE n == unit.seconds
           q == (t + n - 1) \div n
           next == q * n
<1>1. n \in Nat /\ n > 0 /\ unit.cycle = n /\ unit.starts = {0} BY DEF IsUnit
<1> HIDE DEF n
<1>2. TimeCeil(t, unit) = next BY DEF TimeCeil, n
<1>3. q \in Int /\ n * q <= t + n - 1 /\ t + n - 1 < n * q + n BY <1>1, DivFacts
<1> HIDE DEF q
<1>4. next = n * q /\ next \in Int /\ t <= next /\ next <= t + n - 1 BY <1>1, <1>3
<1>5. \A s : IsStart(s, unit) <=> s % n = 0 BY <1>1 DEF IsStart
<1>6. next % n = 0
  <2>1. (n * q + 0) % n = 0 % n BY <1>1, <1>3, ModShift
  <2>2. 0 % n = 0 BY <1>1
  <2>3. n * q + 0 = next BY <1>4
  <2> QED BY <2>1, <2>2, <2>3
<1>7. ASSUME NEW s \in t .. next - 1, s % n = 0 PROVE FALSE
  <2> DEFINE p == s \div n
             k == q - p
  <2>1. s \in Int /\ next - n < s /\ s < next BY <1>1, <1>4, <1>7
  <2>2. p \in Int /\ s = n * p + 0 BY <1>1, <1>7, <2>1, ModFacts
  <2> HIDE DEF p
  <2>3. k \in Int /\ n * k = n * q - n * p BY <1>1, <1>3, <2>2
  <2>4. n * k = next - s BY <1>1, <1>4, <2>1, <2>2, <2>3
  <2> HIDE DEF k
  <2>5. k = 0 BY <1>1, <1>4, <2>1, <2>3, <2>4, OnlyZero
  <2>6. n * 0 = 0 BY <1>1
  <2> QED BY <1>4, <2>1, <2>4, <2>5, <2>6
<1> QED BY <1>2, <1>4, <1>5, <1>6, <1>7

\* Whatever time a label is looked for from, it is a start; and looked for half a unit
\* after a start, it is the next one that is no leap day.
LEMMA CeilFacts ==
  ASSUME NEW unit, IsUnit(unit), NEW t \in Int
  PROVE  TimeCeil(t, unit) \in Int /\ IsStart(TimeCeil(t, unit), unit)
<1>1. CASE unit.name = "day" BY <1>1, DayFacts
<1>2. CASE unit.name \in {"month", "year"} BY <1>2, MonthFacts
<1>3. CASE unit.name \notin {"day", "month", "year"} BY <1>3, OtherFacts
<1> QED BY <1>1, <1>2, <1>3

LEMMA NextFacts ==
  ASSUME NEW unit, IsUnit(unit), NEW t \in Int, IsStart(t, unit)
  PROVE  LET next == TimeCeil(t + Half(unit), unit)
         IN  /\ t < next
             /\ \A s \in t + 1 .. next - 1 : IsStart(s, unit) => IsLeap(s, unit)
<1> DEFINE n == unit.seconds
           h == Half(unit)
           short == (3 * n) \div 4
           next == TimeCeil(t + h, unit)
<1>1. /\ n \in Nat /\ n > 0 /\ h \in Int /\ 2 * h = n /\ h > 0 /\ t + h \in Int
      /\ short \in Int /\ h <= short /\ 2 * (short + 1) > n + h
  <2>1. n \in Nat /\ n > 0 /\ n % 2 = 0 BY DEF IsUnit
  <2> QED BY <2>1 DEF Half
<1> HIDE DEF n, h, short
<1>2. next \in Int BY <1>1, CeilFacts
<1> HIDE DEF next
<1>3. CASE unit.name = "day"
  <2> DEFINE x == t + h
  <2>0. x \in Int /\ t + h = x BY <1>1
  <2>1. PICK day \in Int :
          /\ IsStart(day, unit) /\ x - n <= day /\ day < x + n
          /\ \A s \in x - n .. x + n - 1 : IsStart(s, unit) => s <= day
          /\ ~IsLeap(day, unit) => next = day
          /\ IsLeap(day, unit) => /\ day < next
                                  /\ \A s \in day + 1 .. next - 1 : ~IsStart(s, unit)
    <3>1. next = TimeCeil(x, unit) BY DEF next
    <3> HIDE DEF x
    <3> QED BY <1>3, <2>0, <3>1, DayFacts DEF n
  <2> HIDE DEF x
  <2>2. t < day
    <3>1. PICK s \in t + 1 .. t + n + h - 1 : IsStart(s, unit)
      BY <1>3, CalendarFacts DEF n, h
    <3>2. s \in x - n .. x + n - 1 BY <1>1, <2>0, <3>1
    <3> QED BY <1>1, <2>1, <3>1, <3>2
  <2>3. ASSUME NEW s \in t + 1 .. day - 1, IsStart(s, unit) PROVE FALSE
    <3>1. \A u \in t + 1 .. t + short : ~IsStart(u, unit) BY <1>3, CalendarFacts DEF n, short
    <3>2. s \in Int /\ t + short < s BY <1>1, <2>0, <2>1, <2>3, <3>1
    <3>3. \A u \in s + 1 .. s + short : ~IsStart(u, unit)
      BY <1>3, <2>3, <3>2, CalendarFacts DEF n, short
    <3>4. s + short < day BY <1>1, <2>1, <2>3, <3>2, <3>3
    <3> QED BY <1>1, <2>0, <2>1, <3>2, <3>4
  <2>4. CASE ~IsLeap(day, unit)
    <3>1. next = day BY <2>1, <2>4
    <3> QED BY <2>2, <2>3, <3>1 DEF next, h
  <2>5. CASE IsLeap(day, unit)
    <3>1. t < next BY <1>2, <2>1, <2>2, <2>5
    <3>2. ASSUME NEW s \in t + 1 .. next - 1, IsStart(s, unit) PROVE IsLeap(s, unit)
      <4>1. s \in t + 1 .. day - 1 \/ s = day \/ s \in day + 1 .. next - 1
        BY <1>2, <2>1, <3>2
      <4> QED BY <2>1, <2>3, <2>5, <3>2, <4>1
    <3> QED BY <3>1, <3>2 DEF next, h
  <2> QED BY <2>4, <2>5 DEF next, h
<1>4. ASSUME unit.name # "day" PROVE t < next /\ \A s \in t + 1 .. next - 1 : ~IsStart(s, unit)
  <2>1. t + h <= next /\ \A s \in t + h .. next - 1 : ~IsStart(s, unit)
    <3>1. CASE unit.name \in {"month", "year"} BY <1>1, <3>1, MonthFacts DEF next
    <3>2. CASE unit.name \notin {"month", "year"} BY <1>1, <1>4, <3>2, OtherFacts DEF next
    <3> QED BY <3>1, <3>2
  <2>2. ASSUME NEW s \in t + 1 .. t + h - 1 PROVE ~IsStart(s, unit)
    <3>1. CASE unit.name \in {"month", "year"}
      <4>1. s \in t + 1 .. t + short BY <1>1, <2>2
      <4> QED BY <3>1, <4>1, CalendarFacts DEF short, n
    <3>2. CASE unit.name \notin {"month", "year"}
      <4>1. unit.cycle = n /\ unit.starts = {0} BY <1>4, <3>2 DEF IsUnit, n
      <4>2. t % n = 0 /\ (IsStart(s, unit) => s % n = 0) BY <4>1 DEF IsStart
      <4> SUFFICES ASSUME IsStart(s, unit) PROVE FALSE OBVIOUS
      <4> DEFINE a == t \div n
                 b == s \div n
                 d == b - a
      <4>3. a \in Int /\ t = n * a + 0 BY <1>1, <4>2, ModFacts
      <4>4. b \in Int /\ s = n * b + 0 BY <1>1, <2>2, <4>2, ModFacts
      <4> HIDE DEF a, b
      <4>5. d \in Int /\ n * d = n * b - n * a BY <1>1, <4>3, <4>4
      <4>6. n * d = s - t /\ 0 < s - t /\ s - t < n BY <1>1, <2>2, <4>3, <4>4, <4>5
      <4> HIDE DEF d
      <4>7. d = 0 BY <1>1, <2>2, <4>5, <4>6, OnlyZero
      <4>8. n * 0 = 0 BY <1>1
      <4> QED BY <2>2, <4>6, <4>7, <4>8
    <3> QED BY <3>1, <3>2
  <2> QED BY <1>1, <1>2, <2>1, <2>2
<1> QED BY <1>3, <1>4 DEF next, h

\* Each tick is looked for from the one before.
Labels(tick, unit, begin, count) ==
  tick = [i \in 1 .. count |->
            TimeCeil(IF i = 1 THEN begin ELSE tick[i - 1] + unit.seconds \div 2, unit)]

LEMMA LabelsExist ==
  ASSUME NEW unit, IsUnit(unit), NEW begin \in Int, NEW count \in Int
  PROVE  \E tick : Labels(tick, unit, begin, count)
<1> DEFINE n == IF count > 0 THEN count ELSE 0
           h == Half(unit)
           T == Int
           first == begin - h
           step == [i \in 1 .. n |-> [x \in Int |-> TimeCeil(x + h, unit)]]
<1>1. n \in Nat /\ h \in Int /\ 1 .. n = 1 .. count BY DEF IsUnit, Half
<1> HIDE DEF n, h
<1>2. \A x \in Int : TimeCeil(x + h, unit) \in Int
  <2> TAKE x \in Int
  <2>1. x + h \in Int BY <1>1
  <2> QED BY <2>1, CeilFacts
<1>3. first \in T /\ step \in [1 .. n -> [T -> T]] BY <1>1, <1>2
<1>4. PICK f \in [0 .. n -> T] : Steps(f, n, first, step)
  <2> HIDE DEF first, T, step
  <2> QED BY <1>1, <1>3, StepsExist
<1>5. f[0] = first /\ \A i \in 1 .. n : f[i] = TimeCeil(f[i - 1] + h, unit)
  <2>1. f[0] = first BY <1>4 DEF Steps
  <2>2. ASSUME NEW i \in 1 .. n PROVE f[i] = TimeCeil(f[i - 1] + h, unit)
    <3>1. f[i - 1] \in Int BY <1>1, <1>4
    <3>2. f[i] = step[i][f[i - 1]] BY <1>4 DEF Steps
    <3> QED BY <3>1, <3>2
  <2> QED BY <2>1, <2>2
<1> DEFINE tick == [i \in 1 .. count |-> f[i]]
<1>6. ASSUME NEW i \in 1 .. count
      PROVE  f[i] = TimeCeil(IF i = 1 THEN begin ELSE tick[i - 1] + h, unit)
  <2>1. f[i] = TimeCeil(f[i - 1] + h, unit) BY <1>1, <1>5
  <2>2. CASE i = 1
    <3>1. f[i - 1] + h = begin BY <1>1, <1>5, <2>2
    <3> QED BY <2>1, <2>2, <3>1
  <2>3. CASE i # 1
    <3>1. i - 1 \in 1 .. count BY <2>3
    <3>2. tick[i - 1] = f[i - 1] BY <3>1
    <3> HIDE DEF tick
    <3> QED BY <2>1, <2>3, <3>2
  <2> QED BY <2>2, <2>3
<1>7. tick = [i \in 1 .. count |->
                TimeCeil(IF i = 1 THEN begin ELSE tick[i - 1] + h, unit)]
  BY <1>6
<1> QED BY <1>7 DEF Labels, Half, h

LEMMA LabelsFacts ==
  ASSUME NEW unit, IsUnit(unit), NEW begin \in Int, NEW count \in Int,
         NEW tick, Labels(tick, unit, begin, count)
  PROVE  /\ DOMAIN tick = 1 .. count
         /\ \A i \in 1 .. count :
              /\ IsStart(tick[i], unit)
              /\ i > 1 => /\ tick[i - 1] < tick[i]
                          /\ \A t \in tick[i - 1] + 1 .. tick[i] - 1 :
                               IsStart(t, unit) => IsLeap(t, unit)
<1> DEFINE h == Half(unit)
           I == {m \in Nat : m \in 1 .. count => tick[m] \in Int /\ IsStart(tick[m], unit)}
<1>1. h \in Int BY DEF IsUnit, Half
<1>2. /\ DOMAIN tick = 1 .. count
      /\ \A i \in 1 .. count :
           tick[i] = TimeCeil(IF i = 1 THEN begin ELSE tick[i - 1] + h, unit)
  <2> DEFINE value(i) == TimeCeil(IF i = 1 THEN begin ELSE tick[i - 1] + h, unit)
  <2>1. tick = [i \in 1 .. count |-> value(i)] BY DEF Labels, Half
  <2> HIDE DEF value
  <2>2. DOMAIN tick = 1 .. count /\ \A i \in 1 .. count : tick[i] = value(i) BY <2>1
  <2> QED BY <2>2 DEF value
<1> HIDE DEF h
<1>3. 0 \in I OBVIOUS
<1>4. ASSUME NEW m \in Nat, m \in I PROVE m + 1 \in I
  <2> SUFFICES ASSUME m + 1 \in 1 .. count
               PROVE  tick[m + 1] \in Int /\ IsStart(tick[m + 1], unit)
    OBVIOUS
  <2>1. CASE m = 0
    <3>1. m + 1 = 1 BY <2>1
    <3>2. tick[m + 1] = TimeCeil(begin, unit) BY <1>2, <3>1
    <3> QED BY <3>2, CeilFacts
  <2>2. CASE m # 0
    <3>1. m \in 1 .. count /\ m + 1 # 1 /\ (m + 1) - 1 = m BY <2>2
    <3>2. tick[m] \in Int BY <1>4, <3>1
    <3>3. tick[m + 1] = TimeCeil(tick[m] + h, unit) BY <1>2, <3>1
    <3>4. tick[m] + h \in Int BY <1>1, <3>2
    <3> QED BY <3>3, <3>4, CeilFacts
  <2> QED BY <2>1, <2>2
<1>5. \A m \in Nat : m \in I
  <2> HIDE DEF I
  <2> QED BY <1>3, <1>4, SetInduction
<1>6. \A i \in 1 .. count : tick[i] \in Int /\ IsStart(tick[i], unit) BY <1>5
<1>7. ASSUME NEW i \in 1 .. count, i > 1
      PROVE  /\ tick[i - 1] < tick[i]
             /\ \A t \in tick[i - 1] + 1 .. tick[i] - 1 : IsStart(t, unit) => IsLeap(t, unit)
  <2>1. i - 1 \in 1 .. count /\ i # 1 BY <1>7
  <2> DEFINE before == tick[i - 1]
  <2>2. before \in Int /\ IsStart(before, unit) BY <1>6, <2>1
  <2>3. tick[i] = TimeCeil(before + h, unit) BY <1>2, <2>1
  <2> HIDE DEF before
  <2>4. before < tick[i] /\ \A t \in before + 1 .. tick[i] - 1 : IsStart(t, unit) => IsLeap(t, unit)
    BY <2>2, <2>3, NextFacts DEF h
  <2> QED BY <2>4 DEF before
<1> QED BY <1>2, <1>6, <1>7

\* For the domain of any slices, and some unit of the axis.
LEMMA TickFacts ==
  ASSUME NEW domain, domain.min \in Int, domain.max \in Int
  PROVE  LET unit == AppropriateTimeUnit(domain)
             ticks == TickOffsets(domain)
         IN  \A i \in DOMAIN ticks :
               /\ IsStart(ticks[i], unit)
               /\ i > 1 => /\ ticks[i - 1] < ticks[i]
                           /\ \A t \in ticks[i - 1] + 1 .. ticks[i] - 1 :
                                IsStart(t, unit) => IsLeap(t, unit)
<1> DEFINE unit == AppropriateTimeUnit(domain)
           ticks == TickOffsets(domain)
           fitting == {u \in DOMAIN Units : (domain.max - domain.min) \div Units[u].seconds >= 2}
           count == (domain.max - domain.min + unit.seconds - 1) \div unit.seconds
<1>1. IsUnit(unit)
  <2>1. unit = Units[IF fitting = {} THEN Len(Units) ELSE Min(fitting)]
    BY DEF AppropriateTimeUnit
  <2>2. Len(Units) \in DOMAIN Units /\ Len(Units) \in Int
    <3>1. Units # <<>> /\ DOMAIN Units = 1 .. Len(Units) BY DataConstants
    <3> QED BY <3>1
  <2>3. fitting \in SUBSET (1 .. Len(Units)) BY DataConstants
  <2>4. fitting # {} => Min(fitting) \in fitting
    <3> DEFINE m == Len(Units)
    <3>1. fitting \in SUBSET (1 .. m) /\ m \in Int BY <2>2, <2>3
    <3> HIDE DEF fitting, m
    <3> QED BY <3>1, EndsOf
  <2>5. (IF fitting = {} THEN Len(Units) ELSE Min(fitting)) \in DOMAIN Units BY <2>2, <2>4
  <2> HIDE DEF fitting, unit
  <2> QED BY <2>1, <2>5, UnitsFacts
<1> HIDE DEF unit, fitting
<1>2. count \in Int
  <2>1. unit.seconds \in Nat /\ unit.seconds > 0 BY <1>1 DEF IsUnit
  <2>2. domain.max - domain.min + unit.seconds - 1 \in Int BY <2>1
  <2> QED BY <2>1, <2>2, DivFacts
<1>3. ticks = CHOOSE tick : Labels(tick, unit, domain.min, count)
  BY DEF TickOffsets, Labels, unit
<1> HIDE DEF count, ticks
<1>4. \E tick : Labels(tick, unit, domain.min, count) BY <1>1, <1>2, LabelsExist
<1>5. Labels(ticks, unit, domain.min, count) BY <1>3, <1>4
<1>6. /\ DOMAIN ticks = 1 .. count
      /\ \A i \in 1 .. count :
           /\ IsStart(ticks[i], unit)
           /\ i > 1 => /\ ticks[i - 1] < ticks[i]
                       /\ \A t \in ticks[i - 1] + 1 .. ticks[i] - 1 :
                            IsStart(t, unit) => IsLeap(t, unit)
  BY <1>1, <1>2, <1>5, LabelsFacts
<1> QED BY <1>6 DEF unit, ticks

\* Even when drawing threw the slices are sequences of points, those of an earlier drawing.
DrawnInv ==
  /\ DOMAIN stackedData = 1 .. Len(stackedData)
  /\ \A i \in 1 .. Len(stackedData) : stackedData[i] \in Seq(PointSet)

LEMMA DrawnInvHolds == Spec => []DrawnInv
<1>1. SlicesInv /\ ~failed => DrawnInv BY DEF SlicesInv, Slices, DrawnInv
<1>2. stackedData = <<>> => DrawnInv BY DEF DrawnInv
<1>3. SlicesInv /\ Init => DrawnInv
  <2>1. Init /\ failed => stackedData = <<>> BY DEF Init, Construct
  <2> QED BY <1>1, <1>2, <2>1
<1>4. SlicesInv' /\ DrawnInv /\ [Next]_vars => DrawnInv'
  <2> SUFFICES ASSUME SlicesInv', DrawnInv, [Next]_vars PROVE DrawnInv'
    OBVIOUS
  <2>1. CASE ~failed' BY <2>1 DEF SlicesInv, Slices, DrawnInv
  <2>2. CASE stackedData' = stackedData BY <2>2 DEF DrawnInv
  <2>3. CASE stackedData' = <<>> BY <2>3 DEF DrawnInv
  <2>4. ~failed' \/ stackedData' = stackedData \/ stackedData' = <<>>
    BY StepsOfHover DEF graphVars, Render, ConstructAgain
  <2> QED BY <2>1, <2>2, <2>3, <2>4
<1> QED BY <1>3, <1>4, SlicesInvHolds, PTL DEF Spec

\* The labels of the axis follow each other, whatever was drawn and in whatever calendar
\* whose days, months and years differ as little as ours.
THEOREM LabelsFollow == Spec => []TicksInOrder
<1>1. DrawnInv => TicksInOrder
  <2> SUFFICES ASSUME DrawnInv, NonEmpty(stackedData) # {} PROVE TicksInOrder
    BY DEF TicksInOrder
  <2> DEFINE d == Domain(stackedData)
             m == Len(stackedData)
  <2>1. m \in Nat /\ DOMAIN stackedData = 1 .. m /\ \A i \in 1 .. m : stackedData[i] \in Seq(PointSet)
    BY DEF DrawnInv
  <2>2. d.min \in Int /\ d.max \in Int
    <3> HIDE DEF m
    <3> QED BY <2>1, DomainFacts
  <2> HIDE DEF d
  <2>3. \A i \in DOMAIN TickOffsets(d) :
          /\ IsStart(TickOffsets(d)[i], AppropriateTimeUnit(d))
          /\ i > 1 => /\ TickOffsets(d)[i - 1] < TickOffsets(d)[i]
                      /\ \A t \in TickOffsets(d)[i - 1] + 1 .. TickOffsets(d)[i] - 1 :
                           IsStart(t, AppropriateTimeUnit(d)) => IsLeap(t, AppropriateTimeUnit(d))
    BY <2>2, TickFacts
  <2> QED BY <2>3 DEF TicksInOrder, d
<1> QED BY <1>1, DrawnInvHolds, PTL

===============================================================================
