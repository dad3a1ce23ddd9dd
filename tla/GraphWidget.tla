----------------------------- MODULE GraphWidget -----------------------------
(***************************************************************************)
(* GraphWidget (src/ui/widgets/GraphWidget.cpp): a curve of the samples of *)
(* the last Timespan seconds.  AddPoint stamps a sample with the time of   *)
(* day; only drawing removes points, namely those that would lie outside   *)
(* of the plot.  The widget draws m_Points and m_Points2 in the same way,  *)
(* so one curve stands for either.  PerformanceSubView has two of these    *)
(* widgets; the clock moves there.                                         *)
(***************************************************************************)
EXTENDS Integers, SequencesExt

CONSTANTS
  Samples,     \* the values of AddPoint: numbers, and NaN where the code divides 0 by 0
  NaN,         \* not a number: every comparison with it is false, that with itself too
  MinValue,    \* m_MinValue
  Limit,       \* what m_MaxValue is before the first sample
  Timespan,    \* m_TimespanSeconds
  Widths, Heights, \* sizes of the plot area in pixels
  Overshoots,  \* <<pixels, range>> with range * (pixels / range) > pixels in doubles
  Times,       \* bound: the times of day
  MaxPoints    \* bound: the samples

VARIABLES
  points,   \* m_Points
  maxValue, \* m_MaxValue
  clock,    \* Utils::GetCurrentTimeMS: the time of day
  plot,     \* the size of the plot area
  samples,  \* the points that were added (history)
  setBack,  \* the clock was set back (history)
  overshot  \* a point was removed although it belongs on the edge (history)

history == <<samples, setBack, overshot>>
vars == <<points, maxValue, clock, plot, history>>

Numbers == Samples \ {NaN}
Point == [val : Samples, time : Times]

TypeOK == /\ points \in Seq(Point)
          /\ Len(points) <= MaxPoints
          /\ maxValue \in Numbers \cup {Limit}
          /\ clock \in Times
          /\ plot \in [width : Widths, height : Heights]
          /\ samples \subseteq Point
          /\ setBack \in BOOLEAN
          /\ overshot \in BOOLEAN

Init == /\ points = <<>>
        /\ maxValue = Limit
        /\ clock = 0
        /\ plot \in [width : Widths, height : Heights]
        /\ samples = {}
        /\ setBack = FALSE
        /\ overshot = FALSE

-----------------------------------------------------------------------------

\* A point that is meant to be in the plot: seen from the newest point at start
\* it is not older than Timespan, and its value fits the axis.
InRange(p, start) == /\ p.val # NaN
                     /\ p.val \in MinValue..maxValue
                     /\ start - p.time \in 0..Timespan

\* The pixels of points on the right or on the bottom edge of the plot are
\* computed as origin + range * (pixels / range), which rounding can make
\* greater than origin + pixels.
OffEdge(p, start) ==
  \/ p.time = start /\ <<plot.width, Timespan>> \in Overshoots
  \/ p.val = MinValue /\ <<plot.height, maxValue - MinValue>> \in Overshoots

\* PointToCoords and CoordsValid.
CoordsValid(p, start) == InRange(p, start) /\ ~OffEdge(p, start)

Bounded == Len(points) < MaxPoints /\ Cardinality(samples) < MaxPoints

\* Mutant: the axis follows every value that is not below its end.
AddPoint_NotBelow(v) ==
  /\ Bounded
  /\ maxValue' = IF v = NaN \/ v > maxValue THEN v ELSE maxValue
  /\ points' = Append(points, [val |-> v, time |-> clock])
  /\ samples' = samples \cup {[val |-> v, time |-> clock]}
  /\ UNCHANGED <<clock, plot, setBack, overshot>>

\* AddPoint and AddPoint2.
AddPoint(v) ==
  /\ Bounded
  /\ maxValue' = IF v # NaN /\ v > maxValue THEN v ELSE maxValue
  /\ points' = Append(points, [val |-> v, time |-> clock])
  /\ samples' = samples \cup {[val |-> v, time |-> clock]}
  /\ UNCHANGED <<clock, plot, setBack, overshot>>

\* points' are the points at the indices in kept, in their order.
Keep(kept) == \E order \in SetToSeqs(kept) :
                /\ \A m, n \in DOMAIN order : m < n => order[m] < order[n]
                /\ points' = [n \in DOMAIN order |-> points[order[n]]]

\* Mutant: as many points as are to be removed are removed from the front.
Draw_PopFront ==
  /\ points # <<>>
  /\ LET start == Last(points).time
         Outside(i) == ~CoordsValid(points[i], start) /\ points[i].val # NaN
     IN  Keep((Cardinality({i \in DOMAIN points : Outside(i)}) + 1)..Len(points))
  /\ UNCHANGED <<maxValue, clock, plot, history>>

\* Mutant: points of the future are not removed.
Draw_Future ==
  /\ points # <<>>
  /\ LET start == Last(points).time
         Outside(p) == start >= p.time /\ p.val # NaN /\ ~CoordsValid(p, start)
     IN  Keep({i \in DOMAIN points : ~Outside(points[i])})
  /\ UNCHANGED <<maxValue, clock, plot, history>>

\* DrawGraph: the points whose coordinates are not valid are collected, and for
\* each one the first point that equals it is erased.  No point equals one
\* whose value is NaN.
Draw ==
  /\ points # <<>>
  /\ LET start == Last(points).time
         Removed(p) == ~CoordsValid(p, start) /\ p.val # NaN
     IN  /\ Keep({i \in DOMAIN points : ~Removed(points[i])})
         /\ overshot' = (overshot \/ \E p \in ToSet(points) : InRange(p, start) /\ Removed(p))
  /\ UNCHANGED <<maxValue, clock, plot, samples, setBack>>

\* on_size_allocate
Resize(w, h) ==
  /\ plot' = [width |-> w, height |-> h]
  /\ UNCHANGED <<points, maxValue, clock, history>>

-----------------------------------------------------------------------------
(* Properties of a curve, checked in PerformanceSubView. *)

\* The curve fits in the plot when it has been drawn, whatever was done to the
\* clock and to the size: no number that is left lies in the future of the
\* newest sample, is older than Timespan, or is below the axis (DrawGraph).
DrawnInRange ==
  \/ points' = points
  \/ Len(points') > Len(points)
  \/ \A p \in ToSet(points') : p.val # NaN => InRange(p, Last(points).time)

\* Hiding a graph and showing it again loses nothing: unless the clock was set
\* back or rounding interfered, each number that is not below the axis and not
\* older than Timespan is still there and under the top of the axis, whenever
\* and however often the graph was drawn (AddPoint, DrawGraph).
HistoryKept ==
  ~setBack /\ ~overshot =>
    \A p \in samples :
      /\ p.val # NaN /\ p.val >= MinValue
      /\ \A q \in samples : q.time - p.time <= Timespan
      => Contains(points, p) /\ p.val <= maxValue
=============================================================================
