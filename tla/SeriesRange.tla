---------------------------- MODULE SeriesRange -----------------------------
(***************************************************************************)
(* The samples of a series for a plot (bm-store Store::range): more of     *)
(* them than the plot has points are reduced to the least and the greatest *)
(* of each of max_points / 2 equal intervals, in one pass over the rows.   *)
(*                                                                         *)
(* The rows are those of the interval asked for, in the order of their     *)
(* time, which is unique in a series.                                      *)
(***************************************************************************)
EXTENDS Integers, Sequences

CONSTANTS
  Rows,      \* sequences of [t, v]
  MaxPoints  \* max_points of callers (10 at least in the code; an even 2 is the least)

ASSUME SeriesAssumption ==
  /\ Rows \subseteq Seq([t : Int, v : Int])
  /\ \A r \in Rows : \A i, j \in DOMAIN r : i < j => r[i].t < r[j].t
  /\ MaxPoints \subseteq Nat \ {0, 1}

VARIABLES
  rows,    \* what the query returns
  most,    \* max_points
  next,    \* the row to look at
  bucket,  \* the current bucket: nothing, or its number with its extremes
  points   \* Points

seriesVars == <<rows, most, next, bucket, points>>

SeriesInit ==
  /\ rows \in Rows /\ most \in MaxPoints
  /\ next = 1 /\ bucket = <<>> /\ points = <<>>

Buckets == IF most \div 2 > 1 THEN most \div 2 ELSE 1
Span == rows[Len(rows)].t - rows[1].t + 1
BucketOf(row) == ((row.t - rows[1].t) * Buckets) \div Span

\* Few enough: as they are.
AsTheyAre ==
  /\ next = 1 /\ rows # <<>> /\ Len(rows) <= most
  /\ points' = rows /\ next' = Len(rows) + 1
  /\ UNCHANGED <<rows, most, bucket>>

Reduces == Len(rows) > most

\* Mutant of Extremes: the least first, whenever it was.
ExtremesByValue(b) == IF b.lo.t = b.hi.t THEN <<b.lo>> ELSE <<b.lo, b.hi>>

\* flush: in the order of time, one point if it is both.
Extremes(b) ==
  IF b.lo.t = b.hi.t THEN <<b.lo>> ELSE IF b.lo.t < b.hi.t THEN <<b.lo, b.hi>> ELSE <<b.hi, b.lo>>

Flushed == IF bucket = <<>> THEN points ELSE points \o Extremes(bucket[1])

SameBucket(row) ==
  /\ bucket # <<>> /\ bucket[1].number = BucketOf(row)
  /\ bucket' = <<[bucket[1] EXCEPT !.lo = IF row.v < @.v THEN row ELSE @,
                                   !.hi = IF row.v > @.v THEN row ELSE @]>>
  /\ UNCHANGED points

NewBucket(row) ==
  /\ \A i \in DOMAIN bucket : bucket[i].number # BucketOf(row)
  /\ points' = Flushed
  /\ bucket' = <<[number |-> BucketOf(row), lo |-> row, hi |-> row]>>

Look ==
  /\ Reduces /\ next <= Len(rows) /\ next' = next + 1
  /\ SameBucket(rows[next]) \/ NewBucket(rows[next])
  /\ UNCHANGED <<rows, most>>

FlushLast ==
  /\ Reduces /\ next = Len(rows) + 1 /\ bucket # <<>>
  /\ points' = Flushed /\ bucket' = <<>>
  /\ UNCHANGED <<rows, most, next>>

SeriesNext == AsTheyAre \/ Look \/ FlushLast

SeriesSpec == SeriesInit /\ [][SeriesNext]_seriesVars

-----------------------------------------------------------------------------
Reduced == next = Len(rows) + 1 /\ bucket = <<>>
Points == {points[i] : i \in DOMAIN points}

\* A plot shows at most as many points as were asked for, in the order of time, each a sample;
\* and peaks survive: beside every sample, within one interval's length, there is a point at
\* least as low and one at least as high (lib.rs:467-469).
PeaksSurvive ==
  Reduced =>
    /\ Len(points) <= most
    /\ \A i, j \in DOMAIN points : i < j => points[i].t < points[j].t
    /\ Points \subseteq {rows[i] : i \in DOMAIN rows}
    /\ \A i \in DOMAIN rows :
         LET Near == {p \in Points : (p.t - rows[i].t) * Buckets \in (-Span)..Span}
         IN  (\E p \in Near : p.v <= rows[i].v) /\ (\E p \in Near : p.v >= rows[i].v)
=============================================================================
