----------------------------- MODULE MCRTPSource -----------------------------
(***************************************************************************)
(* Instances of RTPSource for TLC: one or two streams of six packets per   *)
(* codec, with units of one, two and three packets.                        *)
(***************************************************************************)
EXTENDS RTPSource

P(kind, isFirst, isLast, marker, ts) ==
  [kind |-> kind, first |-> isFirst, last |-> isLast, marker |-> marker, ts |-> ts]
Whole(ts) == P("whole", TRUE, TRUE, TRUE, ts)
Unmarked(ts) == P("whole", TRUE, TRUE, FALSE, ts)
Agg(ts) == P("aggregate", TRUE, TRUE, TRUE, ts)
Param(ts) == P("param", TRUE, TRUE, FALSE, ts)
Begin(ts) == P("fragment", TRUE, FALSE, FALSE, ts)
Middle(ts) == P("fragment", FALSE, FALSE, FALSE, ts)
End(ts) == P("fragment", FALSE, TRUE, TRUE, ts)

Stream(codec, ext_, packets) == [codec |-> codec, ext |-> ext_, packets |-> packets]

MCStreams ==
  {Stream("H264", TRUE, <<Param(1), Begin(1), End(1), Agg(2), Begin(3), End(3)>>),
   Stream("H264", FALSE, <<Begin(1), Middle(1), End(1), Begin(2), End(2), Whole(3)>>),
   Stream("H265", FALSE, <<Whole(1), Begin(2), End(2), Agg(3), Begin(4), End(4)>>),
   Stream("MPEG4ES", FALSE, <<Begin(1), End(1), Begin(2), Middle(2), End(2), Whole(3)>>),
   Stream("MPEG4Generic", FALSE, <<Agg(1), Whole(2), Agg(3), Whole(4), Begin(5), End(5)>>),
   Stream("JPEG", TRUE, <<Begin(1), End(1), Begin(2), Middle(2), End(2), Whole(3)>>),
   Stream("AC3", FALSE, <<Whole(1), Begin(2), End(2), Whole(3), Begin(4), End(4)>>),
   Stream("plain", FALSE, <<Unmarked(1), Unmarked(2), Unmarked(3), Unmarked(4), Unmarked(5),
                            Unmarked(6)>>),
   Stream("plain", FALSE, <<Begin(1), End(1), Whole(2), Begin(3), Middle(3), End(3)>>)}
=============================================================================
