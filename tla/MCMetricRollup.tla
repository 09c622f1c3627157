--------------------------- MODULE MCMetricRollup ---------------------------
(* A small instance of MetricRollup for TLC: one sample with an hour in which
   the server may be down, and two samples while it stays up.  Runs of a job
   are interchangeable, and so are samples. *)
EXTENDS MetricRollup, TLC

Study(s, c, h, o, r) == [samples |-> s, copies |-> c, hours |-> h, outages |-> o, runs |-> r]

MCStudies == {Study(1, 2, 5, 1, 2), Study(2, 1, 4, 0, 2)}

Symmetry == Permutations(HourlyJob) \cup Permutations(DailyJob) \cup Permutations(Sample)

=============================================================================
