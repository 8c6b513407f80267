------------------------------ MODULE TimeUnits ------------------------------
(***************************************************************************)
(* The two units of time of the digest and its readers.  Time stamps and   *)
(* the ends of a window are instants, finer than a second (the loggers     *)
(* write microseconds); intervals, limits and durations are configured in  *)
(* seconds, and a stretch of time is reported in whole ones.               *)
(***************************************************************************)
EXTENDS Integers

CONSTANT Second  \* the instants of a second

ASSUME SecondAssumption == Second \in Nat \ {0}

\* The whole seconds of a stretch of instants: what is left over is dropped.
WholeSeconds(length) == length \div Second
=============================================================================
