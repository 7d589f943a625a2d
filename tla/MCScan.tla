------------------------------- MODULE MCScan -------------------------------
(* Small instances of Scan for TLC. *)
EXTENDS Scan

\* No time range, and windows whose bounds fall on, between or outside the
\* timestamps.
NoWindow == {[min |-> 0, max |-> 0]}
SomeWindows == NoWindow \cup {[min |-> 2, max |-> 0], [min |-> 0, max |-> 1],
                             [min |-> 1, max |-> 2], [min |-> 3, max |-> 0]}
=============================================================================
