------------------------------- MODULE Timers -------------------------------
(***************************************************************************)
(* setTimeout, with time counted in ticks: a timer is the ticks it has     *)
(* still to run, or Off.  A timer that is due holds up the clock until its *)
(* callback has run; timers that are due together run in any order.        *)
(***************************************************************************)
EXTENDS Integers

Off == -1

Timer == Nat \cup {Off}

\* The timer a tick later.
Sooner(timer) == IF timer > 0 THEN timer - 1 ELSE timer
=============================================================================
