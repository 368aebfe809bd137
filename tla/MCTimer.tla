------------------------------- MODULE MCTimer -------------------------------
(***************************************************************************)
(* The runs of TimerProps; timers are not interchangeable under fairness,  *)
(* and two of them are few enough without symmetry.                        *)
(***************************************************************************)
EXTENDS TimerProps
=============================================================================
