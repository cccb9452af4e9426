--------------------------- MODULE MCCoexistence ---------------------------
(***************************************************************************)
(* Model-checking instance of Coexistence.  Times are scaled down so that  *)
(* their order is the code's: T_SLOT = OBS_SLOT < DIFS, PP < FRAME_TIME <  *)
(* MCOT_TIME (5400 < 6000 us: an NR-U request always outranks a Wi-Fi one),*)
(* a Wi-Fi frame and its ACK timeout shorter than an MCOT (a Wi-Fi loser  *)
(* returns while the gNB is still on air), and a sync slot shorter than a *)
(* transmission.                                                           *)
(***************************************************************************)
EXTENDS Coexistence

\* Small contention windows so that binary exponential backoff doubles
\* once before reaching CW_max, and r_limit is hit after two collisions.
MC_CW_MIN == 1
MC_CW_MAX == 3
=============================================================================
