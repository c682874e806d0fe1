---------------------------- MODULE MCRateLimiter ----------------------------
(***************************************************************************)
(* A small instance of RateLimiter: two ticks to a second, one or two      *)
(* packets per window, and requests that narrow and widen the window, set  *)
(* the limit to zero, and fail before or after the limit is assigned.      *)
(***************************************************************************)
EXTENDS RateLimiter

Limits  == {0, 1, 2, Absent, Bad}
\* -3 and 1 are numbers that int() truncates to -1 and 0 seconds.
Windows == {-3, 1, 2, 4, Absent, Bad}

=============================================================================
