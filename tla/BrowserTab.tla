------------------------------ MODULE BrowserTab ------------------------------
(***************************************************************************)
(* One browser tab shows one page of the application.  The pages are       *)
(* modelled one by one; leaving a page unmounts it, and mounting it again  *)
(* is its initial state, so a route never changes here.                    *)
(***************************************************************************)
CONSTANTS Routes, NoRequest

VARIABLE route

On(page) == route = page /\ UNCHANGED route
=============================================================================
