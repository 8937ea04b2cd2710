-------------------------- MODULE MCBookingSession --------------------------
(* Instance of BookingSession for TLC; the bounds are in the cfg files.        *)
EXTENDS BookingSession
=============================================================================
