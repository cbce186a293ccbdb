---------------------------- MODULE MCUdpUpload ----------------------------
(* Constants for the model checking of UdpUpload.                          *)
EXTENDS UdpUpload

\* Indefinitely, and the smallest limits.
MCConfigured == {-1, 0, 1, 3}

\* Limited to one transmission, and to some.
MCLimited == {1, 3}

=============================================================================
