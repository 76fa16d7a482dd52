---------------------------- MODULE MCCdpSession ----------------------------
(* CdpSession on two requests, one challenge each and chunks of two frames.  *)
EXTENDS CdpSession, TLC

CONSTANTS r1, r2

=============================================================================
