------------------------------- MODULE MCOutbox -------------------------------
(***************************************************************************)
(* One tab of a phone and two matches.  Two items of one match are among   *)
(* its states: a replay that found no network puts back what the sheet has *)
(* replaced meanwhile.                                                     *)
(***************************************************************************)
EXTENDS Outbox

=============================================================================
