--------------------------- MODULE PlaybackContract ---------------------------
(***************************************************************************)
(* What the speaker side promises, without threads, queues or buffers.      *)
(* The audio path wants sound or it does not; a wish arms one start; sound  *)
(* begins only out of an armed and still standing wish, may end by itself,  *)
(* and the wish is withdrawn only in silence.  Nothing rearms a wish that   *)
(* has been used up: after sound ended by itself, silence lasts until the   *)
(* wish is withdrawn and made again.                                        *)
(***************************************************************************)
VARIABLES want, armed, sound

vars == <<want, armed, sound>>

Init == want = FALSE /\ armed = FALSE /\ sound = FALSE

Ask == ~want /\ ~sound /\ want' = TRUE /\ armed' = TRUE /\ UNCHANGED sound

Begin == want /\ armed /\ ~sound /\ sound' = TRUE /\ armed' = FALSE /\ UNCHANGED want

\* The start was tried and failed.
Refuse == armed /\ ~sound /\ armed' = FALSE /\ UNCHANGED <<want, sound>>

End == sound /\ sound' = FALSE /\ UNCHANGED <<want, armed>>

Withdraw == want /\ ~sound /\ want' = FALSE /\ UNCHANGED <<armed, sound>>

Next == Ask \/ Begin \/ Refuse \/ End \/ Withdraw

Spec == Init /\ [][Next]_vars
===============================================================================
