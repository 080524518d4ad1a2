------------------------------ MODULE MCPresence ------------------------------
(***************************************************************************)
(* A user with a connection, and claims of a voice call, a video call and  *)
(* a meeting.                                                              *)
(***************************************************************************)
EXTENDS PresenceProperties

CONSTANTS voice, video, meeting, n1, k1, t1, t2, job

MCNodeOf == [k \in Connections |-> n1]

Busy(source, id, until) == [default |-> "busy", source |-> source, id |-> id, until |-> until]
VoiceCall == Busy("internal", voice, None)
VideoCall == Busy("internal", video, None)
Meeting == Busy("external", meeting, 1)

EveryClaim == {VoiceCall, VideoCall, Meeting}
OneCall == {VoiceCall}

(* What the theorem on ClaimsFollowCalls supposes; and these are two calls. *)
ASSUME MCOrdinary == OrdinaryClaims /\ Cardinality({c \in Claims : c.source = "internal"}) <= 2
=============================================================================
