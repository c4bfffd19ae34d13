---------------------- MODULE MCCowSubmissionPauseStore ----------------------
(* Values for the constants of CowSubmissionPauseStore. *)
EXTENDS CowSubmissionPauseStore

CONSTANTS w1, w2, daemon

MCSetter == {w1, w2}
MCReader == {daemon}

\* No file, and the pause of a former process; pauses of this one are stored for
\* the reason that the start does not respect as well.
MCFirstFile == {NoFile, [mode |-> "paused", startup |-> FALSE, chosen |-> TRUE]}

=============================================================================
