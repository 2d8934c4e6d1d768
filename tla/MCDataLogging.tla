---------------------------- MODULE MCDataLogging ----------------------------
(* A small instance of RecordingReplay: two recordings, and others that start and *)
(* stop the recording as well (the Oculus policy) or publish another event.   *)
EXTENDS RecordingReplay

AllEvents == {"START", "STOP", "OTHER"}

=============================================================================
