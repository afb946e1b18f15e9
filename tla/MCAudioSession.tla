--------------------------- MODULE MCAudioSession ---------------------------
(***************************************************************************)
(* An instance of AudioSession for TLC: one recording of three chunks over *)
(* two connections. And one of RealtimeAudio: the streams of its decoders, *)
(* of frames empty, shorter than a step, longer than a window or the cap.  *)
(***************************************************************************)
EXTENDS AudioSession, TLC

Both == {TRUE, FALSE}
Working == {TRUE}

Asked == {[mode |-> "windowed", chunk |-> 2], [mode |-> "auto", chunk |-> 9],
          [mode |-> "chunk", chunk |-> NoChunk]}
ServerLimits(w, o) == [modes |-> <<"chunk", "windowed">>, default |-> "windowed", min |-> 2, max |-> 4,
                 window |-> w, overlap |-> o]
TwoLimits == {ServerLimits(3, 0), ServerLimits(9, 2)}
ShortFrames == {0, 1, 3, 5, 17}
=============================================================================
