-------------------------- MODULE MCSessionSummary --------------------------
\* Two speakers. The LLM is sure of one name, suggests another, or says nothing.
EXTENDS SessionSummary, TLC

CONSTANTS s1, s2, w1, w2

TwoSpeakers == {s1, s2}
TwoWorkers == {w1, w2}
WorkerSymmetry == Permutations(TwoWorkers)
ThreeAnswers == {(s1 :> "auto") @@ (s2 :> "suggested"), (s1 :> "suggested") @@ (s2 :> "none"),
                 (s1 :> "none") @@ (s2 :> "none")}
SomeSingle == {2}
OneOrAll == {1, 4}
\* One conversation with two events after its diarization; the ones that meet a rerun are
\* few. Two conversations with one event between or after their diarizations. Four that
\* only make the chain.
AfterOne == EventKinds \ {"diarize"}
Rerun == {<<"diarize", "patch", "diarize">>, <<"diarize", "diarize", "patch">>,
          <<"diarize", "diarize", "raise">>}
Alone == {<<"diarize", e, f>> : e, f \in AfterOne} \cup Rerun \cup {<<"retry", "diarize">>}
Two == {<<"diarize", "diarize", "raise">>, <<"diarize", "delete", "diarize">>}
FourPlans == <<Alone, Two, {}, {<<"delete", "delete">>}>>
=============================================================================
