----------------------------- MODULE MCPipeline -----------------------------
(***************************************************************************)
(* Instances of Pipeline for TLC. A budget names how often each request is *)
(* made and how often each fault occurs in a behaviour; everything else is *)
(* 0. A run is given a set of budgets.                                     *)
(***************************************************************************)
EXTENDS Pipeline, TLC

CONSTANTS a1, a2, d1, c1, c2

Times(f) == [k \in Requests \cup Faults |-> IF k \in DOMAIN f THEN f[k] ELSE 0]

TwoAsr  == {a1, a2}
OneAsr  == {a1}
OneDiar == {d1}
On  == {TRUE}
Mixed == {TRUE, FALSE}
AsrSymmetry == Permutations(AsrWorkers)
TwoCalls == {c1, c2}
OneCall  == {c1}

\* Every fault; a redelivery gives the message a second attempt.
FaultBudgets == {Times([upload |-> 1, delete |-> 1, io |-> 2, crash |-> 1,
                        lost |-> 1, redeliver |-> 1, handler |-> 1])}

\* Only faults after which the broker still has the message.
DeliveryBudgets == {Times([upload |-> 1, crash |-> 2, redeliver |-> 1])}

\* Only faults that reach an exception handler: an upload that is transcribed
\* again and deleted, or a realtime session with snapshots whose transcript is
\* worked on again.
HandlerBudgets == {
  Times([upload |-> 1, retranscribe |-> 1, delete |-> 1, io |-> 2]),
  Times([snapshot |-> 2, finalize |-> 1, admin_retranscribe |-> 1,
         diarize |-> 1, rename |-> 1, io |-> 1])}

\* The shortest instances on which the code and its documents disagree.
WrongRowBudgets == {Times([upload |-> 1, retranscribe |-> 1, io |-> 1])}
SecondFinalBudgets == {Times([finalize |-> 1, upload |-> 1])}
PollingBudgets == {Times([upload |-> 1, io |-> 1])}
NamesBudgets == {Times([upload |-> 1, rename |-> 1, diarize |-> 1])}
=============================================================================
