-------------------------- MODULE ComparisonEvidence ------------------------
(***************************************************************************)
(* What a comparison concludes, at the times a reader may be told: the     *)
(* life of the comparisons, of Comparisons, with what their rows say and   *)
(* with what makes two runs comparable.                                    *)
(***************************************************************************)
EXTENDS Comparisons, ChangeClassification, Compatibility

\* What a comparison that can be read says of permissions is so on the hosts, whatever
\* either run failed to read and whatever was lost of its artifact on the way.
ConclusionsHold ==
    \A c \in Comparisons : state[c] = "complete" => EvidenceIsTruth /\ EveryConclusionIsTrue

\* From its first batch on, no row of a comparison drops a difference, says "unchanged" of
\* what was not compared, or depends on which of the runs is the baseline.
RowsAreFaithful ==
    \A c \in Comparisons : resources[c] # {} => ResourceRowsAreFaithful /\ ItemRowsAreFaithful

\* A comparison the worker starts by itself concludes no more than the one a user could
\* have asked for, though the two decide by rules written twice.
AutomaticWithinRequested ==
    \A c \in Comparisons :
        state[c] # "none" /\ trigger[c] = "automatic" =>
            AutomaticConcludesLess /\ BothConcludeAlike
=============================================================================
