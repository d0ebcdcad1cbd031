----------------------------- MODULE JudgeHarness -----------------------------
(***************************************************************************)
(* A batch of golden queries through generation and judge: the citation    *)
(* generator (src/generation/generate.py) answers each query over its      *)
(* chunks, and the judge (src/eval/judge.py) scores the answer.            *)
(*                                                                         *)
(* The two language models are external: an answer is the sequence of its  *)
(* [n] markers, a judge's reply its two scores, or text the score pattern  *)
(* does not match.                                                         *)
(***************************************************************************)
EXTENDS Metrics

CONSTANTS
    Answers,       \* Seq(Nat): markers of the answers the model may give
    Scores,        \* [relevance, faithfulness]: replies the judge may give
    FaithfulFrom   \* FAITHFULNESS_THRESHOLD

ASSUME AnswersType == \A markers \in Answers : markers \in Seq(Nat)

VARIABLES
    contexts,  \* per query of the batch, the chunks retrieved for it
    phase,     \* what the harness does next
    answer,    \* markers of the answer to the current query
    citations, \* Seq(chunk), parsed from the answer
    verdicts,  \* Seq([relevance, faithfulness]), of the queries judged so far
    summary    \* what summarize() makes of the verdicts

judgeVars == <<contexts, phase, answer, citations, verdicts, summary>>

-----------------------------------------------------------------------------
JudgeInit(batch, start) ==
    /\ contexts = batch
    /\ phase = start
    /\ answer = <<>>
    /\ citations = <<>>
    /\ verdicts = <<>>
    /\ summary = <<>>

(* Mutant: a chunk is cited as often as the answer names it. *)
ParseEveryMarker(markers, results) ==
    LET valid == SelectSeq(markers, LAMBDA n : n \in DOMAIN results)
    IN  [i \in DOMAIN valid |-> results[valid[i]]]

(* The chunks the markers number, each at its first marker. *)
ParseCitations(markers, results) ==
    LET Seen(n) == \E m \in 1..(n - 1) : markers[m] = markers[n]
        cited[n \in 0..Len(markers)] ==
            IF n = 0 THEN <<>>
            ELSE IF markers[n] \notin DOMAIN results \/ Seen(n) THEN cited[n - 1]
            ELSE Append(cited[n - 1], results[markers[n]])
    IN  cited[Len(markers)]

Current == Len(verdicts) + 1

Generate ==
    /\ phase \in {"answer", "answer_again"}
    /\ Current <= Len(contexts)
    /\ answer' \in Answers
    /\ citations' = ParseCitations(answer', contexts[Current])
    /\ phase' = "judge"
    /\ UNCHANGED <<contexts, verdicts, summary>>

(* The first failure of the model is retried once, the second is raised. *)
GenerateFails ==
    /\ phase \in {"answer", "answer_again"}
    /\ Current <= Len(contexts)
    /\ phase' = IF phase = "answer" THEN "answer_again" ELSE "raised"
    /\ UNCHANGED <<contexts, answer, citations, verdicts, summary>>

Conclude(verdict) ==
    /\ verdicts' = Append(verdicts, verdict)
    /\ phase' = "answer"
    /\ answer' = <<>>
    /\ citations' = <<>>
    /\ UNCHANGED <<contexts, summary>>

JudgeReplies ==
    /\ phase \in {"judge", "repair"}
    /\ \E verdict \in Scores : Conclude(verdict)

(* Mutant: a reply that cannot be repaired is judged afresh. *)
JudgeAsksAgain ==
    /\ phase \in {"judge", "repair"}
    /\ phase' = IF phase = "judge" THEN "repair" ELSE "judge"
    /\ UNCHANGED <<contexts, answer, citations, verdicts, summary>>

(* A reply that does not parse is repaired once, then scored zero. *)
JudgeUnparseable ==
    \/ /\ phase = "judge"
       /\ phase' = "repair"
       /\ UNCHANGED <<contexts, answer, citations, verdicts, summary>>
    \/ /\ phase = "repair"
       /\ Conclude([relevance |-> 0, faithfulness |-> 0])

(* The judge's model fails, or the contexts cannot be fetched for it. *)
JudgeRaises ==
    /\ phase \in {"judge", "repair"}
    /\ phase' = "raised"
    /\ UNCHANGED <<contexts, answer, citations, verdicts, summary>>

Column(F(_)) == Mean([i \in DOMAIN verdicts |-> F(verdicts[i])])

(* The summary of no verdicts has no grounded share. *)
Summarize ==
    IF verdicts = <<>> THEN [relevance |-> 0, faithfulness |-> 0]
    ELSE [relevance |-> Column(LAMBDA v : v.relevance),
          faithfulness |-> Column(LAMBDA v : v.faithfulness),
          grounded_share |->
              Column(LAMBDA v : IF v.faithfulness >= FaithfulFrom THEN Unit ELSE 0)]

BatchReturns ==
    /\ phase = "answer"
    /\ Current > Len(contexts)
    /\ summary' = Summarize
    /\ phase' = "returned"
    /\ UNCHANGED <<contexts, answer, citations, verdicts>>

JudgeNext ==
    \/ Generate
    \/ GenerateFails
    \/ JudgeReplies
    \/ JudgeUnparseable
    \/ JudgeRaises
    \/ BatchReturns

-----------------------------------------------------------------------------
(* What the generator calls grounded citations are exactly the retrieved   *)
(* chunks that the answer names, once each, in the order of their first    *)
(* markers, whatever numbers the model wrote: every citation counts as     *)
(* faithful, so the faithfulness metric cannot see an invented marker.     *)
CitationsAreGrounded ==
    phase = "judge" =>
        LET results == contexts[Current]
            First(chunk) ==
                CHOOSE i \in DOMAIN answer :
                    /\ answer[i] \in DOMAIN results /\ results[answer[i]] = chunk
                    /\ \A j \in 1..(i - 1) : answer[j] # answer[i]
        IN  /\ ToSet(citations) = {results[n] : n \in ToSet(answer) \cap DOMAIN results}
            /\ \A i, j \in DOMAIN citations :
                  i < j => First(citations[i]) < First(citations[j])
            /\ CitationFaithfulness(citations, ToSet(results)) = Unit

=============================================================================
