------------------------------ MODULE MCChunking ------------------------------
(* Small instances of Chunking: every document of up to MaxSentences       *)
(* sentences of 1 to MaxSentence tokens.                                   *)
EXTENDS Chunking, FiniteSetsExt

CONSTANTS MaxSentences, MaxSentence

Ends(lengths) ==
    [i \in DOMAIN lengths |-> MapThenSumSet(LAMBDA j : lengths[j], 1..i)]

MCDocuments ==
    {Ends(lengths) :
        lengths \in UNION {[1..n -> 1..MaxSentence] : n \in 0..MaxSentences}}

=============================================================================
