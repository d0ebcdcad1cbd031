------------------------------ MODULE MCDashboard ------------------------------
(***************************************************************************)
(* Small instances of Dashboard.  The first upload has two files of one    *)
(* document, one of another, and files that are skipped; the second one    *)
(* edits the first document and has no text for the other.                 *)
(***************************************************************************)
EXTENDS Dashboard, TLC

CONSTANTS q1, q2, u1, u2

MCOrder == (q1 :> 1) @@ (q2 :> 2) @@ (u1 :> 1) @@ (u2 :> 2)

File(stem, suffix, content) ==
    [stem |-> stem, suffix |-> suffix, content |-> content]

MCFilesOf ==
    (u1 :> <<File("a", ".txt", "text"), File("b", ".md", "text"),
             File("a", ".md", "text"), File("c", ".pdf", "text"),
             File("d", ".txt", "large"), File("b", ".txt", "binary")>>)
    @@ (u2 :> <<File("a", ".txt", "text"), File("b", ".md", "blank")>>)

Sections(S) == [section \in S |-> "ok"]

(* What the repository ships, and one with an empty heading. *)
MCConfigFiles ==
    {Sections(RequiredSections \cup {"pipeline", "cache"}),
     [Sections(RequiredSections) EXCEPT !["fusion"] = "null"]}

=============================================================================
