--------------------------- MODULE MCSessionLane ---------------------------
(***************************************************************************)
(* SessionLane for TLC: which process serves which calls.                  *)
(***************************************************************************)
EXTENDS SessionLane, TLC

CONSTANTS p1, p2

\* Both open the lane; one works and resets, the other ends from the console,
\* recovers and enters answers.
Openers     == (p1 :> {"start", "op", "reset"})
               @@ (p2 :> {"start", "cli_end", "recover", "answer"})
\* One opens, works, resets and ends; the other works, resumes, recovers, ends
\* the session from the console and enters answers; resets and answers
\* overwrite the state.
Overwriters == (p1 :> {"start", "op", "reset", "end"})
               @@ (p2 :> {"op", "resume", "answer", "recover", "cli_end"})
\* One session, ended and recovered while a reset writes its old state back.
Closers     == (p1 :> {"start", "reset"}) @@ (p2 :> {"recover", "end"})

\* Each of these leaves one of the promises open.
Starters    == (p1 :> {"start", "op"}) @@ (p2 :> {"start"})
Resetter    == (p1 :> {"start", "op", "end"}) @@ (p2 :> {"reset"})
Former      == (p1 :> {"start", "op", "reset"}) @@ (p2 :> {"op", "resume"})
Attester    == (p1 :> {"start", "end"}) @@ (p2 :> {"op"})
Reopeners   == (p1 :> {"start", "end"}) @@ (p2 :> {"recover"})
Terminal    == (p1 :> {"start"}) @@ (p2 :> {"cli_end"})

Twice  == (p1 :> 2) @@ (p2 :> 2)
Uneven == (p1 :> 3) @@ (p2 :> 2)
Thrice == (p1 :> 3) @@ (p2 :> 3)
\* The second process only retries what it finds unfinished.
Alone  == (p1 :> 3) @@ (p2 :> 0)

Symmetry == Permutations(Sessions) \cup Permutations(Tokens)
=============================================================================
