---------------------------- MODULE MCRecognition ----------------------------
(* Values of Recognition's constants for TLC.  Model values come from the   *)
(* cfg.                                                                     *)
EXTENDS Recognition, TLC

CONSTANTS f1, f2

Sources == {[m \in {"video"} |-> f2],
            [m \in {"voice", "video"} |-> IF m = "voice" THEN f1 ELSE f2]}
Takes == [f \in Path |-> [shows : Person,
                          motion : IF f = f2 THEN {"moving", "single frame"}
                                   ELSE {"moving"}]]
Oneself == {<<x, x>> : x \in Person}
Interchangeable == Permutations(Process) \cup Permutations(Id) \cup Permutations(Key)
                   \cup Permutations(Person)
=============================================================================
