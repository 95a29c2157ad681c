----------------------------- MODULE MCAuthoring ---------------------------
(* A generation beside the person who tailors its template, or beside an     *)
(* editor; two refiners, or a refiner and an editor; an author and an editor. *)
EXTENDS NoteAuthoring

CONSTANTS s, o1, o2, c, p, t1, t2, t3, t4
TwoOutputs == <<o1, o2>>
Plays(r1, r2, r3, r4) == t1 :> r1 @@ t2 :> r2 @@ t3 :> r3 @@ t4 :> r4
Ensembles == {Plays("generator", "tailor", "none", "none"),
              Plays("generator", "none", "editor", "none"),
              Plays("refiner", "refiner", "evaluator", "promoter"),
              Plays("refiner", "evaluator", "editor", "promoter"),
              Plays("author", "none", "editor", "none")}
OnceOrTwice == t1 :> 2 @@ t2 :> 1 @@ t3 :> 1 @@ t4 :> 2
=============================================================================
