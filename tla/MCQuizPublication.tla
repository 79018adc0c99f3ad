--------------------------- MODULE MCQuizPublication ---------------------------
(* One question belongs to the first lecture, the others to the second.    *)
EXTENDS QuizPublication

CONSTANT q1

QuestionLectures == [q \in Questions |-> IF q = q1 THEN 1 ELSE 2]
================================================================================
