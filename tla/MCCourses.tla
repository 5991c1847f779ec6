----------------------------- MODULE MCCourses -----------------------------
(***************************************************************************)
(* An instance of Courses for TLC: a course with a lesson, a quiz and an   *)
(* assignment, and an advanced course with a lesson and an exam that has   *)
(* it as a prerequisite.                                                   *)
(***************************************************************************)
EXTENDS Courses

CONSTANTS basic, advanced, l1, l3, quiz1, exam1, task1

CourseOfWork == [x \in Work |-> IF x \in {l3, exam1} THEN advanced ELSE basic]
RequiresAll  == [c \in Course |-> Rule \ (IF Of(Exam, c) = {} THEN {"exam"} ELSE {})]
AdvancedLast == [c \in Course |-> IF c = advanced THEN {basic} ELSE {}]
OneAttempt   == [q \in Quiz |-> 1]
=============================================================================
